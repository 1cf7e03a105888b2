------------------------------ MODULE GateProofs ------------------------------
(***************************************************************************)
(* What the discovery gate (module Gate) keeps, for any sessions, searches *)
(* and budget.  A search that began behind an open gate is let through     *)
(* whatever runs beside it, the marker never being taken away.  The budget *)
(* and the suggestion are kept in files that are read in one step and      *)
(* written in another, so they hold of the sessions that have one tool     *)
(* call at a time, where nobody writes between the two; and each write     *)
(* that fails costs them a budget at most.                                 *)
(***************************************************************************)
EXTENDS Gate, TLAPS

Places == {"idle", "budget", "marker", "count", "truncate", "write",
           "signal", "searching", "nudge"}
Calls == [at : Places, of : Sessions \union {"none"}, read : Nat, opened : BOOLEAN]

GateTypeOK ==
  /\ marker \in [Sessions -> BOOLEAN] /\ nudged \in [Sessions -> BOOLEAN]
  /\ counter \in [Sessions -> Nat \union {Truncated}]
  /\ search \in [Searches -> Calls]
  /\ lost \in [Sessions -> Nat] /\ blocks \in [Sessions -> Nat] /\ nudges \in [Sessions -> Nat]
  /\ \A p \in Searches : search[p].at # "idle" => Session(p) \in Sessions

\* Turning p away, in the order of the steps.
Counting(p) == search[p].at \in {"count", "truncate", "write"}

\* The gate that stood open when p began stands open.
OpenGate == \A p \in Searches : search[p].opened => ~Counting(p) /\ (search[p].at # "idle" => marker[Session(p)])

InTurn(p) == search[p].at # "idle" /\ Session(p) \notin parallel

OneAtATime ==
  \A p, q \in Searches : InTurn(p) /\ search[q].at # "idle" /\ Session(p) = Session(q) => p = q

\* What the writes that failed may have cost session s.
Forgiven(s) == gateBlockBudget * lost[s]

\* The searches turned away are counted, but for those forgiven: in the
\* counter's file except while it is written, then by whoever writes it.
CounterTrue ==
  /\ \A s \in Sessions \ parallel :
       /\ gateBlocksSoFar(s) <= gateBlockBudget
       /\ (\A p \in Searches : search[p].at = "write" => Session(p) # s) => blocks[s] <= gateBlocksSoFar(s) + Forgiven(s)
  /\ \A p \in Searches :
       /\ search[p].at \in {"truncate", "write"} /\ InTurn(p) =>
            search[p].read < gateBlockBudget /\ blocks[Session(p)] <= search[p].read + Forgiven(Session(p))
       /\ search[p].at \in {"marker", "count"} /\ InTurn(p) => gateBlocksSoFar(Session(p)) < gateBlockBudget

NudgeLeft ==
  /\ \A s \in Sessions \ parallel : nudges[s] <= 1 + lost[s] /\ (~nudged[s] => nudges[s] <= lost[s])
  /\ \A p \in Searches : search[p].at = "nudge" /\ InTurn(p) => ~nudged[Session(p)]

Turns == OneAtATime /\ CounterTrue /\ NudgeLeft

-----------------------------------------------------------------------------
(* Types, and the gate that stands open.                                   *)

\* A step of p leaves the other calls as they are.
Alone(p) == \A q \in Searches \ {p} : search'[q] = search[q]

LEMMA SearchStepTyped ==
  ASSUME GateTypeOK, NEW p \in Searches, PreSearch(p) \/ PostSearch(p) \/ CountLost(p) \/ NudgeLost(p)
  PROVE  GateTypeOK' /\ Alone(p)
<1> USE DEF GateTypeOK, Loses, Calls, Places, Alone, Session, Goto, NoSearch, Truncated, gateBlocksSoFar
<1>1. CASE CheckBudget(p)
  BY <1>1, GateAssumption DEF CheckBudget
<1>2. CASE CheckMarker(p)
  BY <1>2 DEF CheckMarker
<1>3. CASE ReadCount(p)
  <2>1. PICK n \in Nat : n = gateBlocksSoFar(Session(p))
    BY <1>3 DEF ReadCount
  <2>2. search' = [search EXCEPT ![p].at = "truncate", ![p].read = n]
    BY <1>3, <2>1 DEF ReadCount
  <2>3. search' \in [Searches -> Calls]
    <3>1. [search[p] EXCEPT !.at = "truncate", !.read = n] \in Calls
      OBVIOUS
    <3>2. search' = [search EXCEPT ![p] = [search[p] EXCEPT !.at = "truncate", !.read = n]]
      BY <2>2
    <3> QED
      BY <3>1, <3>2
  <2>4. Alone(p) /\ search'[p].of = search[p].of /\ search[p].at # "idle"
    BY <1>3, <2>2 DEF ReadCount
  <2> QED
    BY <1>3, <2>3, <2>4 DEF ReadCount
<1>4. CASE TruncateCount(p)
  BY <1>4 DEF TruncateCount
<1>5. CASE WriteCount(p)
  BY <1>5 DEF WriteCount
<1>6. CASE Signal(p)
  BY <1>6 DEF Signal
<1>7. CASE CheckNudged(p)
  BY <1>7 DEF CheckNudged
<1>8. CASE Nudge(p)
  BY <1>8 DEF Nudge
<1>9. CASE CountLost(p)
  BY <1>9 DEF CountLost
<1>10. CASE NudgeLost(p)
  BY <1>10 DEF NudgeLost
<1> QED
  BY <1>1, <1>2, <1>3, <1>4, <1>5, <1>6, <1>7, <1>8, <1>9, <1>10 DEF PreSearch, PostSearch

LEMMA SessionStepTyped ==
  ASSUME GateTypeOK, NEW s \in Sessions,
         FindContext(s) \/ PostFind(s) \/ PostFindLost(s) \/ (\E p \in Searches : Search(p, s))
  PROVE  GateTypeOK'
<1> USE DEF GateTypeOK, Calls, Places, Session
<1>1. CASE FindContext(s) \/ PostFind(s)
  BY <1>1 DEF FindContext, PostFind
<1>3. CASE PostFindLost(s)
  BY <1>3 DEF PostFindLost, Loses
<1>2. ASSUME NEW p \in Searches, Search(p, s)
      PROVE  GateTypeOK'
  <2> DEFINE call == [at |-> "budget", of |-> s, read |-> 0, opened |-> marker[s]]
  <2>1. marker[s] \in BOOLEAN
    OBVIOUS
  <2>2. call \in Calls /\ call.at = "budget" /\ call.of = s
    BY <2>1, Zenon
  <2>3. search' = [search EXCEPT ![p] = call]
    BY <1>2 DEF Search
  <2> HIDE DEF call
  <2> QED
    BY <1>2, <2>2, <2>3 DEF Search
<1> QED
  BY <1>1, <1>2, <1>3

LEMMA NextTyped == GateTypeOK /\ [Next]_vars => GateTypeOK'
<1> SUFFICES ASSUME GateTypeOK, [Next]_vars PROVE GateTypeOK'
  OBVIOUS
<1>1. CASE UNCHANGED vars
  BY <1>1 DEF vars, GateTypeOK, Session
<1> QED
  BY <1>1, SearchStepTyped, SessionStepTyped DEF Next

LEMMA OpenGateKept ==
  ASSUME GateTypeOK, OpenGate, [Next]_vars PROVE OpenGate'
<1> USE DEF GateTypeOK, Calls, OpenGate, Counting, Session, Goto, NoSearch
<1>1. ASSUME NEW s \in Sessions, FindContext(s) \/ PostFind(s) \/ PostFindLost(s)
      PROVE OpenGate'
  BY <1>1 DEF FindContext, PostFind, PostFindLost
<1>2. ASSUME NEW s \in Sessions, NEW p \in Searches, Search(p, s)
      PROVE OpenGate'
  BY <1>2 DEF Search
<1>3. ASSUME NEW p \in Searches, PreSearch(p)
      PROVE OpenGate'
  <2>1. CASE CheckBudget(p)
    BY <2>1 DEF CheckBudget
  <2>5. CASE Signal(p)
    BY <2>5 DEF Signal
  <2>2. CASE CheckMarker(p)
    BY <2>2 DEF CheckMarker
  <2>3. CASE ReadCount(p) \/ TruncateCount(p)
    BY <2>3 DEF ReadCount, TruncateCount
  <2>4. CASE WriteCount(p)
    BY <2>4 DEF WriteCount
  <2> QED
    BY <1>3, <2>1, <2>2, <2>3, <2>4, <2>5 DEF PreSearch
<1>4. ASSUME NEW p \in Searches, PostSearch(p)
      PROVE OpenGate'
  BY <1>4 DEF PostSearch, CheckNudged, Nudge
<1>5. ASSUME NEW p \in Searches, CountLost(p) \/ NudgeLost(p)
      PROVE OpenGate'
  BY <1>5 DEF CountLost, NudgeLost
<1>6. CASE UNCHANGED vars
  BY <1>6 DEF vars
<1> QED
  BY <1>1, <1>2, <1>3, <1>4, <1>5, <1>6 DEF Next

\* The gate's files and calls keep their types.
THEOREM GateTyped == Spec => []GateTypeOK
<1>1. Init => GateTypeOK
  BY DEF Init, GateTypeOK, Calls, Places, NoSearch, Session
<1> QED
  BY <1>1, NextTyped, PTL DEF Spec

\* "one find_context call opens it" (the block message of hook.go): with any
\* number of calls side by side, a search that begins once the gate is open is
\* never on its way to being turned away.
THEOREM OpenGateStays == Spec => []OpenStaysOpen
<1>1. Init => OpenGate
  BY DEF Init, OpenGate, NoSearch, Counting
<1>2. GateTypeOK /\ OpenGate /\ [Next]_vars => OpenGate'
  BY OpenGateKept
<1>3. OpenGate => OpenStaysOpen
  BY DEF OpenGate, OpenStaysOpen, Counting
<1> QED
  BY <1>1, <1>2, <1>3, GateTyped, PTL DEF Spec

-----------------------------------------------------------------------------
(* One tool call of a session at a time.                                   *)

\* The steps of a tool call.
Steps(p) == PreSearch(p) \/ PostSearch(p) \/ CountLost(p) \/ NudgeLost(p)

\* A call that ends makes room, and one begins only when there is room.
LEMMA StepStays ==
  ASSUME GateTypeOK, NEW p \in Searches, Steps(p)
  PROVE  /\ search[p].at # "idle" /\ Alone(p) /\ UNCHANGED parallel
         /\ search'[p].at = "idle" \/ search'[p].of = search[p].of
<1>1. Alone(p)
  BY SearchStepTyped DEF Steps
<1>2. search[p].at # "idle" /\ UNCHANGED parallel
  BY DEF Steps, PreSearch, PostSearch, CheckBudget, CheckMarker, ReadCount, TruncateCount, WriteCount,
         Signal, CheckNudged, Nudge, CountLost, NudgeLost
<1>3. search'[p].at = "idle" \/ search'[p].of = search[p].of
  BY DEF Steps, PreSearch, PostSearch, CheckBudget, CheckMarker, ReadCount, TruncateCount, WriteCount,
         Signal, CheckNudged, Nudge, CountLost, NudgeLost, Goto, NoSearch, GateTypeOK, Calls
<1> QED
  BY <1>1, <1>2, <1>3

LEMMA OneAtATimeKept ==
  ASSUME GateTypeOK, OneAtATime, [Next]_vars PROVE OneAtATime'
<1>1. ASSUME NEW s \in Sessions, NEW p \in Searches, Search(p, s)
      PROVE  OneAtATime'
  <2>1. s \in parallel \/ \A q \in Searches : Session(q) # s
    BY <1>1 DEF Search, Turn
  <2>2. \A q \in Searches \ {p} : search'[q] = search[q]
    BY <1>1 DEF Search, GateTypeOK
  <2>3. search'[p].of = s /\ UNCHANGED parallel
    BY <1>1 DEF Search, GateTypeOK
  <2> QED
    BY <2>1, <2>2, <2>3 DEF OneAtATime, InTurn, Session
<1>2. ASSUME NEW p \in Searches, Steps(p)
      PROVE  OneAtATime'
  BY <1>2, StepStays DEF OneAtATime, InTurn, Session, Alone
<1>3. CASE UNCHANGED <<parallel, search>>
  BY <1>3 DEF OneAtATime, InTurn, Session
<1> QED
  BY <1>1, <1>2, <1>3 DEF Next, Steps, FindContext, PostFind, PostFindLost, vars

\* A step of p within its session: nobody else of the session is under way.
LEMMA OthersElsewhere ==
  ASSUME OneAtATime, NEW p \in Searches, search[p].at # "idle", Session(p) \notin parallel
  PROVE  \A q \in Searches \ {p} : search[q].at # "idle" => Session(q) # Session(p)
BY DEF OneAtATime, InTurn

LEMMA ForgivenIs ==
  ASSUME GateTypeOK
  PROVE  /\ \A s \in Sessions : Forgiven(s) \in Nat
         /\ UNCHANGED lost => \A s : Forgiven(s)' = Forgiven(s)
         /\ \A s \in Sessions : Loses(s) =>
              /\ Forgiven(s)' = Forgiven(s) + gateBlockBudget
              /\ \A t \in Sessions \ {s} : Forgiven(t)' = Forgiven(t)
<1>1. ASSUME NEW n \in Nat PROVE gateBlockBudget * n \in Nat /\ gateBlockBudget * (n + 1) = gateBlockBudget * n + gateBlockBudget
  BY GateAssumption
<1>2. \A s \in Sessions : lost[s] \in Nat
  BY DEF GateTypeOK
<1>3. \A s \in Sessions : Forgiven(s) \in Nat
  BY <1>1, <1>2 DEF Forgiven
<1>4. UNCHANGED lost => \A s : Forgiven(s)' = Forgiven(s)
  BY DEF Forgiven
<1>5. ASSUME NEW s \in Sessions, Loses(s)
      PROVE  /\ Forgiven(s)' = Forgiven(s) + gateBlockBudget
             /\ \A t \in Sessions \ {s} : Forgiven(t)' = Forgiven(t)
  <2>1. lost'[s] = lost[s] + 1 /\ \A t \in Sessions \ {s} : lost'[t] = lost[t]
    BY <1>5 DEF Loses, GateTypeOK
  <2>2. gateBlockBudget * (lost[s] + 1) = gateBlockBudget * lost[s] + gateBlockBudget
    BY <1>1, <1>2
  <2> QED
    BY <2>1, <2>2 DEF Forgiven
<1> QED
  BY <1>3, <1>4, <1>5

LEMMA BudgetReadTyped ==
  ASSUME GateTypeOK, NEW s \in Sessions PROVE gateBlocksSoFar(s) \in Nat /\ blocks[s] \in Nat
BY DEF GateTypeOK, gateBlocksSoFar, Truncated

\* What the invariant says of session s, and of call p.
CountOf(s) ==
  /\ gateBlocksSoFar(s) <= gateBlockBudget
  /\ (\A p \in Searches : search[p].at = "write" => Session(p) # s) => blocks[s] <= gateBlocksSoFar(s) + Forgiven(s)
CountBy(p) ==
  /\ search[p].at \in {"truncate", "write"} /\ InTurn(p) =>
       search[p].read < gateBlockBudget /\ blocks[Session(p)] <= search[p].read + Forgiven(Session(p))
  /\ search[p].at \in {"marker", "count"} /\ InTurn(p) => gateBlocksSoFar(Session(p)) < gateBlockBudget

\* A step of p leaves the others as they are when it leaves their sessions so.
LEMMA CountElsewhere ==
  ASSUME GateTypeOK, OneAtATime, CounterTrue, NEW p \in Searches, Steps(p), NEW s, s = Session(p),
         \A t \in Sessions \ {s} : counter'[t] = counter[t] /\ blocks'[t] = blocks[t] /\ Forgiven(t)' = Forgiven(t),
         s \notin parallel => CountOf(s)' /\ CountBy(p)'
  PROVE  CounterTrue'
<1>1. /\ search[p].at # "idle" /\ UNCHANGED parallel /\ s \in Sessions
      /\ \A q \in Searches \ {p} : search'[q] = search[q]
      /\ search'[p].at = "idle" \/ search'[p].of = s
  BY StepStays DEF GateTypeOK, Alone, Session
<1>2. ASSUME NEW t \in Sessions \ parallel, t # s PROVE CountOf(t)'
  <2>1. counter'[t] = counter[t] /\ blocks'[t] = blocks[t] /\ Forgiven(t)' = Forgiven(t)
    BY <1>2
  <2>2. gateBlocksSoFar(t)' = gateBlocksSoFar(t)
    BY <2>1 DEF gateBlocksSoFar
  <2>3. ASSUME \A q \in Searches : search'[q].at = "write" => search'[q].of # t
        PROVE  \A q \in Searches : search[q].at = "write" => Session(q) # t
    BY <1>1, <1>2, <2>3 DEF Session
  <2>4. CountOf(t)
    BY DEF CounterTrue, CountOf
  <2> QED
    BY <2>1, <2>2, <2>3, <2>4 DEF CountOf, Session
<1>3. ASSUME NEW q \in Searches \ {p}, InTurn(q)' PROVE CountBy(q)'
  <2>1. search'[q] = search[q]
    BY <1>1
  <2>2. PICK t : t = Session(q)
    OBVIOUS
  <2>3. search[q].at # "idle" /\ t \notin parallel /\ InTurn(q) /\ t = Session(q)' /\ t \in Sessions
    BY <1>1, <1>3, <2>1, <2>2 DEF InTurn, Session, GateTypeOK
  <2>4. t # s
    BY <1>1, <2>2, <2>3 DEF OneAtATime, InTurn
  <2>5. counter'[t] = counter[t] /\ blocks'[t] = blocks[t] /\ Forgiven(t)' = Forgiven(t)
    BY <2>3, <2>4
  <2>6. gateBlocksSoFar(t)' = gateBlocksSoFar(t)
    BY <2>5 DEF gateBlocksSoFar
  <2>7. CountBy(q)
    BY DEF CounterTrue, CountBy
  <2>8. /\ search[q].at \in {"truncate", "write"} =>
             search[q].read < gateBlockBudget /\ blocks[t] <= search[q].read + Forgiven(t)
        /\ search[q].at \in {"marker", "count"} => gateBlocksSoFar(t) < gateBlockBudget
    BY <2>2, <2>3, <2>7 DEF CountBy
  <2> QED
    BY <2>1, <2>3, <2>5, <2>6, <2>8 DEF CountBy
<1>4. \A t \in Sessions \ parallel : CountOf(t)'
  BY <1>2
<1>5. \A q \in Searches : CountBy(q)'
  <2>1. ASSUME NEW q \in Searches, ~InTurn(q)' PROVE CountBy(q)'
    BY <2>1 DEF CountBy
  <2>2. InTurn(p)' => CountBy(p)'
    BY <1>1 DEF InTurn, Session
  <2> QED
    BY <1>3, <2>1, <2>2
<1> QED
  BY <1>1, <1>4, <1>5 DEF CounterTrue, CountOf, CountBy

\* What the steps do to the call that takes them, and to its session.
LEMMA CallAfter ==
  ASSUME GateTypeOK, NEW p \in Searches
  PROVE  /\ \A place : Goto(p, place) =>
              search'[p].at = place /\ search'[p].of = Session(p) /\ search'[p].read = search[p].read
         /\ search' = [search EXCEPT ![p] = NoSearch] => search'[p].at = "idle"
BY DEF GateTypeOK, Calls, Session, Goto, NoSearch

LEMMA CounterAfter ==
  ASSUME GateTypeOK, NEW s \in Sessions, NEW n, counter' = [counter EXCEPT ![s] = n]
  PROVE  counter'[s] = n /\ \A t \in Sessions \ {s} : counter'[t] = counter[t]
BY DEF GateTypeOK

LEMMA BlocksAfter ==
  ASSUME GateTypeOK, NEW s \in Sessions, blocks' = [blocks EXCEPT ![s] = @ + 1]
  PROVE  blocks'[s] = blocks[s] + 1 /\ \A t \in Sessions \ {s} : blocks'[t] = blocks[t]
BY DEF GateTypeOK

\* A step that counts nothing, and finds the count below the budget where the
\* call goes on towards being turned away.
LEMMA CountSame ==
  ASSUME GateTypeOK, OneAtATime, CounterTrue, NEW p \in Searches, Steps(p), UNCHANGED <<counter, blocks, lost>>,
         search[p].at # "write", search'[p].at \notin {"write", "idle"} => search'[p].of = Session(p),
         search'[p].at # "write",
         search'[p].at \in {"marker", "count", "truncate"} /\ InTurn(p) => gateBlocksSoFar(Session(p)) < gateBlockBudget,
         search'[p].at = "truncate" => search'[p].read = gateBlocksSoFar(Session(p))
  PROVE  CounterTrue'
<1>1. PICK s : s = Session(p)
  OBVIOUS
<1>2. search[p].at # "idle" /\ UNCHANGED parallel /\ s \in Sessions
  BY <1>1, StepStays DEF GateTypeOK
<1>3. s \notin parallel => InTurn(p) /\ CountOf(s)
  BY <1>1, <1>2 DEF InTurn, CounterTrue, CountOf
<1>4. s \notin parallel => \A q \in Searches : search[q].at = "write" => Session(q) # s
  BY <1>1, <1>2, OthersElsewhere
<1>5. s \notin parallel => gateBlocksSoFar(s) <= gateBlockBudget /\ blocks[s] <= gateBlocksSoFar(s) + Forgiven(s)
  BY <1>3, <1>4 DEF CountOf
<1>6. /\ \A t \in Sessions : counter'[t] = counter[t] /\ blocks'[t] = blocks[t] /\ Forgiven(t)' = Forgiven(t)
      /\ gateBlocksSoFar(s)' = gateBlocksSoFar(s) /\ Forgiven(s)' = Forgiven(s)
  BY <1>2 DEF gateBlocksSoFar, Forgiven
<1>7. s \notin parallel => CountOf(s)'
  BY <1>2, <1>5, <1>6 DEF CountOf
<1>8. s \notin parallel => CountBy(p)'
  <2>1. CASE search'[p].at \in {"marker", "count"}
    BY <1>1, <1>3, <1>6, <2>1 DEF CountBy, Session
  <2>2. CASE search'[p].at = "truncate"
    BY <1>1, <1>3, <1>5, <1>6, <2>2 DEF CountBy, Session
  <2> QED
    BY <2>1, <2>2 DEF CountBy
<1> QED
  BY <1>1, <1>6, <1>7, <1>8, CountElsewhere

LEMMA CountStep ==
  ASSUME GateTypeOK, OneAtATime, CounterTrue, NEW p \in Searches, Steps(p)
  PROVE  CounterTrue'
<1>1. PICK s : s = Session(p)
  OBVIOUS
<1>2. search[p].at # "idle" /\ UNCHANGED parallel /\ s \in Sessions
  BY <1>1, StepStays DEF GateTypeOK
<1>3. /\ gateBlocksSoFar(s) \in Nat /\ blocks[s] \in Nat /\ Forgiven(s) \in Nat /\ gateBlockBudget \in Nat \ {0}
      /\ search[p].read \in Nat
  BY <1>2, BudgetReadTyped, ForgivenIs, GateAssumption DEF GateTypeOK, Calls
<1>4. s \notin parallel => CountOf(s) /\ CountBy(p) /\ InTurn(p)
  BY <1>1, <1>2 DEF CounterTrue, CountOf, CountBy, InTurn
<1>5. s \notin parallel => gateBlocksSoFar(s) <= gateBlockBudget
  BY <1>4 DEF CountOf
<1>6. s \notin parallel /\ search[p].at \in {"truncate", "write"} =>
        search[p].read < gateBlockBudget /\ blocks[s] <= search[p].read + Forgiven(s)
  BY <1>1, <1>4 DEF CountBy
<1>7. s \notin parallel /\ search[p].at # "write" => blocks[s] <= gateBlocksSoFar(s) + Forgiven(s)
  <2>1. s \notin parallel /\ search[p].at # "write" => \A q \in Searches : search[q].at = "write" => Session(q) # s
    BY <1>1, <1>2, OthersElsewhere
  <2> QED
    BY <1>4, <2>1 DEF CountOf
<1>8. s \notin parallel /\ search[p].at \in {"marker", "count"} => gateBlocksSoFar(s) < gateBlockBudget
  BY <1>1, <1>4 DEF CountBy
<1>9. CASE CheckBudget(p)
  <2>1. /\ UNCHANGED <<counter, blocks, lost>> /\ search[p].at = "budget"
        /\ Goto(p, IF gateBlocksSoFar(s) >= gateBlockBudget THEN "signal" ELSE "marker")
    BY <1>1, <1>9 DEF CheckBudget
  <2>2. /\ search'[p].at \in {"signal", "marker"} /\ search'[p].of = s
        /\ search'[p].at = "marker" => gateBlocksSoFar(s) < gateBlockBudget
    BY <1>1, <1>2, <1>3, <2>1, CallAfter
  <2> QED
    BY <1>1, <2>1, <2>2, CountSame
<1>10. CASE CheckMarker(p)
  <2>1. /\ UNCHANGED <<counter, blocks, lost>> /\ search[p].at = "marker"
        /\ Goto(p, IF marker[s] THEN "signal" ELSE "count")
    BY <1>1, <1>10 DEF CheckMarker
  <2>2. search'[p].at \in {"signal", "count"} /\ search'[p].of = s
    BY <1>1, <1>2, <2>1, CallAfter
  <2> QED
    BY <1>1, <1>8, <2>1, <2>2, CountSame DEF InTurn
<1>11. CASE ReadCount(p)
  <2>1. /\ UNCHANGED <<counter, blocks, lost>> /\ search[p].at = "count"
        /\ search' = [search EXCEPT ![p].at = "truncate", ![p].read = gateBlocksSoFar(s)]
    BY <1>1, <1>11 DEF ReadCount
  <2>2. search'[p].at = "truncate" /\ search'[p].of = s /\ search'[p].read = gateBlocksSoFar(s)
    BY <1>1, <2>1 DEF GateTypeOK, Calls, Session
  <2> QED
    BY <1>1, <1>8, <2>1, <2>2, CountSame DEF InTurn
<1>12. CASE Signal(p)
  <2>1. UNCHANGED <<counter, blocks, lost>> /\ search[p].at = "signal" /\ Goto(p, "searching")
    BY <1>12 DEF Signal
  <2>2. search'[p].at = "searching" /\ search'[p].of = s
    BY <1>1, <1>2, <2>1, CallAfter
  <2> QED
    BY <1>1, <2>1, <2>2, CountSame
<1>13. CASE PostSearch(p)
  <2>1. UNCHANGED <<counter, blocks, lost>> /\ search[p].at \in {"searching", "nudge"}
    BY <1>13 DEF PostSearch, CheckNudged, Nudge
  <2>2. search' = [search EXCEPT ![p] = NoSearch] \/ Goto(p, "nudge")
    BY <1>13 DEF PostSearch, CheckNudged, Nudge, Goto
  <2>3. search'[p].at = "idle" \/ (search'[p].at = "nudge" /\ search'[p].of = s)
    BY <1>1, <1>2, <2>2, CallAfter
  <2> QED
    BY <1>1, <2>1, <2>3, CountSame
<1>14. CASE TruncateCount(p)
  <2>1. /\ UNCHANGED <<blocks, lost>> /\ search[p].at = "truncate" /\ Goto(p, "write")
        /\ counter' = [counter EXCEPT ![s] = Truncated]
    BY <1>1, <1>14 DEF TruncateCount
  <2>2. /\ search'[p].at = "write" /\ search'[p].of = s /\ search'[p].read = search[p].read
        /\ counter'[s] = Truncated /\ \A t \in Sessions \ {s} : counter'[t] = counter[t]
    <3>1. counter'[s] = Truncated /\ \A t \in Sessions \ {s} : counter'[t] = counter[t]
      BY <1>2, <2>1, CounterAfter
    <3>2. search'[p].at = "write" /\ search'[p].of = s /\ search'[p].read = search[p].read
      BY <1>1, <2>1, CallAfter
    <3> QED
      BY <3>1, <3>2
  <2>3. gateBlocksSoFar(s)' = 0
    BY <2>2 DEF gateBlocksSoFar
  <2>4. \A t \in Sessions : blocks'[t] = blocks[t] /\ Forgiven(t)' = Forgiven(t)
    BY <2>1, ForgivenIs
  <2>5. s \notin parallel => CountOf(s)'
    BY <1>3, <2>2, <2>3 DEF CountOf, Session
  <2>6. s \notin parallel => CountBy(p)'
    BY <1>2, <1>6, <2>1, <2>2, <2>4 DEF CountBy, Session
  <2> QED
    BY <1>1, <2>2, <2>4, <2>5, <2>6, CountElsewhere
<1>15. CASE WriteCount(p)
  <2>1. PICK n \in Nat : n = search[p].read
    BY <1>3
  <2>2. /\ UNCHANGED lost /\ search[p].at = "write" /\ search' = [search EXCEPT ![p] = NoSearch]
        /\ counter' = [counter EXCEPT ![s] = n + 1] /\ blocks' = [blocks EXCEPT ![s] = @ + 1]
    BY <1>1, <1>15, <2>1 DEF WriteCount
  <2>3. /\ search'[p].at = "idle" /\ counter'[s] = n + 1 /\ blocks'[s] = blocks[s] + 1
        /\ \A t \in Sessions \ {s} : counter'[t] = counter[t] /\ blocks'[t] = blocks[t]
    <3>1. counter'[s] = n + 1 /\ \A t \in Sessions \ {s} : counter'[t] = counter[t]
      BY <1>2, <2>2, CounterAfter
    <3> QED
      BY <1>2, <2>2, <3>1, CallAfter, BlocksAfter
  <2>4. gateBlocksSoFar(s)' = n + 1
    BY <2>1, <2>3 DEF gateBlocksSoFar, Truncated
  <2>5. \A t \in Sessions : Forgiven(t)' = Forgiven(t)
    BY <2>2, ForgivenIs
  <2>6. s \notin parallel => n < gateBlockBudget /\ blocks[s] <= n + Forgiven(s)
    BY <1>6, <2>1, <2>2
  <2>7. s \notin parallel => CountOf(s)'
    BY <1>2, <1>3, <2>3, <2>4, <2>5, <2>6 DEF CountOf
  <2>8. CountBy(p)'
    BY <2>3 DEF CountBy
  <2> QED
    BY <1>1, <2>3, <2>5, <2>7, <2>8, CountElsewhere
<1>16. CASE CountLost(p)
  <2>1. PICK n \in Nat : n = search[p].read
    BY <1>3
  <2>2. /\ UNCHANGED counter /\ search[p].at \in {"truncate", "write"} /\ search' = [search EXCEPT ![p] = NoSearch]
        /\ Loses(s) /\ blocks' = [blocks EXCEPT ![s] = @ + 1]
    BY <1>1, <1>16 DEF CountLost
  <2>3. /\ search'[p].at = "idle" /\ blocks'[s] = blocks[s] + 1
        /\ \A t \in Sessions \ {s} : blocks'[t] = blocks[t]
    BY <1>2, <2>2, CallAfter, BlocksAfter
  <2>4. gateBlocksSoFar(s)' = gateBlocksSoFar(s)
    BY <2>2 DEF gateBlocksSoFar
  <2>5. Forgiven(s)' = Forgiven(s) + gateBlockBudget /\ \A t \in Sessions \ {s} : Forgiven(t)' = Forgiven(t)
    BY <1>2, <2>2, ForgivenIs
  <2>6. s \notin parallel => n < gateBlockBudget /\ blocks[s] <= n + Forgiven(s)
    BY <1>6, <2>1, <2>2
  <2>7. s \notin parallel => blocks[s] + 1 <= gateBlocksSoFar(s) + (Forgiven(s) + gateBlockBudget)
    BY <1>3, <2>6
  <2>8. s \notin parallel => CountOf(s)'
    BY <1>5, <2>3, <2>4, <2>5, <2>7 DEF CountOf
  <2>9. CountBy(p)'
    BY <2>3 DEF CountBy
  <2> QED
    BY <1>1, <2>2, <2>3, <2>5, <2>8, <2>9, CountElsewhere
<1>17. CASE NudgeLost(p)
  <2>1. /\ UNCHANGED <<counter, blocks>> /\ search[p].at = "nudge" /\ search' = [search EXCEPT ![p] = NoSearch]
        /\ Loses(s)
    BY <1>1, <1>17 DEF NudgeLost
  <2>2. search'[p].at = "idle"
    BY <1>1, <1>2, <2>1, CallAfter
  <2>3. gateBlocksSoFar(s)' = gateBlocksSoFar(s)
    BY <2>1 DEF gateBlocksSoFar
  <2>4. Forgiven(s)' = Forgiven(s) + gateBlockBudget /\ \A t \in Sessions \ {s} : Forgiven(t)' = Forgiven(t)
    BY <1>2, <2>1, ForgivenIs
  <2>5. s \notin parallel => blocks[s] <= gateBlocksSoFar(s) + (Forgiven(s) + gateBlockBudget)
    BY <1>3, <1>7, <2>1
  <2>6. s \notin parallel => CountOf(s)'
    BY <1>5, <2>1, <2>3, <2>4, <2>5 DEF CountOf
  <2>7. CountBy(p)'
    BY <2>2 DEF CountBy
  <2> QED
    BY <1>1, <2>1, <2>4, <2>6, <2>7, CountElsewhere
<1> QED
  BY <1>9, <1>10, <1>11, <1>12, <1>13, <1>14, <1>15, <1>16, <1>17 DEF Steps, PreSearch

LEMMA CounterTrueKept ==
  ASSUME GateTypeOK, OneAtATime, CounterTrue, [Next]_vars PROVE CounterTrue'
<1>1. ASSUME NEW s \in Sessions, NEW p \in Searches, Search(p, s)
      PROVE  CounterTrue'
  BY <1>1 DEF Search, CounterTrue, InTurn, gateBlocksSoFar, Forgiven, GateTypeOK, Calls, Session
<1>2. ASSUME NEW p \in Searches, Steps(p)
      PROVE  CounterTrue'
  BY <1>2, CountStep
<1>3. ASSUME NEW s \in Sessions, PostFindLost(s)
      PROVE  CounterTrue'
  <2>1. UNCHANGED <<parallel, counter, search, blocks>> /\ Loses(s)
    BY <1>3 DEF PostFindLost
  <2>2. \A t \in Sessions : Forgiven(t) \in Nat /\ Forgiven(t)' \in Nat /\ Forgiven(t) <= Forgiven(t)'
    BY <2>1, ForgivenIs, GateAssumption
  <2>3. \A t \in Sessions : /\ gateBlocksSoFar(t)' = gateBlocksSoFar(t) /\ blocks'[t] = blocks[t]
                            /\ gateBlocksSoFar(t) \in Nat /\ blocks[t] \in Nat
    BY <2>1, BudgetReadTyped DEF gateBlocksSoFar
  <2>4. \A q \in Searches : search[q].at # "idle" => search[q].read \in Nat /\ Session(q) \in Sessions
    BY DEF GateTypeOK, Calls
  <2>5. ASSUME NEW t \in Sessions \ parallel PROVE CountOf(t)'
    BY <2>1, <2>2, <2>3 DEF CountOf, CounterTrue, Session
  <2>6. ASSUME NEW q \in Searches PROVE CountBy(q)'
    <3>1. PICK t : t = Session(q)
      OBVIOUS
    <3> QED
      BY <2>1, <2>2, <2>3, <2>4, <3>1 DEF CountBy, CounterTrue, InTurn, Session
  <2> QED
    BY <2>1, <2>5, <2>6 DEF CounterTrue, CountOf, CountBy
<1>4. CASE UNCHANGED <<parallel, counter, blocks, search, lost>>
  BY <1>4 DEF CounterTrue, InTurn, gateBlocksSoFar, Forgiven, Session
<1> QED
  BY <1>1, <1>2, <1>3, <1>4 DEF Next, Steps, FindContext, PostFind, vars

\* The same for the suggestion: nobody makes it between the look and the note.
LEMMA NudgeLeftKept ==
  ASSUME GateTypeOK, OneAtATime, NudgeLeft, [Next]_vars
  PROVE  NudgeLeft'
<1> USE DEF GateTypeOK, Calls, NudgeLeft, Session, Goto, NoSearch
<1>1. ASSUME NEW s \in Sessions, NEW p \in Searches, Search(p, s)
      PROVE  NudgeLeft'
  BY <1>1 DEF Search, InTurn
<1>2. ASSUME NEW p \in Searches, PreSearch(p) \/ CountLost(p)
      PROVE  NudgeLeft'
  <2>1. UNCHANGED <<parallel, nudged, nudges>> /\ Alone(p)
    BY <1>2, SearchStepTyped DEF PreSearch, CheckBudget, CheckMarker, ReadCount, TruncateCount,
                                 WriteCount, Signal, CountLost
  <2>2. search'[p].at # "nudge" /\ \A s \in Sessions : lost'[s] \in Nat /\ lost'[s] >= lost[s]
    BY <1>2 DEF PreSearch, CheckBudget, CheckMarker, ReadCount, TruncateCount, WriteCount, Signal, CountLost, Loses
  <2> QED
    BY <2>1, <2>2 DEF Alone, InTurn
<1>3. ASSUME NEW p \in Searches, CheckNudged(p)
      PROVE  NudgeLeft'
  BY <1>3 DEF CheckNudged, InTurn
<1>4. ASSUME NEW p \in Searches, Nudge(p)
      PROVE  NudgeLeft'
  <2>1. Session(p) \notin parallel => \A q \in Searches \ {p} : search[q].at # "idle" => Session(q) # Session(p)
    BY <1>4, OthersElsewhere DEF Nudge
  <2> QED
    BY <1>4, <2>1 DEF Nudge, InTurn
<1>5. ASSUME NEW p \in Searches, NudgeLost(p)
      PROVE  NudgeLeft'
  BY <1>5 DEF NudgeLost, InTurn, Loses
<1>6. ASSUME NEW s \in Sessions, PostFindLost(s)
      PROVE  NudgeLeft'
  BY <1>6 DEF PostFindLost, InTurn, Loses
<1>7. CASE UNCHANGED <<parallel, nudged, nudges, search, lost>>
  BY <1>7 DEF InTurn
<1> QED
  BY <1>1, <1>2, <1>3, <1>4, <1>5, <1>6, <1>7 DEF Next, FindContext, PostFind, PostSearch, vars

\* With one tool call of a session at a time, what a call read of the session's
\* files is still in them when it writes.
THEOREM TurnsKept == Spec => []Turns
<1>1. Init => Turns
  <2> SUFFICES ASSUME Init PROVE Turns
    OBVIOUS
  <2>1. \A s \in Sessions : gateBlocksSoFar(s) = 0 /\ blocks[s] = 0 /\ nudges[s] = 0 /\ lost[s] = 0 /\ Forgiven(s) = 0
    BY GateAssumption DEF Init, gateBlocksSoFar, Truncated, Forgiven
  <2>2. \A p \in Searches : search[p].at = "idle"
    BY DEF Init, NoSearch
  <2> QED
    BY <2>1, <2>2, GateAssumption DEF Turns, OneAtATime, CounterTrue, NudgeLeft, InTurn
<1>2. GateTypeOK /\ Turns /\ [Next]_vars => Turns'
  BY OneAtATimeKept, CounterTrueKept, NudgeLeftKept DEF Turns
<1> QED
  BY <1>1, <1>2, GateTyped, PTL DEF Spec

\* "only for a bounded number of searches" (hook.go): a session whose searches
\* come one after the other is turned away no more often than the budget says,
\* and as often again at most for each of its writes that fails.
THEOREM BudgetHolds == Spec => []BlocksWithinBudget
<1>1. GateTypeOK /\ Turns => BlocksWithinBudget
  <2> SUFFICES ASSUME GateTypeOK, Turns, NEW s \in Sessions \ parallel PROVE blocks[s] <= gateBlockBudget * (1 + lost[s])
    BY DEF BlocksWithinBudget
  <2>1. /\ gateBlocksSoFar(s) \in Nat /\ blocks[s] \in Nat /\ Forgiven(s) \in Nat /\ gateBlockBudget \in Nat
    BY BudgetReadTyped, ForgivenIs, GateAssumption
  <2>2. gateBlocksSoFar(s) <= gateBlockBudget
    BY DEF Turns, CounterTrue
  <2>3. blocks[s] <= gateBlockBudget + Forgiven(s)
    <3>1. CASE \E p \in Searches : search[p].at = "write" /\ Session(p) = s
      <4>1. PICK p \in Searches : search[p].at = "write" /\ Session(p) = s
        BY <3>1
      <4>2. search[p].read \in Nat /\ search[p].read < gateBlockBudget /\ blocks[s] <= search[p].read + Forgiven(s)
        BY <4>1 DEF Turns, CounterTrue, InTurn, GateTypeOK, Calls
      <4> QED
        BY <2>1, <4>2
    <3>2. CASE ~(\E p \in Searches : search[p].at = "write" /\ Session(p) = s)
      <4>1. blocks[s] <= gateBlocksSoFar(s) + Forgiven(s)
        BY <3>2 DEF Turns, CounterTrue
      <4> QED
        BY <2>1, <2>2, <4>1
    <3> QED
      BY <3>1, <3>2
  <2>4. gateBlockBudget * (1 + lost[s]) = gateBlockBudget + Forgiven(s)
    <3>1. PICK n \in Nat : n = lost[s]
      BY DEF GateTypeOK
    <3>2. gateBlockBudget * (1 + n) = gateBlockBudget + gateBlockBudget * n
      BY <2>1
    <3> QED
      BY <3>1, <3>2 DEF Forgiven
  <2> QED
    BY <2>3, <2>4
<1> QED
  BY <1>1, GateTyped, TurnsKept, PTL

\* "Fires once per session" (hook.go): neither is find_context suggested to it
\* again, but for a note that could not be written.
THEOREM SuggestedOnce == Spec => []NudgedOnce
<1>1. Turns => NudgedOnce
  BY DEF Turns, NudgeLeft, NudgedOnce
<1> QED
  BY <1>1, TurnsKept, PTL
=============================================================================
