--------------------------- MODULE ExpansionProofs ---------------------------
(***************************************************************************)
(* Theorems about module Expansion, for any agents, symbols, page size and *)
(* limit of cursors: the map of the cursors and their order agree within   *)
(* the limit (CursorsBounded), and, as long as no pass runs between the    *)
(* two reads of an expansion, nobody reads the body of one symbol under    *)
(* the name of another (NameKept), and the pages an agent is given are     *)
(* together the body, each character whole (PagesJoin).                    *)
(*                                                                         *)
(* For the first, a cursor that is handed out has to be one the server     *)
(* does not keep, which is a matter of counting (FreshExists); for the     *)
(* second, what a cursor stands for has to keep the name its agent asked   *)
(* for, which needs that no two agents that read on hold one cursor.  For  *)
(* the third, a page ends where no character is cut if it begins so        *)
(* (PageCut), and a cursor stands for what its agent has not read.         *)
(***************************************************************************)
EXTENDS Expansion, Integers, FiniteSetTheorems, SequenceTheorems, WellFoundedInduction, TLAPS

Fields == {"at", "target", "owner", "got", "cursor"}
Rest == {"owner", "body", "offset"}

\* What a call and a cursor consist of.
Shapes ==
  /\ DOMAIN call = Agents
  /\ \A a \in Agents : DOMAIN call[a] = Fields
  /\ \A c \in DOMAIN continuations : DOMAIN continuations[c] = Rest

\* The order lists each cursor the server keeps, once.
Ordered ==
  /\ order \in Seq(Cursors) /\ Len(order) <= CursorLimit
  /\ \A i, j \in 1 .. Len(order) : order[i] = order[j] => i = j
  /\ DOMAIN continuations = {order[i] : i \in 1 .. Len(order)}

\* Agents that read on have cursors of their own.
OwnCursors ==
  \A a, b \in Agents :
    call[a].at = "more" /\ call[b].at = "more" /\ call[a].cursor = call[b].cursor => a = b

\* The name is kept from the check to the cursor.
Named ==
  \A a \in Agents :
    /\ call[a].at = "hydrate" => indexed # Missing /\ indexed.name = call[a].target.name
    /\ Reading(a) => call[a].owner.name = call[a].target.name
    /\ call[a].at = "more" /\ call[a].cursor \in DOMAIN continuations =>
         continuations[call[a].cursor].owner.name = call[a].target.name

CursorInv == Shapes /\ Ordered /\ OwnCursors

\* Where the page from this state ends, and the state of the rest behind it.
PageEnd(state) == expansionPageEnd(state.body, state.offset)
RestOf(state) == [state EXCEPT !.offset = PageEnd(state)]

-----------------------------------------------------------------------------
(* Counting.                                                               *)

\* The order is a bijection between its places and the cursors.
LEMMA KeptCounted ==
  ASSUME Ordered
  PROVE  IsFiniteSet(DOMAIN continuations) /\ Cardinality(DOMAIN continuations) = Len(order)
<1> DEFINE kept == DOMAIN continuations
           place == [i \in 1 .. Len(order) |-> order[i]]
<1>1. Len(order) \in Nat
  BY DEF Ordered
<1>2. place \in Bijection(1 .. Len(order), kept)
  BY DEF Ordered, Bijection, Injection, Surjection, IsInjective
<1>3. ExistsBijection(1 .. Len(order), kept)
  BY <1>2 DEF ExistsBijection
<1>. QED
  BY <1>1, <1>3, FS_CountingElements, FS_NatBijection

\* What the server keeps and what the agents hold are fewer than the cursors
\* there are, so one that is neither is left.
LEMMA FreshExists ==
  ASSUME Ordered
  PROVE  FreshCursor \in Cursors /\ FreshCursor \notin DOMAIN continuations /\ FreshCursor \notin Held
<1> DEFINE kept == DOMAIN continuations
           held == [a \in Agents |-> call[a].cursor]
           used == kept \cup Held
<1>1. IsFiniteSet(Agents) /\ Cardinality(Agents) \in Nat
  BY AgentAssumption, FS_CardinalityType
<1>2. IsFiniteSet(kept) /\ Cardinality(kept) \in Nat /\ Cardinality(kept) <= CursorLimit
  BY KeptCounted DEF Ordered
<1>3. held \in Surjection(Agents, Held)
  BY DEF Surjection, Held
<1>4. IsFiniteSet(Held) /\ Cardinality(Held) \in Nat /\ Cardinality(Held) <= Cardinality(Agents)
  BY <1>1, <1>3, FS_Surjection, FS_CardinalityType
<1>5. IsFiniteSet(kept \cap Held) /\ Cardinality(kept \cap Held) \in Nat
  BY <1>2, FS_Subset, FS_CardinalityType
<1>6. IsFiniteSet(used) /\ Cardinality(used) <= CursorLimit + Cardinality(Agents)
  <2>1. IsFiniteSet(used) /\ Cardinality(used) = Cardinality(kept) + Cardinality(Held) - Cardinality(kept \cap Held)
    BY <1>2, <1>4, FS_Union
  <2>. QED
    BY <2>1, <1>1, <1>2, <1>4, <1>5, PageAssumption
<1>7. Cardinality(Cursors) = CursorLimit + Cardinality(Agents) + 1
  <2>1. 1 \in Int /\ CursorLimit + Cardinality(Agents) + 1 \in Int /\ CursorLimit \in Nat
    BY <1>1, PageAssumption
  <2>. QED
    BY <2>1, <1>1, FS_Interval DEF Cursors
<1>8. \E c \in Cursors : c \notin used
  <2> SUFFICES ASSUME Cursors \subseteq used PROVE FALSE
    OBVIOUS
  <2>1. Cardinality(Cursors) <= Cardinality(used)
    BY <1>6, FS_Subset
  <2>2. Cardinality(used) \in Nat
    BY <1>6, FS_CardinalityType
  <2>. QED
    BY <2>1, <2>2, <1>1, <1>6, <1>7, PageAssumption
<1>. QED
  BY <1>8 DEF FreshCursor

-----------------------------------------------------------------------------
(* Handing out a page.                                                     *)

\* The new cursor takes its place behind the others, of which the oldest goes
\* when there are too many.
LEMMA CachedOrdered ==
  ASSUME Ordered, NEW c \in Cursors, c \notin DOMAIN continuations, NEW state,
         CacheContinuation(c, state)
  PROVE  /\ Ordered'
         /\ DOMAIN continuations' \subseteq DOMAIN continuations \cup {c}
         /\ \A k \in DOMAIN continuations' : continuations'[k] = IF k = c THEN state ELSE continuations[k]
<1>1. Len(order) \in Nat /\ CursorLimit \in Nat /\ CursorLimit > 0
  BY PageAssumption DEF Ordered
<1>2. /\ order' \in Seq(Cursors) /\ Len(order') <= CursorLimit
      /\ \A i \in 1 .. Len(order') : order'[i] = c \/ order'[i] \in DOMAIN continuations
      /\ \A i, j \in 1 .. Len(order') : order'[i] = order'[j] => i = j
  <2>1. CASE Len(order) < CursorLimit
    <3>1. order' = Append(order, c)
      BY <2>1 DEF CacheContinuation
    <3>2. /\ order' \in Seq(Cursors) /\ Len(order') = Len(order) + 1
          /\ \A i \in 1 .. Len(order) : order'[i] = order[i]
          /\ order'[Len(order) + 1] = c
      BY <3>1 DEF Ordered
    <3>3. \A i \in 1 .. Len(order) : order[i] \in DOMAIN continuations /\ order[i] # c
      BY DEF Ordered
    <3>4. \A i \in 1 .. Len(order') : i \in 1 .. Len(order) \/ i = Len(order) + 1
      BY <3>2, <1>1
    <3>5. ASSUME NEW i \in 1 .. Len(order') PROVE order'[i] = c \/ order'[i] \in DOMAIN continuations
      <4>1. CASE i = Len(order) + 1
        BY <4>1, <3>2
      <4>2. CASE i \in 1 .. Len(order)
        <5>1. order'[i] = order[i]
          BY <4>2, <3>2
        <5>. QED
          BY <5>1, <4>2, <3>3
      <4>. QED
        BY <4>1, <4>2, <3>4
    <3>6. \A i, j \in 1 .. Len(order') : order'[i] = order'[j] => i = j
      BY <3>2, <3>3, <3>4 DEF Ordered
    <3>. QED
      BY <3>2, <3>5, <3>6, <2>1, <1>1
  <2>2. CASE ~(Len(order) < CursorLimit)
    <3>1. order' = Append(Tail(order), c)
      BY <2>2 DEF CacheContinuation
    <3>2. Len(order) > 0 /\ order # <<>>
      BY <2>2, <1>1
    <3>3. Tail(order) \in Seq(Cursors) /\ Len(Tail(order)) = Len(order) - 1
          /\ \A i \in 1 .. Len(order) - 1 : Tail(order)[i] = order[i + 1]
      BY <3>2 DEF Ordered
    <3>4. /\ order' \in Seq(Cursors) /\ Len(order') = Len(order)
          /\ \A i \in 1 .. Len(order) - 1 : order'[i] = order[i + 1]
          /\ order'[Len(order)] = c
      BY <3>1, <3>3, <1>1, <3>2
    <3>5. \A i \in 1 .. Len(order) : order[i] \in DOMAIN continuations /\ order[i] # c
      BY DEF Ordered
    <3>6. \A i \in 1 .. Len(order') : (i \in 1 .. Len(order) - 1 /\ i + 1 \in 1 .. Len(order)) \/ i = Len(order)
      BY <3>4, <1>1
    <3>7. ASSUME NEW i \in 1 .. Len(order') PROVE order'[i] = c \/ order'[i] \in DOMAIN continuations
      <4>1. CASE i = Len(order)
        BY <4>1, <3>4
      <4>2. CASE i \in 1 .. Len(order) - 1 /\ i + 1 \in 1 .. Len(order)
        <5>1. order'[i] = order[i + 1]
          BY <4>2, <3>4
        <5>. QED
          BY <5>1, <4>2, <3>5
      <4>. QED
        BY <4>1, <4>2, <3>6
    <3>8. \A i, j \in 1 .. Len(order') : order'[i] = order'[j] => i = j
      <4> SUFFICES ASSUME NEW i \in 1 .. Len(order'), NEW j \in 1 .. Len(order'), order'[i] = order'[j]
                   PROVE  i = j
        OBVIOUS
      <4>1. CASE i = Len(order) \/ j = Len(order)
        BY <4>1, <3>4, <3>5, <3>6
      <4>2. CASE i # Len(order) /\ j # Len(order)
        <5>1. i + 1 \in 1 .. Len(order) /\ j + 1 \in 1 .. Len(order) /\ order[i + 1] = order[j + 1]
          BY <4>2, <3>4, <3>6
        <5>2. i + 1 = j + 1
          BY <5>1 DEF Ordered
        <5>. QED
          BY <5>2
      <4>. QED
        BY <4>1, <4>2
    <3>. QED
      BY <3>4, <3>7, <3>8, <2>2, <1>1 DEF Ordered
  <2>. QED
    BY <2>1, <2>2
<1>3. continuations' = [k \in (DOMAIN continuations \cup {c}) \cap {order'[i] : i \in DOMAIN order'} |->
                          IF k = c THEN state ELSE continuations[k]]
  BY DEF CacheContinuation, Restricted
<1>4. DOMAIN order' = 1 .. Len(order')
  BY <1>2
<1>5. DOMAIN continuations' = {order'[i] : i \in 1 .. Len(order')}
  BY <1>2, <1>3, <1>4
<1>. QED
  BY <1>2, <1>3, <1>5 DEF Ordered

\* Effect of a page on the server and on the agents: only a moves, and its
\* cursor is nobody else's and stands for the rest.
Paged(a, state) ==
  /\ CursorInv'
  /\ \A b \in Agents \ {a} : call'[b] = call[b]
  /\ call'[a].at \in {"more", "complete"}
  /\ call'[a].owner = state.owner /\ call'[a].target = call[a].target
  /\ call'[a].got = call[a].got \o Slice(state.body, state.offset, PageEnd(state))
  /\ call'[a].at = "complete" => PageEnd(state) = Len(state.body)
  /\ call'[a].at = "more" => \A b \in Agents : call'[a].cursor # call[b].cursor
  /\ \A k \in DOMAIN continuations' :
       IF call'[a].at = "more" /\ k = call'[a].cursor THEN continuations'[k] = RestOf(state)
       ELSE k \in DOMAIN continuations /\ continuations'[k] = continuations[k]

\* PageFromState is such a step.
LEMMA PageKeeps ==
  ASSUME CursorInv, NEW a \in Agents, NEW state, DOMAIN state = Rest,
         PageFromState(a, state)
  PROVE  Paged(a, state)
<1> DEFINE end == PageEnd(state)
           text == call[a].got \o Slice(state.body, state.offset, end)
           c == FreshCursor
           left == RestOf(state)
<1>1. DOMAIN call = Agents /\ DOMAIN call[a] = Fields
  BY DEF CursorInv, Shapes
<1> HIDE DEF end, text, c, left
<1>2. CASE /\ call' = [call EXCEPT ![a].at = "complete", ![a].got = text, ![a].owner = state.owner,
                                   ![a].cursor = NoCursor]
           /\ UNCHANGED <<continuations, order>> /\ end = Len(state.body)
  <2>1. /\ DOMAIN call' = Agents /\ DOMAIN call'[a] = Fields
        /\ \A b \in Agents \ {a} : call'[b] = call[b]
        /\ call'[a].at = "complete" /\ call'[a].owner = state.owner /\ call'[a].target = call[a].target
        /\ call'[a].got = text
    BY <1>1, <1>2 DEF Fields
  <2>2. Shapes' /\ Ordered'
    BY <1>2, <2>1 DEF CursorInv, Shapes, Ordered
  <2>3. OwnCursors'
    BY <2>1 DEF CursorInv, OwnCursors
  <2>. QED
    BY <1>2, <2>1, <2>2, <2>3 DEF CursorInv, Paged, text, end
<1>3. CASE /\ CacheContinuation(c, left)
           /\ call' = [call EXCEPT ![a].at = "more", ![a].got = text, ![a].owner = state.owner,
                                   ![a].cursor = c]
  <2>1. /\ DOMAIN call' = Agents /\ DOMAIN call'[a] = Fields
        /\ \A b \in Agents \ {a} : call'[b] = call[b]
        /\ call'[a].at = "more" /\ call'[a].owner = state.owner /\ call'[a].target = call[a].target
        /\ call'[a].cursor = c /\ call'[a].got = text
    BY <1>1, <1>3 DEF Fields
  <2>2. c \in Cursors /\ c \notin DOMAIN continuations /\ \A b \in Agents : call[b].cursor # c
    BY FreshExists DEF CursorInv, Held, c
  <2>3. /\ Ordered' /\ DOMAIN continuations' \subseteq DOMAIN continuations \cup {c}
        /\ \A k \in DOMAIN continuations' : continuations'[k] = IF k = c THEN left ELSE continuations[k]
    BY <1>3, <2>2, CachedOrdered DEF CursorInv
  <2>4. DOMAIN left = Rest
    BY DEF Rest, RestOf, left
  <2>5. Shapes'
    BY <2>1, <2>3, <2>4 DEF CursorInv, Shapes
  <2>6. OwnCursors'
    BY <2>1, <2>2 DEF CursorInv, OwnCursors
  <2>. QED
    BY <2>1, <2>2, <2>3, <2>4, <2>5, <2>6 DEF CursorInv, Paged, left, text, end
<1>. QED
  BY <1>2, <1>3 DEF PageFromState, PageEnd, RestOf, end, text, c, left

-----------------------------------------------------------------------------
(* The cursors.                                                            *)

LEMMA InitCursors == Init => CursorInv
<1> SUFFICES ASSUME Init PROVE CursorInv
  OBVIOUS
<1>1. order = <<>> /\ DOMAIN continuations = {} /\ call = [a \in Agents |-> NoCall]
  BY DEF Init
<1>2. Shapes
  BY <1>1 DEF Shapes, NoCall, Fields
<1>3. Ordered
  BY <1>1, PageAssumption DEF Ordered
<1>4. OwnCursors
  BY <1>1 DEF OwnCursors, NoCall
<1>. QED
  BY <1>2, <1>3, <1>4 DEF CursorInv

\* A step that leaves the cursors alone and lets nobody read on who did not.
LEMMA CallMoves ==
  ASSUME CursorInv, NEW a \in Agents, UNCHANGED <<continuations, order>>,
         DOMAIN call' = Agents, DOMAIN call'[a] = Fields,
         \A b \in Agents \ {a} : call'[b] = call[b],
         call'[a].at # "more"
  PROVE  CursorInv'
<1>1. Shapes' /\ Ordered'
  BY DEF CursorInv, Shapes, Ordered
<1>2. OwnCursors'
  BY DEF CursorInv, OwnCursors
<1>. QED
  BY <1>1, <1>2 DEF CursorInv

\* What an agent does, the page it is given apart.
Moves(a, place) ==
  /\ call' = [call EXCEPT ![a].at = place]
  /\ UNCHANGED <<continuations, order>>

LEMMA MovesKeep ==
  ASSUME CursorInv, NEW a \in Agents, NEW place, place # "more", Moves(a, place)
  PROVE  /\ CursorInv' /\ DOMAIN call' = Agents /\ call'[a].at = place
         /\ call'[a].target = call[a].target /\ call'[a].owner = call[a].owner
         /\ call'[a].got = call[a].got
         /\ \A b \in Agents \ {a} : call'[b] = call[b]
<1>1. DOMAIN call = Agents /\ DOMAIN call[a] = Fields
  BY DEF CursorInv, Shapes
<1>2. /\ DOMAIN call' = Agents /\ DOMAIN call'[a] = Fields /\ call'[a].at = place
      /\ call'[a].target = call[a].target /\ call'[a].owner = call[a].owner
      /\ call'[a].got = call[a].got
      /\ \A b \in Agents \ {a} : call'[b] = call[b]
  BY <1>1 DEF Moves, Fields
<1>3. CursorInv'
  BY <1>2, CallMoves DEF Moves
<1>. QED
  BY <1>2, <1>3

\* The state of a cursor, and the one an expansion begins with.
LEMMA StatesComplete ==
  ASSUME CursorInv
  PROVE  /\ DOMAIN [owner |-> indexed, body |-> indexed.body, offset |-> 0] = Rest
         /\ \A c \in DOMAIN continuations : DOMAIN continuations[c] = Rest
BY DEF CursorInv, Shapes, Rest

LEMMA AgentCursors ==
  ASSUME CursorInv, NEW a \in Agents, Call(a)
  PROVE  CursorInv'
<1>1. DOMAIN call = Agents /\ DOMAIN call[a] = Fields
  BY DEF CursorInv, Shapes
<1>2. ASSUME NEW r \in Requests, ExpandContext(a, r) PROVE CursorInv'
  <2>1. /\ DOMAIN call' = Agents /\ DOMAIN call'[a] = Fields /\ call'[a].at = "check"
        /\ \A b \in Agents \ {a} : call'[b] = call[b]
    BY <1>1, <1>2 DEF ExpandContext, Fields
  <2>. QED
    BY <1>2, <2>1, CallMoves DEF ExpandContext
<1>3. CASE CheckIdentity(a)
  <2>1. \E place \in {"hydrate", "refused"} : Moves(a, place)
    BY <1>3 DEF CheckIdentity, Moves
  <2>. QED
    BY <2>1, MovesKeep
<1>4. CASE Hydrate(a)
  <2>1. CASE Moves(a, "refused")
    BY <2>1, MovesKeep
  <2>2. CASE PageFromState(a, [owner |-> indexed, body |-> indexed.body, offset |-> 0])
    BY <2>2, StatesComplete, PageKeeps DEF Paged
  <2>. QED
    BY <1>4, <2>1, <2>2 DEF Hydrate, Moves
<1>5. CASE ContinueContext(a)
  <2>1. CASE Moves(a, "refused")
    BY <2>1, MovesKeep
  <2>2. CASE call[a].cursor \in DOMAIN continuations /\ PageFromState(a, continuations[call[a].cursor])
    BY <2>2, StatesComplete, PageKeeps DEF Paged
  <2>. QED
    BY <1>5, <2>1, <2>2 DEF ContinueContext, Moves
<1>6. CASE Leave(a)
  <2>1. /\ DOMAIN call' = Agents /\ call'[a] = NoCall
        /\ \A b \in Agents \ {a} : call'[b] = call[b]
    BY <1>1, <1>6 DEF Leave
  <2>2. DOMAIN call'[a] = Fields /\ call'[a].at # "more"
    BY <2>1 DEF NoCall, Fields
  <2>. QED
    BY <1>6, <2>1, <2>2, CallMoves DEF Leave
<1>. QED
  BY <1>2, <1>3, <1>4, <1>5, <1>6 DEF Call

LEMMA NextCursors == CursorInv /\ [Next]_vars => CursorInv'
<1> SUFFICES ASSUME CursorInv, [Next]_vars PROVE CursorInv'
  OBVIOUS
<1>1. CASE UNCHANGED <<continuations, order, call>>
  BY <1>1 DEF CursorInv, Shapes, Ordered, OwnCursors
<1>2. ASSUME NEW a \in Agents, Call(a) PROVE CursorInv'
  BY <1>2, AgentCursors
<1>. QED
  BY <1>1, <1>2 DEF Next, FindContext, Reindex, vars

\* The cursors the server keeps are those in order, each once, and never more
\* than the limit (cacheContinuation).
THEOREM CursorsRight == Spec => []CursorsBounded
<1>1. Init => CursorInv
  BY InitCursors
<1>2. CursorInv /\ [Next]_vars => CursorInv'
  BY NextCursors
<1>3. CursorInv => CursorsBounded
  <2> SUFFICES ASSUME CursorInv PROVE CursorsBounded
    OBVIOUS
  <2>1. Ordered /\ DOMAIN order = 1 .. Len(order)
    BY DEF CursorInv, Ordered
  <2>. QED
    BY <2>1, KeptCounted DEF Ordered, CursorsBounded
<1>. QED
  BY <1>1, <1>2, <1>3, PTL DEF Spec

-----------------------------------------------------------------------------
(* The names.                                                              *)

NameInv == CursorInv /\ Named

LEMMA InitNamed == Init => NameInv
<1>1. Init => Named
  BY DEF Init, Named, NoCall, Reading
<1>. QED
  BY <1>1, InitCursors DEF NameInv

\* A page of a body of the right name leaves every name right.
LEMMA PageNamed ==
  ASSUME NameInv, NEW a \in Agents, NEW state, DOMAIN state = Rest,
         PageFromState(a, state), state.owner.name = call[a].target.name, indexed' = indexed
  PROVE  NameInv'
<1>1. /\ CursorInv'
      /\ \A b \in Agents \ {a} : call'[b] = call[b]
      /\ call'[a].at \in {"more", "complete"}
      /\ call'[a].owner = state.owner /\ call'[a].target = call[a].target
      /\ call'[a].at = "more" => \A b \in Agents : call'[a].cursor # call[b].cursor
      /\ \A k \in DOMAIN continuations' :
           IF call'[a].at = "more" /\ k = call'[a].cursor THEN continuations'[k].owner = state.owner
           ELSE k \in DOMAIN continuations /\ continuations'[k] = continuations[k]
  <2>1. RestOf(state).owner = state.owner
    BY DEF RestOf, Rest
  <2>2. Paged(a, state)
    BY PageKeeps DEF NameInv
  <2>. QED
    BY <2>1, <2>2 DEF Paged
<1>2. Named'
  <2> SUFFICES ASSUME NEW b \in Agents
               PROVE  /\ call'[b].at = "hydrate" => indexed' # Missing /\ indexed'.name = call'[b].target.name
                      /\ call'[b].at \in {"more", "complete"} => call'[b].owner.name = call'[b].target.name
                      /\ call'[b].at = "more" /\ call'[b].cursor \in DOMAIN continuations' =>
                           continuations'[call'[b].cursor].owner.name = call'[b].target.name
    BY DEF Named, Reading
  <2>1. CASE b = a
    BY <1>1, <2>1
  <2>2. CASE b # a
    BY <1>1, <2>2 DEF NameInv, Named, Reading
  <2>. QED
    BY <2>1, <2>2
<1>. QED
  BY <1>1, <1>2 DEF NameInv

\* So does a step of one agent that gives it no page.
LEMMA MoveNamed ==
  ASSUME NameInv, NEW a \in Agents, CursorInv', UNCHANGED <<continuations, indexed>>,
         \A b \in Agents \ {a} : call'[b] = call[b],
         ~Reading(a)', call'[a].at = "hydrate" => indexed # Missing /\ indexed.name = call'[a].target.name
  PROVE  NameInv'
<1>1. Named'
  BY DEF NameInv, Named, Reading
<1>. QED
  BY <1>1 DEF NameInv

LEMMA AgentNamed ==
  ASSUME NameInv, NEW a \in Agents, Call(a)
  PROVE  NameInv'
<1>1. CursorInv' /\ DOMAIN call = Agents /\ DOMAIN call[a] = Fields
  BY AgentCursors DEF NameInv, CursorInv, Shapes
<1>2. ASSUME NEW r \in Requests, ExpandContext(a, r) PROVE NameInv'
  <2>1. call'[a].at = "check" /\ \A b \in Agents \ {a} : call'[b] = call[b]
    BY <1>1, <1>2 DEF ExpandContext, Fields
  <2>. QED
    BY <1>1, <1>2, <2>1, MoveNamed DEF ExpandContext, Reading
<1>3. CASE CheckIdentity(a)
  <2> DEFINE place == IF indexed # Missing /\ indexed.name = call[a].target.name THEN "hydrate" ELSE "refused"
  <2>1. Moves(a, place) /\ UNCHANGED <<continuations, indexed>>
    BY <1>3 DEF CheckIdentity, Moves
  <2>2. call'[a].at = place /\ call'[a].target = call[a].target /\ \A b \in Agents \ {a} : call'[b] = call[b]
    BY <2>1, MovesKeep DEF NameInv
  <2>. QED
    BY <1>1, <2>1, <2>2, MoveNamed DEF Reading
<1>4. CASE Hydrate(a)
  <2>1. CASE Moves(a, "refused")
    <3>1. call'[a].at = "refused" /\ \A b \in Agents \ {a} : call'[b] = call[b]
      BY <2>1, MovesKeep DEF NameInv
    <3>. QED
      BY <1>1, <1>4, <2>1, <3>1, MoveNamed DEF Reading, Moves, Hydrate
  <2>2. CASE PageFromState(a, [owner |-> indexed, body |-> indexed.body, offset |-> 0])
    <3> DEFINE state == [owner |-> indexed, body |-> indexed.body, offset |-> 0]
    <3>1. DOMAIN state = Rest /\ state.owner.name = call[a].target.name /\ indexed' = indexed
      BY <1>4, StatesComplete DEF Hydrate, NameInv, Named
    <3>. QED
      BY <2>2, <3>1, PageNamed
  <2>. QED
    BY <1>4, <2>1, <2>2 DEF Hydrate, Moves
<1>5. CASE ContinueContext(a)
  <2>1. CASE Moves(a, "refused")
    <3>1. call'[a].at = "refused" /\ \A b \in Agents \ {a} : call'[b] = call[b]
      BY <2>1, MovesKeep DEF NameInv
    <3>. QED
      BY <1>1, <1>5, <2>1, <3>1, MoveNamed DEF Reading, Moves, ContinueContext
  <2>2. CASE call[a].cursor \in DOMAIN continuations /\ PageFromState(a, continuations[call[a].cursor])
    <3>1. /\ DOMAIN continuations[call[a].cursor] = Rest /\ indexed' = indexed
          /\ continuations[call[a].cursor].owner.name = call[a].target.name
      BY <1>5, <2>2, StatesComplete DEF ContinueContext, NameInv, Named
    <3>. QED
      BY <2>2, <3>1, PageNamed
  <2>. QED
    BY <1>5, <2>1, <2>2 DEF ContinueContext, Moves
<1>6. CASE Leave(a)
  <2>1. call'[a].at = "idle" /\ \A b \in Agents \ {a} : call'[b] = call[b]
    BY <1>1, <1>6 DEF Leave, NoCall
  <2>. QED
    BY <1>1, <1>6, <2>1, MoveNamed DEF Leave, Reading
<1>. QED
  BY <1>2, <1>3, <1>4, <1>5, <1>6 DEF Call

\* A pass changes what the id stands for, while nobody is between the check
\* and the body.
LEMMA NextNamed == ~Overlap /\ NameInv /\ [Next]_vars => NameInv'
<1> SUFFICES ASSUME ~Overlap, NameInv, [Next]_vars PROVE NameInv'
  OBVIOUS
<1>1. CursorInv'
  BY NextCursors DEF NameInv
<1>2. CASE Reindex
  <2>1. Named'
    BY <1>2 DEF Reindex, NameInv, Named, Reading
  <2>. QED
    BY <1>1, <2>1 DEF NameInv
<1>3. CASE UNCHANGED <<indexed, continuations, call>>
  <2>1. Named'
    BY <1>3 DEF NameInv, Named, Reading
  <2>. QED
    BY <1>1, <2>1 DEF NameInv
<1>4. ASSUME NEW a \in Agents, Call(a) PROVE NameInv'
  BY <1>4, AgentNamed DEF NameInv
<1>. QED
  BY <1>2, <1>3, <1>4 DEF Next, FindContext, vars

\* As long as no pass runs between the two reads of an expansion, what an agent
\* reads belongs to a symbol of the name it expanded, from the first page to
\* the last, however many agents share the cursors (expand_context).
THEOREM NamesKept == ASSUME ~Overlap PROVE Spec => []NameKept
<1>1. Init => NameInv
  BY InitNamed
<1>2. NameInv /\ [Next]_vars => NameInv'
  BY NextNamed
<1>3. NameInv => NameKept
  BY DEF NameInv, Named, NameKept
<1>. QED
  BY <1>1, <1>2, <1>3, PTL DEF Spec

-----------------------------------------------------------------------------
(* The pages.                                                              *)

Bodies == Seq(Byte)

\* What the first n bytes of a valid body end in.
Whole(body, n) == ValidUTF8(body) => n = 0 \/ body[n] # "lead"

\* A place a page may begin or end at.
Cut(body, n) == n \in 0 .. Len(body) /\ Whole(body, n)

IndexedTyped == indexed # Missing => indexed.body \in Bodies

\* A cursor stands for the rest of its owner's body.
CutRight ==
  \A c \in DOMAIN continuations :
    /\ continuations[c].body \in Bodies
    /\ continuations[c].body = continuations[c].owner.body
    /\ Cut(continuations[c].body, continuations[c].offset)

\* What a has read is a beginning of the body, and its cursor is for the rest.
JoinedOf(a) ==
  /\ call[a].owner.body \in Bodies
  /\ \E n \in Nat : Cut(call[a].owner.body, n) /\ call[a].got = SubSeq(call[a].owner.body, 1, n)
  /\ call[a].at \in {"idle", "check", "hydrate"} => call[a].got = <<>>
  /\ call[a].at = "complete" => call[a].got = call[a].owner.body
  /\ call[a].at = "more" /\ call[a].cursor \in DOMAIN continuations =>
       /\ continuations[call[a].cursor].owner = call[a].owner
       /\ call[a].got = SubSeq(call[a].owner.body, 1, continuations[call[a].cursor].offset)

Joined == \A a \in Agents : JoinedOf(a)

PageInv == CursorInv /\ IndexedTyped /\ CutRight /\ Joined

\* The largest of a bounded set is one of it: it is the nearest to the bound.
LEMMA LargestOf ==
  ASSUME NEW I \in SUBSET Nat, I # {}, NEW n \in Nat, \A i \in I : i <= n
  PROVE  Largest(I) \in I /\ \A i \in I : i <= Largest(I)
<1> DEFINE gaps == {n - i : i \in I}
<1>1. gaps \subseteq Nat /\ gaps # {}
  <2>1. ASSUME NEW i \in I PROVE n - i \in Nat
    OBVIOUS
  <2>. QED
    BY <2>1
<1> DEFINE R == OpToRel(<, Nat)
<1>2. \E d \in gaps : \A e \in gaps : ~(<<e, d>> \in R)
  <2>1. IsWellFoundedOn(R, Nat)
    BY NatLessThanWellFounded
  <2> HIDE DEF gaps, R
  <2>. QED
    BY <1>1, <2>1, WFMin, Zenon
<1>3. \A x, y \in Nat : y < x => <<y, x>> \in R
  BY DEF OpToRel
<1> HIDE DEF R
<1>4. PICK m \in I : \A e \in gaps : ~(<<e, n - m>> \in R)
  BY <1>2
<1>5. ASSUME NEW i \in I PROVE i <= m
  <2>1. ~(n - i < n - m)
    BY <1>1, <1>3, <1>4
  <2>. QED
    BY <2>1
<1>. QED
  BY <1>4, <1>5 DEF Largest

\* A page ends where one may, wherever it begins.
LEMMA PageCut ==
  ASSUME NEW body \in Bodies, NEW start, Cut(body, start)
  PROVE  Cut(body, expansionPageEnd(body, start)) /\ start <= expansionPageEnd(body, start)
<1> DEFINE size == start + PageBytes
           breaks == LineBreaks(body, start, size)
           valid == {e \in start .. size : ValidUTF8(Slice(body, start, e))}
<1>1. start \in Nat /\ start <= Len(body) /\ Len(body) \in Nat /\ PageBytes \in Nat /\ PageBytes > 0 /\ size \in Nat
  BY PageAssumption DEF Cut, Bodies
<1>2. CASE start + PageBytes >= Len(body)
  <2>1. expansionPageEnd(body, start) = Len(body)
    BY <1>2 DEF expansionPageEnd
  <2>2. Whole(body, Len(body))
    BY <1>1 DEF Whole, ValidUTF8, Bodies
  <2>. QED
    BY <1>1, <2>1, <2>2 DEF Cut
<1>3. ASSUME ~(start + PageBytes >= Len(body)), breaks # {},
             expansionPageEnd(body, start) = Largest(breaks)
      PROVE  Cut(body, expansionPageEnd(body, start)) /\ start <= expansionPageEnd(body, start)
  <2>1. breaks \in SUBSET Nat /\ \A i \in breaks : i <= size
    BY <1>1 DEF LineBreaks
  <2>2. Largest(breaks) \in breaks
    BY <1>1, <1>3, <2>1, LargestOf
  <2>3. Largest(breaks) \in start + 1 .. size /\ body[Largest(breaks)] = "newline"
    BY <2>2 DEF LineBreaks
  <2>. QED
    BY <1>1, <1>3, <2>3 DEF Cut, Whole
<1>4. ASSUME ~(start + PageBytes >= Len(body)), expansionPageEnd(body, start) = Largest(valid)
      PROVE  Cut(body, expansionPageEnd(body, start)) /\ start <= expansionPageEnd(body, start)
  <2>1. valid \in SUBSET Nat /\ \A i \in valid : i <= size
    BY <1>1
  <2>2. start \in valid
    <3>1. Slice(body, start, start) = <<>>
      BY <1>1, SubSeqEmpty DEF Slice
    <3>. QED
      BY <1>1, <3>1 DEF ValidUTF8
  <2>3. Largest(valid) \in valid
    BY <1>1, <2>1, <2>2, LargestOf
  <2>4. PICK e \in start .. size : e = Largest(valid) /\ ValidUTF8(Slice(body, start, e))
    BY <2>3
  <2>5. e \in 0 .. Len(body)
    BY <1>1, <1>4
  <2>6. Whole(body, e)
    <3>1. CASE e = start
      BY <3>1 DEF Cut
    <3>2. CASE e > start
      <4>1. \A i \in start + 1 .. e : body[i] \in Byte
        BY <1>1, <2>5 DEF Bodies
      <4>2. /\ Slice(body, start, e) \in Seq(Byte) /\ Len(Slice(body, start, e)) = e - start
            /\ Slice(body, start, e)[e - start] = body[e]
        <5>1. /\ SubSeq(body, start + 1, e) \in Seq(Byte)
              /\ Len(SubSeq(body, start + 1, e)) = IF start + 1 <= e THEN e - (start + 1) + 1 ELSE 0
              /\ \A i \in 1 .. e - (start + 1) + 1 : SubSeq(body, start + 1, e)[i] = body[(start + 1) + i - 1]
          BY <1>1, <2>5, <4>1, SubSeqProperties
        <5>2. /\ start + 1 <= e /\ e - (start + 1) + 1 = e - start
              /\ e - start \in 1 .. e - (start + 1) + 1 /\ (start + 1) + (e - start) - 1 = e
          BY <1>1, <2>5, <3>2
        <5>. QED
          BY <5>1, <5>2 DEF Slice
      <4>3. body[e] # "lead"
        <5>1. e - start \in DOMAIN Slice(body, start, e) /\ ~(e - start < Len(Slice(body, start, e)))
          BY <1>1, <2>5, <3>2, <4>2
        <5>. QED
          BY <2>4, <4>2, <5>1 DEF ValidUTF8
      <4>. QED
        BY <4>3 DEF Whole
    <3>. QED
      BY <1>1, <3>1, <3>2
  <2>. QED
    BY <1>1, <1>4, <2>4, <2>5, <2>6 DEF Cut
<1>. QED
  BY <1>2, <1>3, <1>4 DEF expansionPageEnd

\* The page continues what was read up to its start.
LEMMA PageContinues ==
  ASSUME NEW body \in Bodies, NEW start \in 0 .. Len(body), NEW end \in start .. Len(body)
  PROVE  SubSeq(body, 1, start) \o Slice(body, start, end) = SubSeq(body, 1, end)
<1>1. 1 \in 1 .. Len(body) + 1 /\ start \in 1 - 1 .. Len(body)
  BY DEF Bodies
<1>. QED
  BY <1>1, ConcatAdjacentSubSeq DEF Slice, Bodies

\* A valid body cut between characters is valid up to the cut.
LEMMA CutValid ==
  ASSUME NEW body \in Bodies, NEW n, Cut(body, n), ValidUTF8(body)
  PROVE  ValidUTF8(SubSeq(body, 1, n))
<1> DEFINE part == SubSeq(body, 1, n)
<1>1. n \in Nat /\ n <= Len(body) /\ Len(body) \in Nat /\ DOMAIN body = 1 .. Len(body)
  BY DEF Cut, Bodies
<1>2. Len(part) = n /\ DOMAIN part = 1 .. n /\ \A i \in 1 .. n : part[i] = body[i]
  <2>1. \A i \in 1 .. n : body[i] \in Byte
    BY <1>1 DEF Bodies
  <2>2. part \in Seq(Byte) /\ Len(part) = (IF 1 <= n THEN n - 1 + 1 ELSE 0)
        /\ \A i \in 1 .. n - 1 + 1 : part[i] = body[1 + i - 1]
    BY <1>1, <2>1, SubSeqProperties
  <2>. QED
    BY <1>1, <2>2
<1> HIDE DEF part
<1>3. ASSUME NEW i \in 1 .. n
      PROVE  /\ part[i] # "bad"
             /\ part[i] = "lead" => i < n /\ part[i + 1] = "tail"
             /\ part[i] = "tail" => i > 1 /\ part[i - 1] = "lead"
  <2>0. i \in DOMAIN body
    BY <1>1
  <2>1. /\ body[i] # "bad"
        /\ body[i] = "lead" => i < Len(body) /\ body[i + 1] = "tail"
        /\ body[i] = "tail" => i > 1 /\ body[i - 1] = "lead"
    BY <2>0 DEF ValidUTF8
  <2>2. body[i] = "lead" => i < n
    BY <1>1 DEF Cut, Whole
  <2>. QED
    BY <1>1, <1>2, <2>1, <2>2
<1>. QED
  BY <1>2, <1>3 DEF ValidUTF8, part

\* A page for a leaves what all have read joined.
LEMMA PageJoined ==
  ASSUME PageInv, NEW a \in Agents, NEW state, DOMAIN state = Rest, PageFromState(a, state),
         state.body \in Bodies, state.body = state.owner.body, Cut(state.body, state.offset),
         call[a].got = SubSeq(state.body, 1, state.offset), indexed' = indexed
  PROVE  PageInv'
<1> DEFINE end == PageEnd(state)
<1>1. /\ CursorInv'
      /\ \A b \in Agents \ {a} : call'[b] = call[b]
      /\ call'[a].at \in {"more", "complete"}
      /\ call'[a].owner = state.owner
      /\ call'[a].got = call[a].got \o Slice(state.body, state.offset, PageEnd(state))
      /\ call'[a].at = "complete" => PageEnd(state) = Len(state.body)
      /\ call'[a].at = "more" => \A b \in Agents : call'[a].cursor # call[b].cursor
      /\ \A k \in DOMAIN continuations' :
           IF call'[a].at = "more" /\ k = call'[a].cursor THEN continuations'[k] = RestOf(state)
           ELSE k \in DOMAIN continuations /\ continuations'[k] = continuations[k]
  <2>1. Paged(a, state)
    BY PageKeeps DEF PageInv
  <2>. QED
    BY <2>1 DEF Paged
<1>2. RestOf(state).owner = state.owner /\ RestOf(state).body = state.body /\ RestOf(state).offset = end
  BY DEF RestOf, Rest
<1>3. Cut(state.body, end) /\ state.offset <= end /\ Len(state.body) \in Nat
  BY PageCut DEF PageEnd, Bodies
<1> HIDE DEF end
<1>4. end \in 0 .. Len(state.body) /\ state.offset \in 0 .. Len(state.body) /\ end \in state.offset .. Len(state.body)
  BY <1>3 DEF Cut
<1>5. call'[a].got = SubSeq(state.body, 1, end)
  <2>1. call'[a].got = SubSeq(state.body, 1, state.offset) \o Slice(state.body, state.offset, end)
    BY Zenon, <1>1 DEF end
  <2>2. SubSeq(state.body, 1, state.offset) \o Slice(state.body, state.offset, end) = SubSeq(state.body, 1, end)
    BY <1>4, PageContinues
  <2>. QED
    BY Zenon, <2>1, <2>2
<1>6. call'[a].at = "complete" => call'[a].got = state.body
  BY <1>1, <1>5, SubSeqFull DEF Bodies, end
<1>7. CutRight'
  BY <1>1, <1>2, <1>3 DEF PageInv, CutRight
<1>8. Joined'
  <2> SUFFICES ASSUME NEW b \in Agents PROVE JoinedOf(b)'
    BY DEF Joined
  <2>1. CASE b = a
    <3>1. call'[a].owner.body = state.body
      BY <1>1
    <3>2. \E n \in Nat : Cut(call'[a].owner.body, n) /\ call'[a].got = SubSeq(call'[a].owner.body, 1, n)
      BY <1>3, <1>4, <1>5, <3>1
    <3>3. call'[a].at = "more" /\ call'[a].cursor \in DOMAIN continuations' =>
            /\ continuations'[call'[a].cursor].owner = call'[a].owner
            /\ call'[a].got = SubSeq(call'[a].owner.body, 1, continuations'[call'[a].cursor].offset)
      BY <1>1, <1>2, <1>5, <3>1
    <3>. QED
      BY <1>1, <1>6, <2>1, <3>1, <3>2, <3>3 DEF JoinedOf
  <2>2. CASE b # a
    <3>1. call'[b] = call[b] /\ JoinedOf(b)
      BY <1>1, <2>2 DEF PageInv, Joined
    <3>2. call[b].at = "more" /\ call[b].cursor \in DOMAIN continuations' =>
            /\ call[b].cursor \in DOMAIN continuations
            /\ continuations'[call[b].cursor] = continuations[call[b].cursor]
      BY <1>1
    <3>. QED
      BY <3>1, <3>2 DEF JoinedOf
  <2>. QED
    BY <2>1, <2>2
<1>. QED
  BY <1>1, <1>7, <1>8 DEF PageInv, IndexedTyped

\* A step of one agent that gives it no page and takes none away.
LEMMA MoveJoined ==
  ASSUME PageInv, NEW a \in Agents, CursorInv', UNCHANGED <<continuations, indexed>>,
         \A b \in Agents \ {a} : call'[b] = call[b],
         call'[a].owner.body \in Bodies,
         \E n \in Nat : Cut(call'[a].owner.body, n) /\ call'[a].got = SubSeq(call'[a].owner.body, 1, n),
         call'[a].at \in {"idle", "check", "hydrate"} => call'[a].got = <<>>,
         call'[a].at \notin {"more", "complete"}
  PROVE  PageInv'
<1>1. CutRight' /\ IndexedTyped'
  BY DEF PageInv, CutRight, IndexedTyped
<1>2. JoinedOf(a)'
  BY DEF JoinedOf
<1>3. Joined'
  <2> SUFFICES ASSUME NEW b \in Agents, b # a PROVE JoinedOf(b)'
    BY <1>2 DEF Joined
  <2>1. JoinedOf(b) /\ call'[b] = call[b] /\ continuations' = continuations
    BY DEF PageInv, Joined
  <2>. QED
    BY <2>1 DEF JoinedOf
<1>. QED
  BY <1>1, <1>3 DEF PageInv

\* The empty body, which nothing has been read of.
LEMMA NothingRead ==
  /\ NoCall.owner.body \in Bodies /\ NoCall.got = <<>> /\ NoCall.at = "idle"
  /\ \E n \in Nat : Cut(NoCall.owner.body, n) /\ NoCall.got = SubSeq(NoCall.owner.body, 1, n)
<1>1. NoCall.owner.body = <<>> /\ NoCall.got = <<>> /\ NoCall.at = "idle"
  BY DEF NoCall, Missing
<1>2. <<>> \in Bodies /\ SubSeq(<<>>, 1, 0) = <<>> /\ Cut(<<>>, 0)
  BY SubSeqEmpty DEF Bodies, Cut, Whole
<1>. QED
  BY <1>1, <1>2

\* Before the first search.
LEMMA InitJoined == Init => PageInv
<1> SUFFICES ASSUME Init PROVE PageInv
  OBVIOUS
<1>1. IndexedTyped
  BY SymbolAssumption DEF Init, IndexedTyped, Bodies
<1>2. CutRight
  BY DEF Init, CutRight
<1>3. Joined
  <2> SUFFICES ASSUME NEW a \in Agents PROVE JoinedOf(a)
    BY DEF Joined
  <2>1. call[a] = NoCall
    BY DEF Init
  <2>. QED
    BY <2>1, NothingRead DEF JoinedOf
<1>. QED
  BY <1>1, <1>2, <1>3, InitCursors DEF PageInv

\* Whatever a calls, what it and the others have read stays joined.
LEMMA AgentJoined ==
  ASSUME PageInv, NEW a \in Agents, Call(a)
  PROVE  PageInv'
<1>1. CursorInv /\ CursorInv' /\ DOMAIN call = Agents /\ DOMAIN call[a] = Fields
  BY AgentCursors DEF PageInv, CursorInv, Shapes
<1>2. /\ call[a].owner.body \in Bodies
      /\ \E n \in Nat : Cut(call[a].owner.body, n) /\ call[a].got = SubSeq(call[a].owner.body, 1, n)
      /\ call[a].at \in {"idle", "check", "hydrate"} => call[a].got = <<>>
  BY DEF PageInv, Joined, JoinedOf
<1>3. ASSUME Moves(a, "refused"), UNCHANGED indexed
      PROVE  PageInv'
  <2>1. /\ call'[a].at = "refused" /\ call'[a].got = call[a].got /\ call'[a].owner = call[a].owner
        /\ \A b \in Agents \ {a} : call'[b] = call[b]
    BY <1>1, <1>3, MovesKeep
  <2>. QED
    BY <1>1, <1>2, <1>3, <2>1, MoveJoined DEF Moves
<1>4. ASSUME NEW r \in Requests, ExpandContext(a, r) PROVE PageInv'
  <2>1. /\ call'[a].at = "check" /\ call'[a].got = call[a].got /\ call'[a].owner = call[a].owner
        /\ call[a].at = "idle" /\ \A b \in Agents \ {a} : call'[b] = call[b]
    BY <1>1, <1>4 DEF ExpandContext, Fields
  <2>. QED
    BY <1>1, <1>2, <1>4, <2>1, MoveJoined DEF ExpandContext
<1>5. CASE CheckIdentity(a)
  <2>1. PICK place \in {"hydrate", "refused"} : Moves(a, place)
    BY <1>5 DEF CheckIdentity, Moves
  <2>2. /\ call'[a].at = place /\ call'[a].got = call[a].got /\ call'[a].owner = call[a].owner
        /\ call[a].at = "check" /\ \A b \in Agents \ {a} : call'[b] = call[b]
    BY <1>1, <1>5, <2>1, MovesKeep DEF CheckIdentity
  <2>. QED
    BY <1>1, <1>2, <1>5, <2>2, MoveJoined DEF CheckIdentity
<1>6. CASE Hydrate(a)
  <2>1. CASE Moves(a, "refused")
    BY <1>3, <1>6, <2>1 DEF Hydrate
  <2>2. CASE indexed # Missing /\ PageFromState(a, [owner |-> indexed, body |-> indexed.body, offset |-> 0])
    <3> DEFINE state == [owner |-> indexed, body |-> indexed.body, offset |-> 0]
    <3>1. DOMAIN state = Rest /\ state.body \in Bodies /\ state.body = state.owner.body /\ state.offset = 0
      BY <1>1, <2>2, StatesComplete DEF PageInv, IndexedTyped
    <3>2. Cut(state.body, 0)
      BY <3>1 DEF Cut, Whole, Bodies
    <3>3. call[a].got = SubSeq(state.body, 1, 0)
      <4>1. SubSeq(state.body, 1, 0) = <<>>
        BY SubSeqEmpty
      <4>. QED
        BY <1>2, <1>6, <4>1 DEF Hydrate
    <3>4. PageFromState(a, state) /\ indexed' = indexed
      BY <1>6, <2>2 DEF Hydrate
    <3> HIDE DEF state
    <3>. QED
      BY <3>1, <3>2, <3>3, <3>4, PageJoined
  <2>. QED
    BY <1>6, <2>1, <2>2 DEF Hydrate, Moves
<1>7. CASE ContinueContext(a)
  <2>1. CASE Moves(a, "refused")
    BY <1>3, <1>7, <2>1 DEF ContinueContext
  <2>2. CASE call[a].cursor \in DOMAIN continuations /\ PageFromState(a, continuations[call[a].cursor])
    <3> DEFINE state == continuations[call[a].cursor]
    <3>1. DOMAIN state = Rest
      BY <1>1, <2>2, StatesComplete
    <3>2. state.body \in Bodies /\ state.body = state.owner.body /\ Cut(state.body, state.offset)
      BY <2>2 DEF PageInv, CutRight
    <3>3. state.owner = call[a].owner /\ call[a].got = SubSeq(call[a].owner.body, 1, state.offset)
      BY <1>7, <2>2 DEF ContinueContext, PageInv, Joined, JoinedOf
    <3>4. PageFromState(a, state) /\ indexed' = indexed
      BY <1>7, <2>2 DEF ContinueContext
    <3> HIDE DEF state
    <3>. QED
      BY <3>1, <3>2, <3>3, <3>4, PageJoined
  <2>. QED
    BY <1>7, <2>1, <2>2 DEF ContinueContext, Moves
<1>8. CASE Leave(a)
  <2>1. call'[a] = NoCall /\ \A b \in Agents \ {a} : call'[b] = call[b]
    BY <1>1, <1>8 DEF Leave
  <2>. QED
    BY <1>1, <1>8, <2>1, NothingRead, MoveJoined DEF Leave
<1>. QED
  BY <1>4, <1>5, <1>6, <1>7, <1>8 DEF Call

\* A pass, between any two steps of an expansion, changes what will be read
\* and not what is being read.
LEMMA NextJoined == PageInv /\ [Next]_vars => PageInv'
<1> SUFFICES ASSUME PageInv, [Next]_vars PROVE PageInv'
  OBVIOUS
<1>1. CASE UNCHANGED <<continuations, call>> /\ (indexed' = indexed \/ indexed' \in Symbols \cup {Missing})
  <2>1. CursorInv'
    BY NextCursors DEF PageInv
  <2>2. IndexedTyped'
    BY <1>1, SymbolAssumption DEF PageInv, IndexedTyped, Bodies
  <2>3. CutRight' /\ Joined'
    BY <1>1 DEF PageInv, CutRight, Joined, JoinedOf
  <2>. QED
    BY <2>1, <2>2, <2>3 DEF PageInv
<1>2. ASSUME NEW a \in Agents, Call(a) PROVE PageInv'
  BY <1>2, AgentJoined
<1>. QED
  BY <1>1, <1>2 DEF Next, FindContext, Reindex, vars

\* Whatever is reindexed between the pages, however many agents share the
\* cursors and whichever cursors are dropped, the pages an agent was given are
\* together a beginning of one body, all of it once the expansion is complete,
\* and of a valid body no page ends within a character (expansionPageEnd,
\* pageFromState).
THEOREM PagesJoined == Spec => []PagesJoin
<1>1. PageInv => PagesJoin
  <2> SUFFICES ASSUME PageInv, NEW a \in Agents
               PROVE  /\ Reading(a) => /\ Len(call[a].got) <= Len(call[a].owner.body)
                                       /\ call[a].got = SubSeq(call[a].owner.body, 1, Len(call[a].got))
                      /\ call[a].at = "complete" => call[a].got = call[a].owner.body
                      /\ ValidUTF8(call[a].owner.body) => ValidUTF8(call[a].got)
    BY DEF PagesJoin, Lossless, WholeCharacters
  <2>1. JoinedOf(a)
    BY DEF PageInv, Joined
  <2> DEFINE body == call[a].owner.body
  <2>2. PICK n \in Nat : Cut(body, n) /\ call[a].got = SubSeq(body, 1, n)
    BY <2>1 DEF JoinedOf
  <2>3. body \in Bodies
    BY <2>1 DEF JoinedOf
  <2> HIDE DEF body
  <2>4. n <= Len(body) /\ Len(call[a].got) = n
    <3>1. n \in 0 .. Len(body) /\ Len(body) \in Nat /\ \A i \in 1 .. n : body[i] \in Byte
      BY <2>2, <2>3 DEF Cut, Bodies
    <3>2. Len(SubSeq(body, 1, n)) = IF 1 <= n THEN n - 1 + 1 ELSE 0
      BY <3>1, SubSeqProperties
    <3>. QED
      BY <2>2, <3>1, <3>2
  <2>5. ValidUTF8(body) => ValidUTF8(call[a].got)
    BY <2>2, <2>3, CutValid
  <2>. QED
    BY <2>1, <2>2, <2>4, <2>5 DEF JoinedOf, body
<1>. QED
  BY <1>1, InitJoined, NextJoined, PTL DEF Spec
=============================================================================
