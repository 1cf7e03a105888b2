-------------------------------- MODULE Gate --------------------------------
(***************************************************************************)
(* The discovery gate (cli/hook.go): before a text search of the agent its *)
(* host runs `hook pre-search`, which turns the search away until          *)
(* find_context has answered in the session, but a few times only; after   *)
(* find_context has answered the host runs `hook post-find`, and after a   *)
(* search `hook post-search`, which suggests find_context once.  Each is a *)
(* process of its own, and all they share is files: three markers of the   *)
(* session, and the breadcrumb of the last retrieval (module Feedback),    *)
(* which belongs to the project.                                           *)
(*                                                                         *)
(* The hooks drop the errors of their writes: a search whose count could   *)
(* not be written is turned away all the same.                             *)
(*                                                                         *)
(* The index is present.  Whose retrieval the breadcrumb holds is all that *)
(* matters of it here; labelling it is one step.                           *)
(***************************************************************************)
EXTENDS Integers, FiniteSets

CONSTANTS
  Sessions,         \* sessions of agents in one project
  Searches,         \* search tool calls, of any session, at a time
  gateBlockBudget,  \* searches the gate turns away
  MaxBlocks,        \* bound on the searches turned away in a session
  MaxLost           \* bound on the writes that fail

ASSUME GateAssumption ==
  /\ gateBlockBudget \in Nat \ {0} /\ {MaxBlocks, MaxLost} \subseteq Nat

\* What the block counter's file holds while it is being written, and when that
\* failed after it was emptied.
Truncated == -1

VARIABLES
  parallel,    \* the sessions that have several tool calls at a time, which never changes
  marker,      \* marker[s]: post-find has run in session s
  counter,     \* counter[s]: the .blocked file of s: a number, or Truncated
  nudged,      \* nudged[s]: the .nudged file of s exists
  breadcrumb,  \* the session of the last unlabelled retrieval, or "none"
  answered,    \* sessions whose find_context has answered, post-find still to run
  search,      \* search[p]: where tool call p is, of which session, and what it has read
  lost,        \* history: lost[s]: writes of the session's files that failed
  blocks,      \* history: blocks[s]: searches of s that were turned away
  nudges,      \* history: nudges[s]: suggestions made in s
  misjudged    \* history: sessions whose retrieval was labelled for another's search

vars == <<parallel, marker, counter, nudged, breadcrumb, answered, search, lost, blocks, nudges, misjudged>>

NoSearch == [at |-> "idle", of |-> "none", read |-> 0, opened |-> FALSE]

Init ==
  /\ parallel \in SUBSET Sessions
  /\ marker = [s \in Sessions |-> FALSE] /\ counter = [s \in Sessions |-> 0]
  /\ nudged = [s \in Sessions |-> FALSE] /\ breadcrumb = "none" /\ answered = {}
  /\ search = [p \in Searches |-> NoSearch]
  /\ lost = [s \in Sessions |-> 0] /\ blocks = lost /\ nudges = lost /\ misjudged = {}

Session(p) == search[p].of
Goto(p, place) == search' = [search EXCEPT ![p].at = place]

\* Unless a session is parallel it has no other tool call under way.
Turn(s) == s \in parallel \/ (s \notin answered /\ \A p \in Searches : Session(p) # s)

\* gateBlocksSoFar: what cannot be read as a number counts as zero.
gateBlocksSoFar(s) == IF counter[s] = Truncated THEN 0 ELSE counter[s]

\* os.WriteFile fails on a file of session s.
Loses(s) == (\A t \in Sessions : lost[t] < MaxLost) /\ lost' = [lost EXCEPT ![s] = @ + 1]

-----------------------------------------------------------------------------
(* find_context.                                                           *)

\* The server leaves the breadcrumb; the host has still to run post-find.
FindContext(s) ==
  /\ Turn(s)
  /\ breadcrumb' = s /\ answered' = answered \cup {s}
  /\ UNCHANGED <<parallel, marker, counter, nudged, search, lost, blocks, nudges, misjudged>>

\* post-find opens the gate, from then on.
PostFind(s) ==
  /\ s \in answered
  /\ marker' = [marker EXCEPT ![s] = TRUE]
  /\ answered' = answered \ {s}
  /\ UNCHANGED <<parallel, counter, nudged, breadcrumb, search, lost, blocks, nudges, misjudged>>

\* The marker cannot be made, and nobody is told.
PostFindLost(s) ==
  /\ s \in answered /\ Loses(s)
  /\ answered' = answered \ {s}
  /\ UNCHANGED <<parallel, marker, counter, nudged, breadcrumb, search, blocks, nudges, misjudged>>

-----------------------------------------------------------------------------
(* hook pre-search.                                                        *)

Search(p, s) ==
  /\ search[p].at = "idle" /\ Turn(s) /\ blocks[s] < MaxBlocks
  /\ search' = [search EXCEPT ![p] = [at |-> "budget", of |-> s, read |-> 0, opened |-> marker[s]]]
  /\ UNCHANGED <<parallel, marker, counter, nudged, breadcrumb, answered, lost, blocks, nudges, misjudged>>

\* Mutant: the budget is not looked at.
CheckBudgetNever(p) ==
  /\ search[p].at = "budget"
  /\ Goto(p, "marker")
  /\ UNCHANGED <<parallel, marker, counter, nudged, breadcrumb, answered, lost, blocks, nudges, misjudged>>

CheckBudget(p) ==
  /\ search[p].at = "budget"
  /\ Goto(p, IF gateBlocksSoFar(Session(p)) >= gateBlockBudget THEN "signal" ELSE "marker")
  /\ UNCHANGED <<parallel, marker, counter, nudged, breadcrumb, answered, lost, blocks, nudges, misjudged>>

\* Mutant: the marker is not looked at.
CheckMarkerNever(p) ==
  /\ search[p].at = "marker"
  /\ Goto(p, "count")
  /\ UNCHANGED <<parallel, marker, counter, nudged, breadcrumb, answered, lost, blocks, nudges, misjudged>>

CheckMarker(p) ==
  /\ search[p].at = "marker"
  /\ Goto(p, IF marker[Session(p)] THEN "signal" ELSE "count")
  /\ UNCHANGED <<parallel, marker, counter, nudged, breadcrumb, answered, lost, blocks, nudges, misjudged>>

\* recordGateBlock: the count is read again, and os.WriteFile truncates the file
\* before it writes the next one.
ReadCount(p) ==
  /\ search[p].at = "count"
  /\ search' = [search EXCEPT ![p].at = "truncate", ![p].read = gateBlocksSoFar(Session(p))]
  /\ UNCHANGED <<parallel, marker, counter, nudged, breadcrumb, answered, lost, blocks, nudges, misjudged>>

TruncateCount(p) ==
  /\ search[p].at = "truncate"
  /\ counter' = [counter EXCEPT ![Session(p)] = Truncated]
  /\ Goto(p, "write")
  /\ UNCHANGED <<parallel, marker, nudged, breadcrumb, answered, lost, blocks, nudges, misjudged>>

\* Mutant: the count is written as it was read.
WriteCountSame(p) ==
  /\ search[p].at = "write"
  /\ counter' = [counter EXCEPT ![Session(p)] = search[p].read]
  /\ blocks' = [blocks EXCEPT ![Session(p)] = @ + 1]
  /\ search' = [search EXCEPT ![p] = NoSearch]
  /\ UNCHANGED <<parallel, marker, nudged, breadcrumb, answered, lost, nudges, misjudged>>

\* The count is written, and exit code 2 turns the search away.
WriteCount(p) ==
  /\ search[p].at = "write"
  /\ counter' = [counter EXCEPT ![Session(p)] = search[p].read + 1]
  /\ blocks' = [blocks EXCEPT ![Session(p)] = @ + 1]
  /\ search' = [search EXCEPT ![p] = NoSearch]
  /\ UNCHANGED <<parallel, marker, nudged, breadcrumb, answered, lost, nudges, misjudged>>

\* The counter's file cannot be opened, or it has been emptied and cannot be
\* filled: the search is turned away and the count is not.
CountLost(p) ==
  /\ search[p].at \in {"truncate", "write"} /\ Loses(Session(p))
  /\ blocks' = [blocks EXCEPT ![Session(p)] = @ + 1]
  /\ search' = [search EXCEPT ![p] = NoSearch]
  /\ UNCHANGED <<parallel, marker, counter, nudged, breadcrumb, answered, nudges, misjudged>>

\* recordSearchAfterContext labels whatever retrieval is in the breadcrumb, and
\* the search is let through.
Signal(p) ==
  /\ search[p].at = "signal"
  /\ misjudged' = IF breadcrumb \in {"none", Session(p)} THEN misjudged
                  ELSE misjudged \cup {breadcrumb}
  /\ breadcrumb' = "none"
  /\ Goto(p, "searching")
  /\ UNCHANGED <<parallel, marker, counter, nudged, answered, lost, blocks, nudges>>

-----------------------------------------------------------------------------
(* hook post-search, when the search has a hit to hand over.               *)

CheckNudged(p) ==
  /\ search[p].at = "searching"
  /\ search' = IF nudged[Session(p)] THEN [search EXCEPT ![p] = NoSearch]
               ELSE [search EXCEPT ![p].at = "nudge"]
  /\ UNCHANGED <<parallel, marker, counter, nudged, breadcrumb, answered, lost, blocks, nudges, misjudged>>

Nudge(p) ==
  /\ search[p].at = "nudge"
  /\ nudged' = [nudged EXCEPT ![Session(p)] = TRUE]
  /\ nudges' = [nudges EXCEPT ![Session(p)] = @ + 1]
  /\ search' = [search EXCEPT ![p] = NoSearch]
  /\ UNCHANGED <<parallel, marker, counter, breadcrumb, answered, lost, blocks, misjudged>>

\* The note that it was made cannot be written; the suggestion is made.
NudgeLost(p) ==
  /\ search[p].at = "nudge" /\ Loses(Session(p))
  /\ nudges' = [nudges EXCEPT ![Session(p)] = @ + 1]
  /\ search' = [search EXCEPT ![p] = NoSearch]
  /\ UNCHANGED <<parallel, marker, counter, nudged, breadcrumb, answered, blocks, misjudged>>

PreSearch(p) ==
  CheckBudget(p) \/ CheckMarker(p) \/ ReadCount(p) \/ TruncateCount(p) \/ WriteCount(p) \/ Signal(p)

PostSearch(p) == CheckNudged(p) \/ Nudge(p)

Next ==
  \/ \E s \in Sessions : FindContext(s) \/ PostFind(s) \/ \E p \in Searches : Search(p, s)
  \/ \E p \in Searches : PreSearch(p) \/ PostSearch(p)
  \/ \E s \in Sessions : PostFindLost(s)
  \/ \E p \in Searches : CountLost(p) \/ NudgeLost(p)

Spec == Init /\ [][Next]_vars

\* The hooks run to their end, and an agent that was turned away searches again.
FairSpec ==
  /\ Spec
  /\ \A s \in Sessions, p \in Searches : SF_vars(Search(p, s))
  /\ \A p \in Searches : WF_vars(PreSearch(p)) /\ WF_vars(PostSearch(p))
  /\ \A s \in Sessions : WF_vars(PostFind(s))

-----------------------------------------------------------------------------
\* "only for a bounded number of searches" (hook.go): a session that
\* searches in turn is turned away as often as the budget says, and for each of
\* its writes that fails as often again at most: the file that was emptied and
\* not filled counts as zero.
BlocksWithinBudget == \A s \in Sessions \ parallel : blocks[s] <= gateBlockBudget * (1 + lost[s])

\* "only for a bounded number of searches ... three" (hook.go), whatever fails:
\* "it fails open".
BlocksBounded == \A s \in Sessions : blocks[s] <= gateBlockBudget

\* "already handled by the gate blocking at most once" (hook.go, of an index
\* that cannot be read, where find_context never answers).
BlocksAtMostOnce == \A s \in Sessions : blocks[s] <= 1

\* "one find_context call opens it" (the block message): a search that begins
\* after find_context has answered, and post-find has left its marker, is not
\* turned away.
OpenStaysOpen ==
  \A p \in Searches : search[p].opened => search[p].at \notin {"count", "truncate", "write"}

\* "Fires once per session" (hook.go, of the suggestion after a search), and once
\* more for a note of it that could not be written, when the session searches in
\* turn.
NudgedOnce == \A s \in Sessions \ parallel : nudges[s] <= 1 + lost[s]

\* "a retrieval the agent followed with a text search of its own"
\* (feedback/recorder.go): a retrieval is labelled for a search of its session.
JudgedByOwnSearch == misjudged = {}

\* Blocking forever "deadlocks the agent" (hook.go): a session that searches in
\* turn is let through sooner or later, even when find_context never answers and
\* a count cannot be written now and then.  (If none can it never is:
\* BlocksBounded.)
SearchGetsThrough ==
  \A s \in Sessions :
    (s \notin parallel /\ \E p \in Searches : Session(p) = s /\ search[p].at = "budget")
      ~> (\E p \in Searches : Session(p) = s /\ search[p].at = "searching")

=============================================================================
