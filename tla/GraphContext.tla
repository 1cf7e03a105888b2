---------------------------- MODULE GraphContext ----------------------------
(***************************************************************************)
(* The call graph around an answer (retrieve/pipeline.go                   *)
(* enrichGraphContext, retrieve/graphmemo.go): the callers and callees of  *)
(* a result, the best of them by the words of the query first, and the     *)
(* symbols two calls away.  Also the confidence an answer is given and the *)
(* source around a call.                                                   *)
(*                                                                         *)
(* A graph g is what getGraphMemo keeps of one generation of the index:    *)
(* name[id], kind, the overlap of the name with the query as score, and    *)
(* the edges in their order, each from src to dst at a line.               *)
(***************************************************************************)
EXTENDS Naturals, Sequences, SequencesExt, FiniteSets, FiniteSetsExt

CONSTANTS
  MaxCallers, MaxCallees, MaxCalleesRest,  \* graphMaxCallers, ...
  MaxCallsites, MaxFlow

GraphContextAssumption == {MaxCallers, MaxCallees, MaxCalleesRest, MaxCallsites, MaxFlow} \subseteq Nat

\* byQN: of symbols of one name the last one listed.
ownerSym(g, id) == Max({i \in DOMAIN g.name : g.name[i] = g.name[id]})

CallerEdges(g, id) == SelectSeq(g.edges, LAMBDA e : e.dst = ownerSym(g, id))
CalleeEdges(g, id) == SelectSeq(g.edges, LAMBDA e : e.src = ownerSym(g, id))

\* A stable sort by score, best first; without words of a query the order of
\* the source.
\* Mutant: the list is cut in the order of the source.
rankRefsNot(g, edges, other) == edges
rankRefs(g, edges, other) ==
  LET At(e) == g.score[IF other = "src" THEN e.src ELSE e.dst]
  IN SelectSeq(edges, LAMBDA e : At(e) = 1) \o SelectSeq(edges, LAMBDA e : At(e) = 0)

UpTo(s, n) == SubSeq(s, 1, Min({n, Len(s)}))

Callers(g, id) == UpTo(rankRefs(g, CallerEdges(g, id), "src"), MaxCallers)

\* What cannot be called is dropped from the cut list.
\* Mutant: the top result and the others have one cap.
CalleesCap(rank) == IF rank = 1 THEN MaxCallees ELSE MaxCalleesRest
Callees(g, id, rank) ==
  SelectSeq(UpTo(rankRefs(g, CalleeEdges(g, id), "dst"), CalleesCap(rank)), LAMBDA e : g.callable[e.dst])

CallersTotal(g, id) == Len(CallerEdges(g, id))
CalleesTotal(g, id) == Len(CalleeEdges(g, id))

\* The callees that are shown with the source around the call.
Callsites(g, id, rank) == IF rank = 1 THEN UpTo(Callees(g, id, rank), MaxCallsites) ELSE <<>>

-----------------------------------------------------------------------------
(* Two calls away.                                                         *)

To(g, id) == [i \in DOMAIN SelectSeq(g.edges, LAMBDA e : e.dst = id) |-> SelectSeq(g.edges, LAMBDA e : e.dst = id)[i].src]
From(g, id) == [i \in DOMAIN SelectSeq(g.edges, LAMBDA e : e.src = id) |-> SelectSeq(g.edges, LAMBDA e : e.src = id)[i].dst]

\* Those of the sequence that have not been seen, as long as there is room.
TakeUnseen(found, ids, seen) ==
  FoldLeft(LAMBDA out, id : IF id \in seen \/ id \in ToSet(out) \/ Len(out) >= MaxFlow THEN out ELSE Append(out, id),
           found, ids)

\* Callers of callers first, then callees of callees.
Seen(g, id) == {id} \union ToSet(To(g, id)) \union ToSet(From(g, id))

FlowContext(g, id) ==
  LET owner == ownerSym(g, id)
      up == FlattenSeq([i \in DOMAIN To(g, owner) |-> To(g, To(g, owner)[i])])
      down == FlattenSeq([i \in DOMAIN From(g, owner) |-> From(g, From(g, owner)[i])])
  IN TakeUnseen(TakeUnseen(<<>>, up, Seen(g, owner)), down, Seen(g, owner))

-----------------------------------------------------------------------------
(* The source around a call: nothing when no branch is near.               *)

\* branch[i] tells whether line i of the body begins a branch.
callSiteEvidence(branch, start, line) ==
  LET at == line - start + 1
      from == Max({1, at - 3})
  IN IF line < start \/ at > Len(branch) \/ ~\E i \in from .. at : branch[i] THEN <<>>
     ELSE [i \in 1 .. Min({at + 1, Len(branch)}) - from + 1 |-> start + from + i - 2]

-----------------------------------------------------------------------------
(* How sure an answer is: files of the results in order, whether the       *)
(* reranker found the first a weak match.                                  *)

Consensus(files) == Cardinality({i \in 1 .. Min({5, Len(files)}) : files[i] = files[1]})

RetrievalHealth(files, weak) ==
  IF weak THEN "low"
  ELSE IF Consensus(files) >= 3 \/ Consensus(files) = Min({5, Len(files)}) THEN "high"
  ELSE IF Consensus(files) = 2 THEN "medium" ELSE "low"

-----------------------------------------------------------------------------
(* What is promised.                                                       *)

\* No caller that is left out matches the query better than one that is
\* shown, and of those that match as well the first in the source are shown.
BestCallersKept(g, id) ==
  LET all == CallerEdges(g, id)
      shown == ToSet(Callers(g, id))
  IN \A i, j \in DOMAIN all :
       all[i] \in shown /\ all[j] \notin shown =>
         g.score[all[i].src] > g.score[all[j].src] \/ (g.score[all[i].src] = g.score[all[j].src] /\ i < j)

\* What flows is exactly two calls away, in one direction, and is neither the
\* symbol, nor a neighbour of it; nothing that is, is left out while there is room.
FlowTwoHops(g, id) ==
  LET Calls(a, b) == \E i \in DOMAIN g.edges : g.edges[i].src = a /\ g.edges[i].dst = b
      ids == DOMAIN g.name
      near == {id} \union {x \in ids : Calls(id, x) \/ Calls(x, id)}
      far == {x \in ids \ near : \E m \in ids : (Calls(id, m) /\ Calls(m, x)) \/ (Calls(x, m) /\ Calls(m, id))}
      flow == FlowContext(g, id)
  IN /\ ToSet(flow) \subseteq far /\ Len(flow) = Min({MaxFlow, Cardinality(far)})

\* An excerpt of a call shows the call and a branch it hangs on, within the body.
CallSiteShows(branch, start, line) ==
  LET shown == ToSet(callSiteEvidence(branch, start, line))
  IN shown # {} => /\ line \in shown /\ shown \subseteq start .. start + Len(branch) - 1
                   /\ \E n \in shown : n <= line /\ branch[n - start + 1]

\* An answer that is all of one file does not read as unsure.
AgreedNotLow(files, weak) ==
  Cardinality(ToSet(files)) = 1 /\ ~weak => RetrievalHealth(files, weak) = "high"

\* Not kept: the callers under a result are its own (symbols are found by
\* their qualified name, which overloads share).
OwnCallers(g, id) == \A e \in ToSet(Callers(g, id)) : e.dst = id
=============================================================================
