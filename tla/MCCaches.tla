------------------------------ MODULE MCCaches ------------------------------
(***************************************************************************)
(* The two caches of the store, one or the other at work, and the promise  *)
(* both implement.                                                         *)
(***************************************************************************)
EXTENDS VecCache, TLC

CONSTANTS Caches, Queries, Overlap, EmbedFails, MaxVersion, s1, s2, q1, q2

VARIABLES
  cache,  \* the one at work
  symbols, edges, symsCache, edgesCache, pass, query, taken, floor, began

graphVars == <<symbols, edges, symsCache, edgesCache, pass, query, taken, floor, began>>

G == INSTANCE GraphCache

ASSUME GraphGiven == G!GraphAssumption
ASSUME ReadersApart == Searchers \intersect Queries = {}

MCInit == cache \in Caches /\ Init /\ G!Init

MCNext ==
  \/ cache = "vec" /\ Next /\ UNCHANGED <<cache, graphVars>>
  \/ cache = "graph" /\ G!Next /\ UNCHANGED <<cache, vars>>

MCSpec == MCInit /\ [][MCNext]_<<cache, vars, graphVars>>

Symmetry == Permutations(Searchers) \union Permutations(Queries)

-----------------------------------------------------------------------------
(* The mapping: a search reads the vectors; a query the edges, then the    *)
(* symbols.                                                                *)

Tables == {"vectors", "edges", "symbols"}
Readers == Searchers \union Queries
Row(v, e, s) == [t \in Tables |-> IF t = "vectors" THEN v ELSE IF t = "edges" THEN e ELSE s]

FloorOf(r) == IF r \in Searchers THEN Row(since[r], 0, 0) ELSE Row(0, began[r].edges, began[r].syms)

GotBy(r) ==
  IF r \in Searchers
  THEN CASE at[r] = "idle" -> Row(-2, -2, -2)
         [] at[r] = "done" -> Row(found[r], -1, -1)
         [] OTHER -> Row(-1, -1, -1)
  ELSE CASE query[r] = "idle" -> Row(-2, -2, -2)
         [] query[r] = "edges" -> Row(-1, -1, -1)
         [] query[r] = "symbols" -> Row(-1, taken[r].edges, -1)
         [] OTHER -> Row(-1, taken[r].edges, taken[r].syms)

R == INSTANCE CachedReads WITH
  version <- Row(gen, edges, symbols),
  returned <- Row(acked, floor.edges, floor.syms),
  floor <- [r \in Readers |-> FloorOf(r)],
  got <- [r \in Readers |-> GotBy(r)]

-----------------------------------------------------------------------------
\* Both caches keep the promise (SearchByVectorScored, ListAllEdges,
\* ListSymbolMeta beside Commit and invalidateVecCache, invalidateGraphCache):
\* a reader is given what a table held since the last mutation that had
\* returned when it began, never older and never what was not committed.
FreshReads == R!Spec

\* Queries beside a pass, whatever it invalidates when (graphcache.go).
InvalidationObeyed == G!InvalidationObeyed

\* A query that begins after a pass is answered from its edges, which holds
\* only when no query comes between its last upsert and its edges.
GraphCurrent == G!GraphCurrent
=============================================================================
