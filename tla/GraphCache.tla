----------------------------- MODULE GraphCache -----------------------------
(***************************************************************************)
(* The symbol table and the call graph kept in RAM for the queries         *)
(* (store/sqlite/graphcache.go), while one indexing pass after another     *)
(* changes both tables.  The cache is invalidated by the mutators that     *)
(* invalidate the vector cache, and by no others.                          *)
(*                                                                         *)
(* Versions stand for the contents of the tables; a pass makes the calls   *)
(* Indexer.Index makes, in its order.                                      *)
(***************************************************************************)
EXTENDS Integers, FiniteSets

CONSTANTS
  Queries,      \* queries of the MCP server
  Overlap,      \* whether queries run while a pass is under way
  EmbedFails,   \* whether a pass may have no vector to store for a file
  MaxVersion    \* bound on the changes of the symbols table

GraphAssumption == Overlap \in BOOLEAN /\ EmbedFails \in BOOLEAN /\ MaxVersion \in Nat

VARIABLES
  symbols, edges,        \* versions of the two tables
  symsCache, edgesCache, \* s.graph.syms and s.graph.edges: a version, or Unloaded
  pass,                  \* the call the pass is at
  query,                 \* query[q]: the slice q reads next
  taken,                 \* taken[q]: the versions q was given
  floor,                 \* history: the versions when a mutator last invalidated
  began                  \* history: began[q]: floor when q began

vars == <<symbols, edges, symsCache, edgesCache, pass, query, taken, floor, began>>

Unloaded == -1
Cut == [syms |-> 0, edges |-> 0]

Init ==
  /\ symbols = 0 /\ edges = 0
  /\ symsCache = Unloaded /\ edgesCache = Unloaded
  /\ pass = "idle"
  /\ query = [q \in Queries |-> "idle"] /\ taken = [q \in Queries |-> Cut]
  /\ floor = Cut /\ began = [q \in Queries |-> Cut]

NoQuery == \A q \in Queries : query[q] = "idle"

\* A pass begins, or goes on to its next file.
NextFile == pass = "edges" \/ (pass = "idle" /\ (Overlap \/ NoQuery))
QueryMay == Overlap \/ pass = "idle"

\* Mutant: the edges stay cached.
InvalidateSymbolsOnly ==
  /\ symsCache' = Unloaded /\ edgesCache' = edgesCache
  /\ floor' = [syms |-> symbols, edges |-> edges]

\* invalidateGraphCache, and the mutator returns.
Invalidate ==
  /\ symsCache' = Unloaded /\ edgesCache' = Unloaded
  /\ floor' = [syms |-> symbols, edges |-> edges]

-----------------------------------------------------------------------------
(* The pass.                                                               *)

\* DeleteSymbolsByFile commits, or DeleteFile, which comes after the edges of a
\* pass: symbols go, and their edges.
CommitDelete ==
  /\ NextFile /\ symbols < MaxVersion
  /\ symbols' = symbols + 1 /\ edges' = edges + 1
  /\ \/ pass' = "deleted symbols"
     \/ pass = "idle" /\ pass' = "deleted file"
  /\ UNCHANGED <<symsCache, edgesCache, query, taken, floor, began>>

InvalidateDelete ==
  /\ pass \in {"deleted file", "deleted symbols"}
  /\ Invalidate
  /\ pass' = IF pass = "deleted file" THEN "idle" ELSE "save"
  /\ UNCHANGED <<symbols, edges, query, taken, began>>

\* SaveSymbolBatch, of a file that was replaced or is new: nothing invalidated.
SaveSymbols ==
  /\ pass = "save" \/ NextFile
  /\ symbols < MaxVersion
  /\ symbols' = symbols + 1
  /\ pass' = "embed"
  /\ UNCHANGED <<edges, symsCache, edgesCache, query, taken, floor, began>>

\* A replaced file may define nothing any more.
NoSymbols ==
  /\ pass = "save"
  /\ pass' = "edges"
  /\ UNCHANGED <<symbols, edges, symsCache, edgesCache, query, taken, floor, began>>

\* UpsertEmbeddingBatch, whose commit changes neither table: it invalidates.
\* It is not called when the embedder fails and no vector can be reused.
Upsert ==
  /\ pass = "embed"
  /\ \/ Invalidate
     \/ EmbedFails /\ UNCHANGED <<symsCache, edgesCache, floor>>
  /\ pass' = "edges"
  /\ UNCHANGED <<symbols, edges, query, taken, began>>

\* SaveEdgeBatch, of the replaced files and of the callers repaired: nothing
\* invalidated.
SaveEdges ==
  /\ pass = "edges"
  /\ edges' = edges + 1
  /\ pass' = "idle"
  /\ UNCHANGED <<symbols, symsCache, edgesCache, query, taken, floor, began>>

-----------------------------------------------------------------------------
(* A query: getGraphMemo takes the edges first and then the symbols.       *)

Begin(q) ==
  /\ query[q] = "idle" /\ QueryMay
  /\ query' = [query EXCEPT ![q] = "edges"]
  /\ began' = [began EXCEPT ![q] = floor]
  /\ UNCHANGED <<symbols, edges, symsCache, edgesCache, pass, taken, floor>>

\* ListAllEdges: from RAM, or one scan under the lock that invalidation takes.
ListAllEdges(q) ==
  /\ query[q] = "edges"
  /\ edgesCache' = IF edgesCache = Unloaded THEN edges ELSE edgesCache
  /\ taken' = [taken EXCEPT ![q].edges = edgesCache']
  /\ query' = [query EXCEPT ![q] = "symbols"]
  /\ UNCHANGED <<symbols, edges, symsCache, pass, floor, began>>

ListSymbolMeta(q) ==
  /\ query[q] = "symbols"
  /\ symsCache' = IF symsCache = Unloaded THEN symbols ELSE symsCache
  /\ taken' = [taken EXCEPT ![q].syms = symsCache']
  /\ query' = [query EXCEPT ![q] = "answer"]
  /\ UNCHANGED <<symbols, edges, edgesCache, pass, floor, began>>

Answer(q) ==
  /\ query[q] = "answer"
  /\ query' = [query EXCEPT ![q] = "idle"]
  /\ UNCHANGED <<symbols, edges, symsCache, edgesCache, pass, taken, floor, began>>

Next ==
  \/ CommitDelete \/ InvalidateDelete \/ SaveSymbols \/ NoSymbols \/ Upsert \/ SaveEdges
  \/ \E q \in Queries : Begin(q) \/ ListAllEdges(q) \/ ListSymbolMeta(q) \/ Answer(q)

Spec == Init /\ [][Next]_vars

-----------------------------------------------------------------------------
\* "Mutations invalidate it through the same hooks as the vec cache"
\* (graphcache.go): a query that begins after a deletion or an upsert has
\* returned is given symbols and edges no older than that.
InvalidationObeyed ==
  \A q \in Queries : query[q] = "answer" =>
    taken[q].syms >= began[q].syms /\ taken[q].edges >= began[q].edges

\* "Symbols/edges mutate through the same write paths as vectors, so the graph
\* cache rides the same invalidation hooks" (veccache.go): between passes, what
\* is cached is what the tables hold.
GraphCurrent ==
  pass = "idle" => /\ symsCache \in {Unloaded, symbols}
                   /\ edgesCache \in {Unloaded, edges}
=============================================================================
