------------------------------- MODULE Store -------------------------------
(***************************************************************************)
(* The store as its callers share it: one *sql.DB, whose pool hands every  *)
(* call a connection, and three kinds of callers inside one process - the  *)
(* indexer (CLI index, or the watcher's passes), the query path, and the   *)
(* embedding backfill.                                                     *)
(*                                                                         *)
(* New runs `PRAGMA foreign_keys = ON` once, through the pool.  The pragma *)
(* is a property of the connection that ran it; database/sql opens another *)
(* connection whenever a call finds none idle, and SQLite opens it with    *)
(* foreign keys off.                                                       *)
(***************************************************************************)
EXTENDS StoreTables, FiniteSets

CONSTANTS
  Indexers,   \* callers that write the tables, one call at a time each
  Readers,    \* callers that only read
  Backfills,  \* callers that list the symbols without a vector and embed them
  Paths,      \* file paths
  Batches,    \* symbol lists a file can have
  Overlap,    \* whether callers run concurrently (the server) or in turn (the CLI)
  MaxCalls,   \* bound on the calls of the indexers
  MaxRounds   \* bound on the calls of readers and backfills

ASSUME StoreAssumption == MaxCalls \in Nat /\ MaxRounds \in Nat /\ Overlap \in BOOLEAN
ASSUME CallersAssumption == Indexers \cap Backfills = {} /\ Readers \cap (Indexers \cup Backfills) = {}
ASSUME BatchAssumption == \A syms \in Batches : Len(syms) \in Nat /\ DOMAIN syms = 1 .. Len(syms)

Clients == Indexers \cup Readers \cup Backfills
MaxIdleConns == 2   \* the default of database/sql

\* What tells one connection from another: whether it enforces foreign keys.
Connections == {"fk_on", "fk_off"}

VARIABLES
  db,       \* the tables
  idle,     \* freeConn: the idle connections, the most recently returned last
  conn,     \* conn[c]: the connection c holds, or "none"
  listed,   \* listed[b]: what a backfill has listed and not yet upserted
  calls, rounds

vars == <<db, idle, conn, listed, calls, rounds>>

\* After New: one connection, the one the pragma ran on.
Init ==
  /\ db = EmptyDB
  /\ idle = <<"fk_on">>
  /\ conn = [c \in Clients |-> "none"]
  /\ listed = [b \in Backfills |-> {}]
  /\ calls = 0 /\ rounds = 0

-----------------------------------------------------------------------------
(* The pool of database/sql, as the store leaves it: no limit on open      *)
(* connections, the most recently returned one reused first.               *)

Grab(c) ==
  /\ conn[c] = "none"
  /\ \/ /\ idle # <<>>
        /\ conn' = [conn EXCEPT ![c] = idle[Len(idle)]]
        /\ idle' = SubSeq(idle, 1, Len(idle) - 1)
     \/ /\ idle = <<>>
        /\ conn' = [conn EXCEPT ![c] = "fk_off"]
        /\ UNCHANGED idle

Return(c) ==
  /\ conn[c] # "none"
  /\ conn' = [conn EXCEPT ![c] = "none"]
  /\ idle' = IF Len(idle) < MaxIdleConns THEN Append(idle, conn[c]) ELSE idle

-----------------------------------------------------------------------------
(* A call takes a connection, runs its transaction, and gives it back.     *)

\* `contextmaxxer index` runs the pass and then the backfill in one goroutine;
\* nothing of another caller is then under way.
MyTurn(c) ==
  \A d \in Clients \ {c} : conn[d] = "none" /\ (d \in Backfills => listed[d] = {})

Begin(c) ==
  /\ Overlap \/ MyTurn(c)
  /\ \/ c \in Indexers /\ calls < MaxCalls /\ calls' = calls + 1 /\ UNCHANGED rounds
     \/ c \notin Indexers /\ rounds < MaxRounds /\ rounds' = rounds + 1 /\ UNCHANGED calls
  /\ Grab(c)
  /\ UNCHANGED <<db, listed>>

\* One mutating call of an indexer, over files and symbols it knows of.
Mutation(fk, result) ==
  \/ \E p \in Paths, h \in {"old", "new"} : result = SaveFile(db, p, h).db
  \/ \E f \in db.files :
        \/ result = DeleteSymbolsByFile(db, f.id, fk).db
        \/ result = DeleteFile(db, f.id, fk).db
        \/ \E syms \in Batches : result = SaveSymbolBatch(db, f.id, syms, fk).db
  \/ \E s, t \in db.symbols : result = SaveEdgeBatch(db, {<<s.id, t.id>>}, fk).db
  \/ \E s \in db.symbols :
        \/ result = UpsertEmbeddingBatch(db, {[id |-> s.id, text |-> s.text]}).db
        \/ /\ s.id \in Ids(db.bodies)
           /\ \/ result = SaveSymbolChunks(db, <<s.id, s.id>>, fk).db
              \/ result = UpsertChunkEmbeddingBatch(db, {[id |-> c.id, text |-> s.text]
                                                        : c \in ChunksOf(db, {s.id})}).db

Mutate(c) ==
  /\ c \in Indexers /\ conn[c] # "none"
  /\ Mutation(conn[c] = "fk_on", db')
  /\ Return(c)
  /\ UNCHANGED <<listed, calls, rounds>>

Read(c) ==
  /\ c \in Readers /\ Return(c)
  /\ UNCHANGED <<db, listed, calls, rounds>>

\* BackfillEmbeddings: the list is taken once; the embedder runs, for seconds
\* or minutes, before the vectors are stored under the listed ids.
BackfillList(c) ==
  /\ c \in Backfills /\ listed[c] = {} /\ Return(c)
  /\ listed' = [listed EXCEPT ![c] = ListSymbolsMissingEmbedding(db)]
  /\ UNCHANGED <<db, calls, rounds>>

BackfillUpsert(c) ==
  /\ c \in Backfills /\ listed[c] # {} /\ Return(c)
  /\ db' = UpsertEmbeddingBatch(db, listed[c]).db
  /\ listed' = [listed EXCEPT ![c] = {}]
  /\ UNCHANGED <<calls, rounds>>

Next ==
  \E c \in Clients : Begin(c) \/ Mutate(c) \/ Read(c) \/ BackfillList(c) \/ BackfillUpsert(c)

Spec == Init /\ [][Next]_vars

-----------------------------------------------------------------------------
TypeOK ==
  /\ DOMAIN db = DOMAIN EmptyDB
  /\ idle \in Seq(Connections) /\ Len(idle) <= MaxIdleConns
  /\ conn \in [Clients -> Connections \cup {"none"}]
  /\ calls \in 0 .. MaxCalls /\ rounds \in 0 .. MaxRounds

\* The references the schema declares hold: an edge joins two symbols, a
\* symbol belongs to a file, a full body and a chunk to a symbol.  "FK
\* constraint should reject" (sqlite_test.go); DeleteFile relies on it to
\* remove the symbols.
ReferencesHold ==
  /\ EdgesResolve(db) /\ SymbolsHaveFile(db)
  /\ BodiesHaveSymbol(db) /\ ChunksHaveSymbol(db)

\* The full-text indexes cover exactly the symbols and the full bodies, or a
\* search would rank rows that no longer exist and miss others.
SearchableExactly == TextIndexMatches(db) /\ BodyIndexMatches(db)

\* "orphaned vectors must be removed explicitly" (sqlite.go): no vector is
\* stored under an id that names no symbol, or no chunk.
NoOrphanVectors == VectorsHaveSymbol(db) /\ ChunkVectorsHaveChunk(db)

\* A vector, a full body and the vector of a chunk belong to the symbol they
\* are stored for, although the ids of symbols and chunks are reused.
OwnContent ==
  \A s \in db.symbols :
     /\ \A v \in db.vecs : v.id = s.id => v.text = s.text
     /\ GetSymbolBody(db, s) = s.text
     /\ \A c \in ChunksOf(db, {s.id}) : \A v \in db.chunkvecs : v.id = c.id => v.text = s.text
=============================================================================
