---------------------------- MODULE StoreTables ----------------------------
(***************************************************************************)
(* The tables of index.db and what each call of the store does to them     *)
(* (store/sqlite/sqlite.go, schema.sql).  Every mutating call runs in one  *)
(* transaction (or is one statement), so a call is a function from the     *)
(* tables before it to its result: [ok |-> FALSE] leaves the tables alone. *)
(*                                                                         *)
(* The parameter fk says whether the connection the call got from the pool *)
(* enforces foreign keys: ON DELETE CASCADE and the checks on insertion    *)
(* happen on such a connection only.                                       *)
(*                                                                         *)
(* text stands for what is derived from a symbol's source: its excerpt,    *)
(* its full body, and the vectors of its embedding text and of its chunks  *)
(* (windows of a long body, which have vectors of their own).              *)
(***************************************************************************)
EXTENDS Naturals, Sequences

EmptyDB == [files |-> {}, symbols |-> {}, bodies |-> {}, edges |-> {}, chunks |-> {},
            vecs |-> {}, chunkvecs |-> {}, fts |-> {}, bodyfts |-> {}]

Ids(rows) == {r.id : r \in rows}

SymbolsOf(db, fid) == {s \in db.symbols : s.file = fid}
ChunksOf(db, ids) == {c \in db.chunks : c.sym \in ids}

\* INTEGER PRIMARY KEY without AUTOINCREMENT: one more than the largest rowid
\* in the table, so the ids of deleted rows come back.
NextId(rows) ==
  IF rows = {} THEN 1 ELSE 1 + (CHOOSE m \in Ids(rows) : \A i \in Ids(rows) : i <= m)

Done(db) == [ok |-> TRUE, db |-> db]
Failed(db) == [ok |-> FALSE, db |-> db]

\* Mutant: symbol_bodies declared without ON DELETE CASCADE.
CascadeKeepsBodies(db, ids, fk) ==
  IF ~fk THEN db
  ELSE [db EXCEPT !.edges = {e \in @ : e[1] \notin ids /\ e[2] \notin ids},
                  !.chunks = @ \ ChunksOf(db, ids)]

\* ON DELETE CASCADE from symbols to edges, symbol_bodies and symbol_chunks.
Cascade(db, ids, fk) ==
  IF ~fk THEN db
  ELSE [db EXCEPT !.edges = {e \in @ : e[1] \notin ids /\ e[2] \notin ids},
                  !.bodies = {b \in @ : b.id \notin ids},
                  !.chunks = @ \ ChunksOf(db, ids)]

\* Mutant: the full-text rows stay.
UnindexKeepsText(db, ids) ==
  [db EXCEPT !.vecs = {v \in @ : v.id \notin ids},
             !.chunkvecs = {v \in @ : v.id \notin Ids(ChunksOf(db, ids))}]

\* Mutant: the vectors of the chunks stay, as if the cascade reached them.
UnindexKeepsChunks(db, ids) ==
  [db EXCEPT !.fts = @ \ ids, !.bodyfts = @ \ (ids \cap Ids(db.bodies)),
             !.vecs = {v \in @ : v.id \notin ids}]

\* What no cascade reaches, deleted first: full-text rows and vectors.
Unindex(db, ids) ==
  [db EXCEPT !.fts = @ \ ids, !.bodyfts = @ \ (ids \cap Ids(db.bodies)),
             !.vecs = {v \in @ : v.id \notin ids},
             !.chunkvecs = {v \in @ : v.id \notin Ids(ChunksOf(db, ids))}]

\* UPDATE of the row with this path, or INSERT.
SaveFile(db, path, hash) ==
  LET old == {f \in db.files : f.path = path}
      id  == IF old = {} THEN NextId(db.files) ELSE (CHOOSE f \in old : TRUE).id
  IN [id |-> id,
      db |-> [db EXCEPT !.files = (@ \ old) \cup {[id |-> id, path |-> path, hash |-> hash]}]]

DeleteSymbolsByFile(db, fid, fk) ==
  LET ids == Ids(SymbolsOf(db, fid))
  IN Done(Cascade([Unindex(db, ids) EXCEPT !.symbols = @ \ SymbolsOf(db, fid)], ids, fk))

\* Mutant: the files row goes, the cascade does not follow.
DeleteFileOnly(db, fid, fk) ==
  Done([Unindex(db, Ids(SymbolsOf(db, fid))) EXCEPT !.files = {f \in @ : f.id # fid}])

\* The symbols themselves go by cascade from files.
DeleteFile(db, fid, fk) ==
  LET ids  == Ids(SymbolsOf(db, fid))
      rest == [Unindex(db, ids) EXCEPT !.files = {f \in @ : f.id # fid}]
  IN Done(IF fk THEN Cascade([rest EXCEPT !.symbols = @ \ SymbolsOf(db, fid)], ids, fk)
                ELSE rest)

\* The symbols of one file, in source order: each has a name, a text, and is
\* long when its searchable excerpt is lossy and the full body is kept apart.
\* A body row left under a reused id makes the whole batch fail.
SaveSymbolBatch(db, fid, syms, fk) ==
  LET id(i) == NextId(db.symbols) + i - 1
      rows  == {[id |-> id(i), file |-> fid, name |-> syms[i].name, text |-> syms[i].text]
                  : i \in DOMAIN syms}
      long  == {[id |-> id(i), text |-> syms[i].text] : i \in {j \in DOMAIN syms : syms[j].long}}
  IN IF \/ fk /\ fid \notin Ids(db.files)
        \/ Ids(long) \cap Ids(db.bodies) # {}
     THEN Failed(db)
     ELSE Done([db EXCEPT !.symbols = @ \cup rows, !.bodies = @ \cup long,
                          !.fts = @ \cup Ids(rows), !.bodyfts = @ \cup Ids(long)])

\* INSERT OR IGNORE: a duplicate is skipped, a dangling endpoint is an error
\* that rolls the whole batch back.
SaveEdgeBatch(db, edges, fk) ==
  IF fk /\ \E e \in edges : e[1] \notin Ids(db.symbols) \/ e[2] \notin Ids(db.symbols)
  THEN Failed(db)
  ELSE Done([db EXCEPT !.edges = @ \cup edges])

\* The windows of long symbols: syms[i] is the symbol the i-th one belongs to.
SaveSymbolChunks(db, syms, fk) ==
  IF fk /\ \E i \in DOMAIN syms : syms[i] \notin Ids(db.symbols)
  THEN Failed(db)
  ELSE Done([db EXCEPT !.chunks = @ \cup {[id |-> NextId(db.chunks) + i - 1, sym |-> syms[i]]
                                           : i \in DOMAIN syms}])

\* symbol_chunk_vec and symbol_vec are virtual tables: no foreign key reaches them.
UpsertChunkEmbeddingBatch(db, embeddings) ==
  Done([db EXCEPT !.chunkvecs = {v \in @ : v.id \notin Ids(embeddings)} \cup embeddings])

UpsertEmbeddingBatch(db, embeddings) ==
  Done([db EXCEPT !.vecs = {v \in @ : v.id \notin Ids(embeddings)} \cup embeddings])

ListSymbolsMissingEmbedding(db) ==
  {[id |-> s.id, text |-> s.text] :
     s \in {t \in db.symbols : t.id \notin Ids(db.vecs) /\ t.file \in Ids(db.files)}}

\* GetSymbolBody: the full body when there is one, the excerpt otherwise.
GetSymbolBody(db, s) ==
  LET full == {b \in db.bodies : b.id = s.id}
  IN IF full = {} THEN s.text ELSE (CHOOSE b \in full : TRUE).text

-----------------------------------------------------------------------------
(* What the schema declares.                                               *)

EdgesResolve(db) ==
  \A e \in db.edges : e[1] \in Ids(db.symbols) /\ e[2] \in Ids(db.symbols)
SymbolsHaveFile(db) == \A s \in db.symbols : s.file \in Ids(db.files)
BodiesHaveSymbol(db) == Ids(db.bodies) \subseteq Ids(db.symbols)
ChunksHaveSymbol(db) == \A c \in db.chunks : c.sym \in Ids(db.symbols)
VectorsHaveSymbol(db) == Ids(db.vecs) \subseteq Ids(db.symbols)
ChunkVectorsHaveChunk(db) == Ids(db.chunkvecs) \subseteq Ids(db.chunks)
TextIndexMatches(db) == db.fts = Ids(db.symbols)
BodyIndexMatches(db) == db.bodyfts = Ids(db.bodies)
=============================================================================
