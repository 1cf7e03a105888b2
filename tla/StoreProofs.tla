---------------------------- MODULE StoreProofs ----------------------------
(***************************************************************************)
(* The references of the tables (module Store), for every set of callers,  *)
(* paths and symbols and every number of calls.                            *)
(*                                                                         *)
(* Each call of StoreTables keeps the references when the connection that  *)
(* runs it enforces foreign keys (lemmas ...Keeps).  Callers that take     *)
(* turns never need a second connection (OneConnection), and the first one *)
(* is the connection New configured, so the references always hold.  What  *)
(* a backfill listed still exists when it is stored because nobody else    *)
(* runs in between (ListedExist).                                          *)
(***************************************************************************)
EXTENDS Store, Integers, SequenceTheorems, WellFoundedInduction, TLAPS

IsDB(d) == d = [files |-> d.files, symbols |-> d.symbols, bodies |-> d.bodies,
                edges |-> d.edges, chunks |-> d.chunks, vecs |-> d.vecs,
                chunkvecs |-> d.chunkvecs, fts |-> d.fts, bodyfts |-> d.bodyfts]

\* files.path is UNIQUE.
PathsUnique(d) == \A f, g \in d.files : f.path = g.path => f = g

\* id is the primary key.
IdsUnique(rows) == \A r, q \in rows : r.id = q.id => r = q

\* Only finitely many rows, said without counting them.
IdsBounded(rows) ==
  /\ Ids(rows) \subseteq Nat
  /\ \E n \in Nat : \A i \in Ids(rows) : i <= n

Keyed(d) ==
  /\ IdsUnique(d.symbols) /\ IdsBounded(d.symbols)
  /\ IdsUnique(d.chunks) /\ IdsBounded(d.chunks)

\* OwnContent, for one state of the tables and without CHOOSE.
ContentMatches(d) ==
  \A s \in d.symbols : /\ \A v \in d.vecs : v.id = s.id => v.text = s.text
                       /\ \A b \in d.bodies : b.id = s.id => b.text = s.text

ChunkContentMatches(d) ==
  \A s \in d.symbols, c \in d.chunks, v \in d.chunkvecs :
    c.sym = s.id /\ v.id = c.id => v.text = s.text

Sound(d) ==
  /\ IsDB(d) /\ PathsUnique(d) /\ Keyed(d)
  /\ EdgesResolve(d) /\ SymbolsHaveFile(d) /\ BodiesHaveSymbol(d) /\ ChunksHaveSymbol(d)
  /\ TextIndexMatches(d) /\ BodyIndexMatches(d)
  /\ VectorsHaveSymbol(d) /\ ChunkVectorsHaveChunk(d)
  /\ ContentMatches(d) /\ ChunkContentMatches(d)

\* Rows that carry the id and the text of a symbol.
FromSymbols(rows, d) == \A r \in rows : \E s \in d.symbols : r.id = s.id /\ r.text = s.text

OneConnection ==
  \/ idle = <<"fk_on">> /\ \A c \in Clients : conn[c] = "none"
  \/ idle = <<>> /\ \E c \in Clients : /\ conn[c] = "fk_on"
                                       /\ \A d \in Clients \ {c} : conn[d] = "none"

\* While one backfill has something listed, nobody else holds a connection.
ListedExist ==
  \A b \in Backfills : /\ FromSymbols(listed[b], db)
                       /\ listed[b] # {} => \A c \in Clients \ {b} : conn[c] = "none"

TableInv ==
  /\ Sound(db) /\ OneConnection /\ ListedExist
  /\ DOMAIN conn = Clients /\ conn = [c \in Clients |-> conn[c]]
  /\ listed = [b \in Backfills |-> listed[b]]

-----------------------------------------------------------------------------
(* The id of a new row is fresh.                                           *)

\* A nonempty set of naturals has a least element.
LEMMA Least ==
  ASSUME NEW B \in SUBSET Nat, B # {}
  PROVE  \E m \in B : \A n \in B : m <= n
<1> DEFINE R == OpToRel(<, Nat)
<1>1. \E x \in B : \A y \in B : ~(<<y, x>> \in R)
  <2>1. IsWellFoundedOn(R, Nat)
    BY NatLessThanWellFounded
  <2> QED BY <2>1, WFMin, Zenon
<1>2. \A x, y \in Nat : y < x => <<y, x>> \in R
  BY DEF OpToRel
<1> HIDE DEF R
<1>3. PICK x \in B : \A y \in B : ~(<<y, x>> \in R)
  BY <1>1
<1>4. ASSUME NEW y \in B PROVE x <= y
  <2>1. x \in Nat /\ y \in Nat
    OBVIOUS
  <2>2. ~(y < x)
    BY <2>1, <1>2, <1>3
  <2> QED BY <2>1, <2>2
<1> QED BY <1>4

\* A bounded nonempty set of naturals has a largest element.
LEMMA Largest ==
  ASSUME NEW I \in SUBSET Nat, I # {}, NEW n \in Nat, \A i \in I : i <= n
  PROVE  \E m \in I : \A i \in I : i <= m
<1> DEFINE B == {k \in Nat : \A i \in I : i <= k}
<1>1. PICK m \in B : \A k \in B : m <= k
  <2>1. n \in B
    OBVIOUS
  <2> QED BY <2>1, Least
<1>2. m \in Nat /\ \A i \in I : i <= m
  OBVIOUS
<1>3. m \in I
  <2> SUFFICES ASSUME m \notin I PROVE FALSE
    OBVIOUS
  <2>1. \A i \in I : i <= m - 1
    BY <1>2
  <2>2. m - 1 \in Nat
    <3>1. PICK i \in I : TRUE
      OBVIOUS
    <3>2. i \in Nat /\ i <= m - 1
      BY <2>1
    <3> QED BY <3>2, <1>2
  <2>3. m - 1 \in B
    BY <2>1, <2>2
  <2> QED BY <2>3, <1>1, <1>2
<1> QED BY <1>2, <1>3

\* NextId is above every id in use.
LEMMA NextIdFresh ==
  ASSUME NEW rows, IdsBounded(rows)
  PROVE  NextId(rows) \in Nat /\ \A i \in Ids(rows) : i < NextId(rows)
<1> DEFINE I == Ids(rows)
           m == CHOOSE k \in I : \A i \in I : i <= k
<1>1. CASE rows = {}
  BY <1>1 DEF NextId, Ids
<1>2. CASE rows # {}
  <2>1. I # {}
    BY <1>2 DEF Ids
  <2>2. \E k \in I : \A i \in I : i <= k
    BY <2>1, Largest DEF IdsBounded
  <2>3. m \in I /\ \A i \in I : i <= m
    BY <2>2
  <2>4. NextId(rows) = 1 + m
    BY <1>2 DEF NextId
  <2>5. I \in SUBSET Nat
    BY DEF IdsBounded
  <2> HIDE DEF m, I
  <2>6. m \in Nat /\ \A i \in I : i \in Nat
    BY <2>3, <2>5
  <2>7. \A i \in I : i < 1 + m
    BY <2>3, <2>6
  <2>8. \A i \in Ids(rows) : i < 1 + m
    BY <2>7 DEF I
  <2> QED BY <2>4, <2>6, <2>8
<1> QED BY <1>1, <1>2

\* Rows added with ids from NextId on keep the table keyed, and have ids that
\* none of the old rows has.
LEMMA FreshRows ==
  ASSUME NEW old, IdsUnique(old), IdsBounded(old), NEW n \in Nat,
         NEW rows, IdsUnique(rows), \A r \in rows : r.id \in NextId(old) .. NextId(old) + n
  PROVE  /\ IdsUnique(old \cup rows) /\ IdsBounded(old \cup rows)
         /\ \A r \in rows, q \in old : r.id # q.id
<1> DEFINE base == NextId(old)
<1>1. base \in Nat /\ \A i \in Ids(old) : i < base
  BY NextIdFresh
<1>2. \A r \in rows : r.id \in base .. base + n
  OBVIOUS
<1> HIDE DEF base
<1>3. ASSUME NEW r \in rows, NEW q \in old PROVE r.id # q.id
  <2>1. q.id \in Nat /\ q.id < base
    BY <1>1 DEF Ids, IdsBounded
  <2>2. r.id \in Int /\ r.id >= base
    BY <1>1, <1>2
  <2> QED BY <2>1, <2>2, <1>1
<1>4. IdsUnique(old \cup rows)
  BY <1>3 DEF IdsUnique
<1>5. IdsBounded(old \cup rows)
  <2>1. \A i \in Ids(old) : i \in Nat /\ i <= base + n
    BY <1>1 DEF IdsBounded
  <2>2. \A i \in Ids(rows) : i \in Nat /\ i <= base + n
    BY <1>1, <1>2 DEF Ids
  <2>3. Ids(old \cup rows) = Ids(old) \cup Ids(rows)
    BY DEF Ids
  <2>4. base + n \in Nat
    BY <1>1
  <2> QED BY <2>1, <2>2, <2>3, <2>4 DEF IdsBounded
<1> QED BY <1>3, <1>4, <1>5

-----------------------------------------------------------------------------
(* The calls, on a connection that enforces foreign keys.                  *)

\* SaveFile updates the row of its path or adds one, and touches nothing else.
LEMMA SaveFileKeeps ==
  ASSUME NEW d, Sound(d), NEW p, NEW h
  PROVE  Sound(SaveFile(d, p, h).db)
<1> DEFINE old == {f \in d.files : f.path = p}
           id  == IF old = {} THEN NextId(d.files) ELSE (CHOOSE f \in old : TRUE).id
           row == [id |-> id, path |-> p, hash |-> h]
           new == SaveFile(d, p, h).db
<1>1. new = [d EXCEPT !.files = (d.files \ old) \cup {row}]
  BY DEF SaveFile
<1>2. ASSUME NEW f \in old PROVE row.id = f.id
  <2>1. (CHOOSE g \in old : TRUE) \in old
    BY <1>2
  <2>2. (CHOOSE g \in old : TRUE) = f
    BY <2>1 DEF Sound, PathsUnique
  <2> QED BY <2>2
<1>3. row.path = p
  OBVIOUS
<1> HIDE DEF id, new, row
<1>4. /\ IsDB(new) /\ new.files = (d.files \ old) \cup {row} /\ new.symbols = d.symbols
      /\ new.bodies = d.bodies /\ new.edges = d.edges /\ new.chunks = d.chunks
      /\ new.vecs = d.vecs /\ new.chunkvecs = d.chunkvecs
      /\ new.fts = d.fts /\ new.bodyfts = d.bodyfts
  BY <1>1 DEF Sound, IsDB
<1>5. SymbolsHaveFile(new)
  BY <1>2, <1>4 DEF Sound, SymbolsHaveFile, Ids
<1>6. PathsUnique(new)
  BY <1>3, <1>4 DEF Sound, PathsUnique
<1>7. /\ EdgesResolve(new) /\ BodiesHaveSymbol(new) /\ ChunksHaveSymbol(new)
      /\ TextIndexMatches(new) /\ BodyIndexMatches(new)
      /\ VectorsHaveSymbol(new) /\ ChunkVectorsHaveChunk(new)
  BY <1>4 DEF Sound, EdgesResolve, BodiesHaveSymbol, ChunksHaveSymbol, TextIndexMatches,
              BodyIndexMatches, VectorsHaveSymbol, ChunkVectorsHaveChunk
<1>8. Keyed(new) /\ ContentMatches(new) /\ ChunkContentMatches(new)
  BY <1>4 DEF Sound, Keyed, ContentMatches, ChunkContentMatches
<1> QED BY <1>4, <1>5, <1>6, <1>7, <1>8 DEF Sound, new

\* Deleting rows of symbols together with everything that refers to them.
LEMMA RemovalKeeps ==
  ASSUME NEW d, Sound(d), NEW gone \in SUBSET d.symbols, NEW new, IsDB(new),
         new.symbols = d.symbols \ gone,
         new.fts = d.fts \ Ids(gone),
         new.bodyfts = d.bodyfts \ (Ids(gone) \cap Ids(d.bodies)),
         new.vecs = {v \in d.vecs : v.id \notin Ids(gone)},
         new.chunkvecs = {v \in d.chunkvecs : v.id \notin Ids(ChunksOf(d, Ids(gone)))},
         new.edges = {e \in d.edges : e[1] \notin Ids(gone) /\ e[2] \notin Ids(gone)},
         new.bodies = {b \in d.bodies : b.id \notin Ids(gone)},
         new.chunks = d.chunks \ ChunksOf(d, Ids(gone)),
         PathsUnique(new), SymbolsHaveFile(new)
  PROVE  Sound(new)
<1>1. Ids(new.symbols) = Ids(d.symbols) \ Ids(gone)
  BY DEF Ids, Sound, Keyed, IdsUnique
<1>2. EdgesResolve(new)
  BY <1>1 DEF Sound, EdgesResolve
<1>3. BodiesHaveSymbol(new)
  BY <1>1 DEF Sound, BodiesHaveSymbol, Ids
<1>4. TextIndexMatches(new)
  BY <1>1 DEF Sound, TextIndexMatches
<1>5. VectorsHaveSymbol(new)
  BY <1>1 DEF Sound, VectorsHaveSymbol, Ids
<1>6. Keyed(new)
  <2>1. new.symbols \subseteq d.symbols /\ new.chunks \subseteq d.chunks
    OBVIOUS
  <2>2. Ids(new.symbols) \subseteq Ids(d.symbols) /\ Ids(new.chunks) \subseteq Ids(d.chunks)
    BY <2>1 DEF Ids
  <2> QED BY <2>1, <2>2 DEF Sound, Keyed, IdsUnique, IdsBounded
<1>7. ContentMatches(new) /\ ChunkContentMatches(new)
  BY DEF Sound, ContentMatches, ChunkContentMatches
<1>8. ChunksHaveSymbol(new)
  BY <1>1 DEF Sound, ChunksHaveSymbol, ChunksOf
<1>9. ChunkVectorsHaveChunk(new)
  <2>1. Ids(new.chunks) = Ids(d.chunks) \ Ids(ChunksOf(d, Ids(gone)))
    BY DEF Ids, Sound, Keyed, IdsUnique, ChunksOf
  <2> QED BY <2>1 DEF Sound, ChunkVectorsHaveChunk, Ids
<1>10. BodyIndexMatches(new)
  <2>1. Ids(new.bodies) = Ids(d.bodies) \ Ids(gone)
    BY DEF Ids
  <2> QED BY <2>1 DEF Sound, BodyIndexMatches
<1> QED BY <1>2, <1>3, <1>4, <1>5, <1>6, <1>7, <1>8, <1>9, <1>10 DEF Sound

\* DeleteSymbolsByFile removes exactly the symbols of one file, with all that hangs on them.
LEMMA DeleteSymbolsByFileKeeps ==
  ASSUME NEW d, Sound(d), NEW fid
  PROVE  Sound(DeleteSymbolsByFile(d, fid, TRUE).db)
<1> DEFINE gone == SymbolsOf(d, fid)
           new == DeleteSymbolsByFile(d, fid, TRUE).db
<1>1. /\ IsDB(new) /\ new.files = d.files /\ new.symbols = d.symbols \ gone
      /\ new.fts = d.fts \ Ids(gone)
      /\ new.bodyfts = d.bodyfts \ (Ids(gone) \cap Ids(d.bodies))
      /\ new.vecs = {v \in d.vecs : v.id \notin Ids(gone)}
      /\ new.chunkvecs = {v \in d.chunkvecs : v.id \notin Ids(ChunksOf(d, Ids(gone)))}
      /\ new.edges = {e \in d.edges : e[1] \notin Ids(gone) /\ e[2] \notin Ids(gone)}
      /\ new.bodies = {b \in d.bodies : b.id \notin Ids(gone)}
      /\ new.chunks = d.chunks \ ChunksOf(d, Ids(gone))
  BY DEF DeleteSymbolsByFile, Unindex, Cascade, ChunksOf, Done, Sound, IsDB
<1>2. gone \in SUBSET d.symbols
  BY DEF SymbolsOf
<1> HIDE DEF new, gone
<1>3. PathsUnique(new) /\ SymbolsHaveFile(new)
  BY <1>1 DEF Sound, PathsUnique, SymbolsHaveFile
<1>4. Sound(new)
  BY <1>1, <1>2, <1>3, RemovalKeeps
<1> QED BY <1>4 DEF new

\* DeleteFile removes the file row as well.
LEMMA DeleteFileKeeps ==
  ASSUME NEW d, Sound(d), NEW fid
  PROVE  Sound(DeleteFile(d, fid, TRUE).db)
<1> DEFINE gone == SymbolsOf(d, fid)
           new == DeleteFile(d, fid, TRUE).db
<1>1. /\ IsDB(new) /\ new.files = {f \in d.files : f.id # fid}
      /\ new.symbols = d.symbols \ gone
      /\ new.fts = d.fts \ Ids(gone)
      /\ new.bodyfts = d.bodyfts \ (Ids(gone) \cap Ids(d.bodies))
      /\ new.vecs = {v \in d.vecs : v.id \notin Ids(gone)}
      /\ new.chunkvecs = {v \in d.chunkvecs : v.id \notin Ids(ChunksOf(d, Ids(gone)))}
      /\ new.edges = {e \in d.edges : e[1] \notin Ids(gone) /\ e[2] \notin Ids(gone)}
      /\ new.bodies = {b \in d.bodies : b.id \notin Ids(gone)}
      /\ new.chunks = d.chunks \ ChunksOf(d, Ids(gone))
  BY DEF DeleteFile, Unindex, Cascade, ChunksOf, Done, Sound, IsDB
<1>2. gone \in SUBSET d.symbols
  BY DEF SymbolsOf
<1>3. \A s \in d.symbols \ gone : s.file # fid
  BY DEF SymbolsOf
<1> HIDE DEF new, gone
<1>4. PathsUnique(new)
  BY <1>1 DEF Sound, PathsUnique
<1>5. SymbolsHaveFile(new)
  BY <1>1, <1>3 DEF Sound, SymbolsHaveFile, Ids
<1>6. Sound(new)
  BY <1>1, <1>2, <1>4, <1>5, RemovalKeeps
<1> QED BY <1>6 DEF new

\* New symbols get fresh ids, so nothing stored earlier is taken for theirs.
LEMMA SaveSymbolBatchKeeps ==
  ASSUME NEW d, Sound(d), NEW fid \in Ids(d.files),
         NEW syms, Len(syms) \in Nat, DOMAIN syms = 1 .. Len(syms)
  PROVE  Sound(SaveSymbolBatch(d, fid, syms, TRUE).db)
<1> DEFINE n == Len(syms)
           base == NextId(d.symbols)
           row(i) == [id |-> base + i - 1, file |-> fid, name |-> syms[i].name, text |-> syms[i].text]
           body(i) == [id |-> base + i - 1, text |-> syms[i].text]
           rows == {row(i) : i \in 1 .. n}
           long == {body(i) : i \in {j \in 1 .. n : syms[j].long}}
           new == SaveSymbolBatch(d, fid, syms, TRUE).db
<1>1. CASE Ids(long) \cap Ids(d.bodies) # {}
  BY <1>1 DEF SaveSymbolBatch, Failed
<1>2. CASE Ids(long) \cap Ids(d.bodies) = {}
  <2>1. /\ IsDB(new) /\ new.files = d.files /\ new.edges = d.edges
        /\ new.chunks = d.chunks /\ new.vecs = d.vecs /\ new.chunkvecs = d.chunkvecs
        /\ new.symbols = d.symbols \cup rows
        /\ new.bodies = d.bodies \cup long
        /\ new.fts = d.fts \cup Ids(rows)
        /\ new.bodyfts = d.bodyfts \cup Ids(long)
    BY <1>2 DEF SaveSymbolBatch, Done, Sound, IsDB
  <2>2. /\ IdsUnique(d.symbols \cup rows) /\ IdsBounded(d.symbols \cup rows)
        /\ \A r \in rows, s \in d.symbols : r.id # s.id
    <3>1. n \in Nat /\ base \in Nat /\ IdsUnique(d.symbols) /\ IdsBounded(d.symbols)
      BY NextIdFresh DEF Sound, Keyed
    <3> HIDE DEF base, n
    <3>2. ASSUME NEW r \in rows PROVE r.id \in base .. base + n
      <4>1. PICK i \in 1 .. n : r = row(i)
        OBVIOUS
      <4>2. r.id = base + i - 1
        BY <4>1
      <4> QED BY <4>2, <3>1
    <3>3. ASSUME NEW r \in rows, NEW q \in rows, r.id = q.id PROVE r = q
      <4>1. PICK i \in 1 .. n : r = row(i)
        OBVIOUS
      <4>2. PICK j \in 1 .. n : q = row(j)
        OBVIOUS
      <4>3. base + i - 1 = base + j - 1
        BY <3>3, <4>1, <4>2
      <4>4. i = j
        BY <4>3, <3>1
      <4> QED BY <4>1, <4>2, <4>4
    <3> HIDE DEF rows
    <3>4. IdsUnique(rows)
      BY <3>3 DEF IdsUnique
    <3>5. \A r \in rows : r.id \in NextId(d.symbols) .. NextId(d.symbols) + n
      BY <3>2 DEF base
    <3> QED BY <3>1, <3>4, <3>5, FreshRows
  <2>3. \A b \in long : \E r \in rows : r.id = b.id /\ r.text = b.text
    <3> SUFFICES ASSUME NEW b \in long PROVE \E r \in rows : r.id = b.id /\ r.text = b.text
      OBVIOUS
    <3>1. PICK i \in {j \in 1 .. n : syms[j].long} : b = body(i)
      OBVIOUS
    <3>2. row(i) \in rows /\ row(i).id = b.id /\ row(i).text = b.text
      BY <3>1
    <3> QED BY <3>2
  <2>4. \A r \in rows : r.file = fid
    OBVIOUS
  <2> HIDE DEF rows, long, n, base, new
  <2>5. Ids(new.symbols) = Ids(d.symbols) \cup Ids(rows) /\ Ids(new.bodies) = Ids(d.bodies) \cup Ids(long)
    BY <2>1 DEF Ids
  <2>6. Keyed(new)
    BY <2>1, <2>2 DEF Sound, Keyed
  <2>7. SymbolsHaveFile(new)
    BY <2>1, <2>4 DEF Sound, SymbolsHaveFile
  <2>8. EdgesResolve(new) /\ VectorsHaveSymbol(new) /\ ChunksHaveSymbol(new) /\ ChunkVectorsHaveChunk(new)
    BY <2>1, <2>5 DEF Sound, EdgesResolve, VectorsHaveSymbol, ChunksHaveSymbol, ChunkVectorsHaveChunk
  <2>9. BodiesHaveSymbol(new)
    <3>1. Ids(long) \subseteq Ids(rows)
      BY <2>3 DEF Ids
    <3> QED BY <3>1, <2>5 DEF Sound, BodiesHaveSymbol
  <2>10. TextIndexMatches(new) /\ BodyIndexMatches(new)
    BY <2>1, <2>5 DEF Sound, TextIndexMatches, BodyIndexMatches
  <2>11. ContentMatches(new)
    <3> SUFFICES ASSUME NEW s \in new.symbols
                 PROVE  /\ \A v \in new.vecs : v.id = s.id => v.text = s.text
                        /\ \A b \in new.bodies : b.id = s.id => b.text = s.text
      BY DEF ContentMatches
    <3>1. \A v \in d.vecs : \E t \in d.symbols : v.id = t.id
      <4>1. \A v \in d.vecs : v.id \in Ids(d.symbols)
        BY DEF Sound, VectorsHaveSymbol, Ids
      <4> QED BY <4>1 DEF Ids
    <3>2. \A b \in d.bodies : \E t \in d.symbols : b.id = t.id
      BY DEF Sound, BodiesHaveSymbol, Ids
    <3>3. CASE s \in d.symbols
      BY <3>3, <2>1, <2>2, <2>3 DEF Sound, ContentMatches
    <3>4. CASE s \in rows
      <4>1. \A v \in d.vecs : v.id # s.id
        BY <3>1, <3>4, <2>2
      <4>2. \A b \in d.bodies : b.id # s.id
        BY <3>2, <3>4, <2>2
      <4>3. \A r \in rows : r.id = s.id => r = s
        BY <3>4, <2>2 DEF IdsUnique
      <4>4. \A b \in long : b.id = s.id => b.text = s.text
        BY <4>3, <2>3
      <4> QED BY <4>1, <4>2, <4>4, <2>1
    <3> QED BY <3>3, <3>4, <2>1
  <2>12. ChunkContentMatches(new)
    <3>1. \A c \in d.chunks : \E t \in d.symbols : c.sym = t.id
      BY DEF Sound, ChunksHaveSymbol, Ids
    <3>2. \A s \in rows, c \in d.chunks : c.sym # s.id
      BY <3>1, <2>2
    <3> QED BY <3>2, <2>1 DEF Sound, ChunkContentMatches
  <2>13. PathsUnique(new)
    BY <2>1 DEF Sound, PathsUnique
  <2>14. Sound(new)
    BY <2>1, <2>6, <2>7, <2>8, <2>9, <2>10, <2>11, <2>12, <2>13 DEF Sound
  <2> QED BY <2>14 DEF new
<1> QED BY <1>1, <1>2

\* A batch of edges goes in whole, or not at all when an endpoint is missing.
LEMMA SaveEdgeBatchKeeps ==
  ASSUME NEW d, Sound(d), NEW edges
  PROVE  Sound(SaveEdgeBatch(d, edges, TRUE).db)
<1> DEFINE new == SaveEdgeBatch(d, edges, TRUE).db
<1>1. CASE \E e \in edges : e[1] \notin Ids(d.symbols) \/ e[2] \notin Ids(d.symbols)
  BY <1>1 DEF SaveEdgeBatch, Failed
<1>2. CASE \A e \in edges : e[1] \in Ids(d.symbols) /\ e[2] \in Ids(d.symbols)
  <2>1. /\ IsDB(new) /\ new.edges = d.edges \cup edges
        /\ new.files = d.files /\ new.symbols = d.symbols /\ new.bodies = d.bodies
        /\ new.chunks = d.chunks /\ new.vecs = d.vecs /\ new.chunkvecs = d.chunkvecs
        /\ new.fts = d.fts /\ new.bodyfts = d.bodyfts
    BY <1>2 DEF SaveEdgeBatch, Done, Sound, IsDB
  <2> HIDE DEF new
  <2>2. EdgesResolve(new)
    BY <1>2, <2>1 DEF Sound, EdgesResolve
  <2>3. /\ PathsUnique(new) /\ Keyed(new) /\ SymbolsHaveFile(new) /\ BodiesHaveSymbol(new)
        /\ ChunksHaveSymbol(new) /\ TextIndexMatches(new) /\ BodyIndexMatches(new)
        /\ VectorsHaveSymbol(new) /\ ChunkVectorsHaveChunk(new)
        /\ ContentMatches(new) /\ ChunkContentMatches(new)
    BY <2>1 DEF Sound, PathsUnique, Keyed, SymbolsHaveFile, BodiesHaveSymbol, ChunksHaveSymbol,
                TextIndexMatches, BodyIndexMatches, VectorsHaveSymbol, ChunkVectorsHaveChunk,
                ContentMatches, ChunkContentMatches
  <2>4. Sound(new)
    BY <2>1, <2>2, <2>3 DEF Sound
  <2> QED BY <2>4 DEF new
<1> QED BY <1>1, <1>2

\* Vectors of existing symbols, computed from their present text.
LEMMA UpsertEmbeddingBatchKeeps ==
  ASSUME NEW d, Sound(d), NEW rows, FromSymbols(rows, d)
  PROVE  Sound(UpsertEmbeddingBatch(d, rows).db)
<1> DEFINE new == UpsertEmbeddingBatch(d, rows).db
<1>1. /\ IsDB(new) /\ new.vecs = {v \in d.vecs : v.id \notin Ids(rows)} \cup rows
      /\ new.files = d.files /\ new.symbols = d.symbols /\ new.bodies = d.bodies
      /\ new.chunks = d.chunks /\ new.edges = d.edges /\ new.chunkvecs = d.chunkvecs
      /\ new.fts = d.fts /\ new.bodyfts = d.bodyfts
  BY DEF UpsertEmbeddingBatch, Done, Sound, IsDB
<1> HIDE DEF new
<1>2. VectorsHaveSymbol(new)
  BY <1>1 DEF Sound, VectorsHaveSymbol, FromSymbols, Ids
<1>3. ContentMatches(new)
  BY <1>1 DEF Sound, ContentMatches, FromSymbols, Keyed, IdsUnique
<1>4. /\ PathsUnique(new) /\ Keyed(new) /\ SymbolsHaveFile(new) /\ BodiesHaveSymbol(new)
      /\ ChunksHaveSymbol(new) /\ TextIndexMatches(new) /\ BodyIndexMatches(new)
      /\ EdgesResolve(new) /\ ChunkVectorsHaveChunk(new) /\ ChunkContentMatches(new)
  BY <1>1 DEF Sound, PathsUnique, Keyed, SymbolsHaveFile, BodiesHaveSymbol, ChunksHaveSymbol,
              TextIndexMatches, BodyIndexMatches, EdgesResolve, ChunkVectorsHaveChunk,
              ChunkContentMatches
<1>5. Sound(new)
  BY <1>1, <1>2, <1>3, <1>4 DEF Sound
<1> QED BY <1>5 DEF new

\* The windows of one symbol get fresh ids, so no vector of another window is
\* taken for theirs.
LEMMA SaveSymbolChunksKeeps ==
  ASSUME NEW d, Sound(d), NEW s \in d.symbols
  PROVE  Sound(SaveSymbolChunks(d, <<s.id, s.id>>, TRUE).db)
<1> DEFINE base == NextId(d.chunks)
           rows == {[id |-> base, sym |-> s.id], [id |-> base + 1, sym |-> s.id]}
           syms == <<s.id, s.id>>
           new == SaveSymbolChunks(d, syms, TRUE).db
<1>1. base \in Nat
  BY NextIdFresh DEF Sound, Keyed
<1>2. s.id \in Ids(d.symbols)
  BY DEF Ids
<1>3. {[id |-> base + i - 1, sym |-> syms[i]] : i \in DOMAIN syms} = rows
  <2>1. DOMAIN syms = {1, 2} /\ syms[1] = s.id /\ syms[2] = s.id
    OBVIOUS
  <2>2. base + 1 - 1 = base /\ base + 2 - 1 = base + 1
    BY <1>1
  <2> HIDE DEF syms, base
  <2> QED BY <2>1, <2>2
<1>4. \A i \in DOMAIN syms : syms[i] = s.id
  OBVIOUS
<1>5. new = [d EXCEPT !.chunks = d.chunks \cup rows]
  <2> HIDE DEF rows, syms
  <2> QED BY <1>2, <1>3, <1>4 DEF SaveSymbolChunks, Done
<1>6. /\ IsDB(new) /\ new.chunks = d.chunks \cup rows
      /\ new.files = d.files /\ new.symbols = d.symbols /\ new.bodies = d.bodies
      /\ new.edges = d.edges /\ new.vecs = d.vecs /\ new.chunkvecs = d.chunkvecs
      /\ new.fts = d.fts /\ new.bodyfts = d.bodyfts
  <2> HIDE DEF new, rows
  <2> QED BY <1>5 DEF Sound, IsDB
<1>7. /\ IdsUnique(d.chunks \cup rows) /\ IdsBounded(d.chunks \cup rows)
      /\ \A r \in rows, c \in d.chunks : r.id # c.id
  <2>1. IdsUnique(rows)
    BY <1>1 DEF IdsUnique
  <2>2. \A r \in rows : r.id \in NextId(d.chunks) .. NextId(d.chunks) + 1
    BY <1>1
  <2>3. IdsUnique(d.chunks) /\ IdsBounded(d.chunks)
    BY DEF Sound, Keyed
  <2> HIDE DEF rows
  <2> QED BY <2>1, <2>2, <2>3, FreshRows
<1>8. \A r \in rows : r.sym = s.id
  OBVIOUS
<1> HIDE DEF new, rows, base, syms
<1>9. Keyed(new)
  BY <1>6, <1>7 DEF Sound, Keyed
<1>10. ChunksHaveSymbol(new)
  BY <1>2, <1>6, <1>8 DEF Sound, ChunksHaveSymbol
<1>11. Ids(d.chunks) \subseteq Ids(new.chunks)
  BY <1>6 DEF Ids
<1>12. ChunkVectorsHaveChunk(new)
  BY <1>6, <1>11 DEF Sound, ChunkVectorsHaveChunk
<1>13. ChunkContentMatches(new)
  <2>1. \A v \in d.chunkvecs : \E c \in d.chunks : v.id = c.id
    <3>1. \A v \in d.chunkvecs : v.id \in Ids(d.chunks)
      BY DEF Sound, ChunkVectorsHaveChunk, Ids
    <3> QED BY <3>1 DEF Ids
  <2>2. \A r \in rows, v \in d.chunkvecs : v.id # r.id
    BY <2>1, <1>7
  <2> QED BY <2>2, <1>6 DEF Sound, ChunkContentMatches
<1>14. /\ PathsUnique(new) /\ SymbolsHaveFile(new) /\ BodiesHaveSymbol(new) /\ EdgesResolve(new)
       /\ TextIndexMatches(new) /\ BodyIndexMatches(new) /\ VectorsHaveSymbol(new) /\ ContentMatches(new)
  BY <1>6 DEF Sound, PathsUnique, SymbolsHaveFile, BodiesHaveSymbol, EdgesResolve,
              TextIndexMatches, BodyIndexMatches, VectorsHaveSymbol, ContentMatches
<1>15. Sound(new)
  BY <1>6, <1>9, <1>10, <1>12, <1>13, <1>14 DEF Sound
<1> QED BY <1>15 DEF new, syms

\* Vectors of the windows a symbol has.
LEMMA UpsertChunkEmbeddingBatchKeeps ==
  ASSUME NEW d, Sound(d), NEW s \in d.symbols
  PROVE  Sound(UpsertChunkEmbeddingBatch(d, {[id |-> c.id, text |-> s.text] : c \in ChunksOf(d, {s.id})}).db)
<1> DEFINE rows == {[id |-> c.id, text |-> s.text] : c \in ChunksOf(d, {s.id})}
           new == UpsertChunkEmbeddingBatch(d, rows).db
<1>1. /\ IsDB(new) /\ new.chunkvecs = {v \in d.chunkvecs : v.id \notin Ids(rows)} \cup rows
      /\ new.files = d.files /\ new.symbols = d.symbols /\ new.bodies = d.bodies
      /\ new.chunks = d.chunks /\ new.edges = d.edges /\ new.vecs = d.vecs
      /\ new.fts = d.fts /\ new.bodyfts = d.bodyfts
  <2> HIDE DEF rows
  <2> QED BY DEF UpsertChunkEmbeddingBatch, Done, Sound, IsDB
<1>2. \A v \in rows : \E c \in d.chunks : c.sym = s.id /\ v.id = c.id /\ v.text = s.text
  BY DEF ChunksOf
<1> HIDE DEF new, rows
<1>3. ChunkVectorsHaveChunk(new)
  BY <1>1, <1>2 DEF Sound, ChunkVectorsHaveChunk, Ids
<1>4. ChunkContentMatches(new)
  BY <1>1, <1>2 DEF Sound, ChunkContentMatches, Keyed, IdsUnique
<1>5. /\ PathsUnique(new) /\ Keyed(new) /\ SymbolsHaveFile(new) /\ BodiesHaveSymbol(new)
      /\ ChunksHaveSymbol(new) /\ TextIndexMatches(new) /\ BodyIndexMatches(new)
      /\ EdgesResolve(new) /\ VectorsHaveSymbol(new) /\ ContentMatches(new)
  BY <1>1 DEF Sound, PathsUnique, Keyed, SymbolsHaveFile, BodiesHaveSymbol, ChunksHaveSymbol,
              TextIndexMatches, BodyIndexMatches, EdgesResolve, VectorsHaveSymbol, ContentMatches
<1>6. Sound(new)
  BY <1>1, <1>3, <1>4, <1>5 DEF Sound
<1> QED BY <1>6 DEF new, rows

-----------------------------------------------------------------------------
(* The callers.                                                            *)

\* Any call of an indexer.
LEMMA MutationKeeps ==
  ASSUME Sound(db), NEW result, Mutation(TRUE, result)
  PROVE  Sound(result)
<1>1. CASE \E p \in Paths, h \in {"old", "new"} : result = SaveFile(db, p, h).db
  BY <1>1, SaveFileKeeps
<1>2. CASE \E f \in db.files : result = DeleteSymbolsByFile(db, f.id, TRUE).db
  BY <1>2, DeleteSymbolsByFileKeeps
<1>3. CASE \E f \in db.files : result = DeleteFile(db, f.id, TRUE).db
  BY <1>3, DeleteFileKeeps
<1>4. CASE \E f \in db.files : \E syms \in Batches : result = SaveSymbolBatch(db, f.id, syms, TRUE).db
  <2>1. PICK f \in db.files, syms \in Batches : result = SaveSymbolBatch(db, f.id, syms, TRUE).db
    BY <1>4
  <2>2. f.id \in Ids(db.files)
    BY DEF Ids
  <2> QED BY <2>1, <2>2, SaveSymbolBatchKeeps, BatchAssumption
<1>5. CASE \E s, t \in db.symbols : result = SaveEdgeBatch(db, {<<s.id, t.id>>}, TRUE).db
  BY <1>5, SaveEdgeBatchKeeps
<1>6. CASE \E s \in db.symbols :
             result = UpsertEmbeddingBatch(db, {[id |-> s.id, text |-> s.text]}).db
  <2>1. PICK s \in db.symbols : result = UpsertEmbeddingBatch(db, {[id |-> s.id, text |-> s.text]}).db
    BY <1>6
  <2>2. FromSymbols({[id |-> s.id, text |-> s.text]}, db)
    BY DEF FromSymbols
  <2> QED BY <2>1, <2>2, UpsertEmbeddingBatchKeeps
<1>7. CASE \E s \in db.symbols : result = SaveSymbolChunks(db, <<s.id, s.id>>, TRUE).db
  BY <1>7, SaveSymbolChunksKeeps
<1>8. CASE \E s \in db.symbols :
             result = UpsertChunkEmbeddingBatch(db, {[id |-> c.id, text |-> s.text]
                                                     : c \in ChunksOf(db, {s.id})}).db
  BY <1>8, UpsertChunkEmbeddingBatchKeeps
<1> QED BY <1>1, <1>2, <1>3, <1>4, <1>5, <1>6, <1>7, <1>8 DEF Mutation

\* The empty database is sound, the one connection idle.
LEMMA InitEstablishes == ASSUME Init PROVE TableInv
<1>1. Sound(db)
  <2>1. db = EmptyDB
    BY DEF Init
  <2> QED BY <2>1 DEF EmptyDB, Sound, IsDB, PathsUnique, Keyed, IdsUnique, IdsBounded, Ids,
             EdgesResolve, SymbolsHaveFile, BodiesHaveSymbol, ChunksHaveSymbol, TextIndexMatches,
             BodyIndexMatches, VectorsHaveSymbol, ChunkVectorsHaveChunk, ContentMatches,
             ChunkContentMatches
<1>2. OneConnection /\ ListedExist
  BY DEF Init, OneConnection, ListedExist, FromSymbols
<1> QED BY <1>1, <1>2 DEF Init, TableInv

\* A caller that takes its turn gets the connection New configured.
LEMMA BeginKeeps ==
  ASSUME TableInv, ~Overlap, NEW c \in Clients, Begin(c)
  PROVE  TableInv'
<1>1. conn[c] = "none" /\ MyTurn(c) /\ UNCHANGED <<db, listed>>
  BY DEF Begin, Grab
<1>2. idle = <<"fk_on">> /\ \A d \in Clients : conn[d] = "none"
  BY <1>1 DEF MyTurn, TableInv, OneConnection
<1>3. Len(idle) = 1 /\ idle[1] = "fk_on" /\ idle # <<>> /\ SubSeq(idle, 1, 0) = <<>>
  BY <1>2
<1>4. conn' = [conn EXCEPT ![c] = "fk_on"] /\ idle' = <<>>
  BY <1>3 DEF Begin, Grab
<1>5. OneConnection'
  BY <1>2, <1>4 DEF TableInv, OneConnection
<1>6. ListedExist'
  <2> SUFFICES ASSUME NEW b \in Backfills
               PROVE  /\ FromSymbols(listed[b], db)
                      /\ listed[b] # {} => \A d \in Clients \ {b} : conn'[d] = "none"
    BY <1>1 DEF ListedExist
  <2>1. FromSymbols(listed[b], db)
    BY DEF TableInv, ListedExist
  <2>2. b # c => listed[b] = {}
    BY <1>1 DEF MyTurn, Clients
  <2>3. \A d \in Clients \ {c} : conn'[d] = "none"
    BY <1>2, <1>4 DEF TableInv
  <2> QED BY <2>1, <2>2, <2>3
<1>7. DOMAIN conn' = Clients /\ conn' = [d \in Clients |-> conn'[d]]
  BY <1>4 DEF TableInv
<1> QED BY <1>1, <1>5, <1>6, <1>7 DEF TableInv

\* The caller that holds a connection holds the only one and gives it back.
LEMMA ReturnKeeps ==
  ASSUME TableInv, NEW c \in Clients, Return(c)
  PROVE  /\ conn[c] = "fk_on"
         /\ \A d \in Clients : conn'[d] = "none"
         /\ \A d \in Clients \ {c} : conn[d] = "none"
         /\ OneConnection'
         /\ DOMAIN conn' = Clients /\ conn' = [d \in Clients |-> conn'[d]]
<1>1. /\ idle = <<>> /\ conn[c] = "fk_on"
      /\ \A d \in Clients \ {c} : conn[d] = "none"
  BY DEF Return, TableInv, OneConnection
<1>2. Len(idle) < MaxIdleConns
  BY <1>1 DEF MaxIdleConns
<1>3. conn' = [conn EXCEPT ![c] = "none"] /\ idle' = <<"fk_on">>
  BY <1>1, <1>2 DEF Return
<1>4. \A d \in Clients : conn'[d] = "none"
  BY <1>1, <1>3 DEF TableInv
<1> QED BY <1>1, <1>3, <1>4 DEF TableInv, OneConnection

\* No backfill has anything listed while an indexer runs.
LEMMA MutateKeeps ==
  ASSUME TableInv, NEW c \in Clients, Mutate(c)
  PROVE  TableInv'
<1>1. c \in Indexers /\ conn[c] # "none" /\ Return(c) /\ listed' = listed
  BY DEF Mutate
<1>2. conn[c] = "fk_on" /\ OneConnection' /\ (DOMAIN conn = Clients /\ conn = [d \in Clients |-> conn[d]])'
  BY <1>1, ReturnKeeps
<1>3. Sound(db)'
  <2>1. Mutation(TRUE, db')
    BY <1>2 DEF Mutate
  <2> QED BY <2>1, MutationKeeps DEF TableInv
<1>4. \A b \in Backfills : listed[b] = {}
  <2>1. \A b \in Backfills : c \in Clients \ {b}
    BY <1>1, CallersAssumption
  <2> QED BY <1>1, <2>1 DEF TableInv, ListedExist
<1>5. ListedExist'
  BY <1>1, <1>4 DEF ListedExist, FromSymbols
<1> QED BY <1>1, <1>2, <1>3, <1>5 DEF TableInv

\* A reader only returns its connection.
LEMMA ReadKeeps ==
  ASSUME TableInv, NEW c \in Clients, Read(c)
  PROVE  TableInv'
<1>1. Return(c) /\ UNCHANGED <<db, listed>>
  BY DEF Read
<1>2. /\ \A d \in Clients : conn'[d] = "none"
      /\ OneConnection' /\ (DOMAIN conn = Clients /\ conn = [d \in Clients |-> conn[d]])'
  BY <1>1, ReturnKeeps
<1>3. ListedExist'
  BY <1>1, <1>2 DEF TableInv, ListedExist
<1> QED BY <1>1, <1>2, <1>3 DEF TableInv

\* What was listed still exists when it is stored.
LEMMA BackfillKeeps ==
  ASSUME TableInv, NEW c \in Clients, BackfillList(c) \/ BackfillUpsert(c)
  PROVE  TableInv'
<1>1. c \in Backfills /\ Return(c)
  BY DEF BackfillList, BackfillUpsert
<1>2. /\ \A d \in Clients : conn'[d] = "none"
      /\ OneConnection' /\ (DOMAIN conn = Clients /\ conn = [d \in Clients |-> conn[d]])'
  BY <1>1, ReturnKeeps
<1>3. CASE BackfillList(c)
  <2>1. db' = db /\ listed' = [listed EXCEPT ![c] = ListSymbolsMissingEmbedding(db)]
    BY <1>3 DEF BackfillList
  <2>2. FromSymbols(ListSymbolsMissingEmbedding(db), db)
    BY DEF FromSymbols, ListSymbolsMissingEmbedding
  <2>3. listed' = [b \in Backfills |-> listed'[b]]
    BY <2>1 DEF TableInv
  <2>4. ListedExist'
    BY <1>2, <2>1, <2>2 DEF TableInv, ListedExist, Clients
  <2> QED BY <1>2, <2>1, <2>3, <2>4 DEF TableInv
<1>4. CASE BackfillUpsert(c)
  <2>1. /\ listed[c] # {} /\ db' = UpsertEmbeddingBatch(db, listed[c]).db
        /\ listed' = [listed EXCEPT ![c] = {}]
    BY <1>4 DEF BackfillUpsert
  <2>2. Sound(db)'
    BY <1>1, <2>1, UpsertEmbeddingBatchKeeps DEF TableInv, ListedExist
  <2>3. db'.symbols = db.symbols
    BY <2>1 DEF UpsertEmbeddingBatch, Done, TableInv, Sound, IsDB
  <2>4. listed' = [b \in Backfills |-> listed'[b]]
    BY <2>1 DEF TableInv
  <2>5. ListedExist'
    BY <1>2, <2>1, <2>3 DEF TableInv, ListedExist, FromSymbols, Clients
  <2> QED BY <1>2, <2>2, <2>4, <2>5 DEF TableInv
<1> QED BY <1>3, <1>4

\* Every step of every caller.
LEMMA NextKeeps == ASSUME TableInv, ~Overlap, [Next]_vars PROVE TableInv'
<1>1. CASE UNCHANGED vars
  BY <1>1 DEF vars, TableInv, OneConnection, ListedExist
<1>2. CASE Next
  <2>1. PICK c \in Clients :
          Begin(c) \/ Mutate(c) \/ Read(c) \/ BackfillList(c) \/ BackfillUpsert(c)
    BY <1>2 DEF Next
  <2> QED BY <2>1, BeginKeeps, MutateKeeps, ReadKeeps, BackfillKeeps
<1> QED BY <1>1, <1>2

\* Callers that take turns keep the inductive invariant.
THEOREM TakingTurns == ~Overlap => (Spec => []TableInv)
<1> SUFFICES ASSUME ~Overlap PROVE Spec => []TableInv
  OBVIOUS
<1>1. Init => TableInv
  BY InitEstablishes
<1>2. TableInv /\ [Next]_vars => TableInv'
  BY NextKeeps
<1> QED BY <1>1, <1>2, PTL DEF Spec

\* Callers that take turns never leave a dangling reference behind: edges,
\* full bodies and files resolve, for any number of calls and any files.
THEOREM References == ~Overlap => (Spec => []ReferencesHold)
<1>1. TableInv => ReferencesHold
  BY DEF TableInv, Sound, ReferencesHold
<1> QED BY <1>1, TakingTurns, PTL

\* The full-text indexes hold a row for each symbol and each full body and no
\* other, whatever passes and deletions came before.
THEOREM SearchRows == ~Overlap => (Spec => []SearchableExactly)
<1>1. TableInv => SearchableExactly
  BY DEF TableInv, Sound, SearchableExactly
<1> QED BY <1>1, TakingTurns, PTL

\* "orphaned vectors must be removed explicitly" (sqlite.go), the virtual tables
\* being out of a cascade's reach: no vector is left of a symbol or a chunk that
\* is gone, for the next holder of the id to be found by, when calls take turns, so
\* that nothing is deleted between the listing of the backfill and its upsert.
THEOREM NoOrphans == ~Overlap => (Spec => []NoOrphanVectors)
<1>1. TableInv => NoOrphanVectors
  BY DEF TableInv, Sound, NoOrphanVectors
<1> QED BY <1>1, TakingTurns, PTL

\* Although SQLite hands out the ids of deleted rows again, a vector, a full
\* body and the vector of a chunk always belong to the symbol they are stored for.
THEOREM ReuseIsHarmless == ~Overlap => (Spec => []OwnContent)
<1>1. TableInv => OwnContent
  <2> SUFFICES ASSUME TableInv, NEW s \in db.symbols
               PROVE  /\ \A v \in db.vecs : v.id = s.id => v.text = s.text
                      /\ GetSymbolBody(db, s) = s.text
                      /\ \A c \in ChunksOf(db, {s.id}) :
                           \A v \in db.chunkvecs : v.id = c.id => v.text = s.text
    BY DEF OwnContent
  <2> DEFINE full == {b \in db.bodies : b.id = s.id}
  <2>1. /\ \A v \in db.vecs : v.id = s.id => v.text = s.text
        /\ \A b \in full : b.text = s.text
    BY DEF TableInv, Sound, ContentMatches
  <2>2. full # {} => (CHOOSE b \in full : TRUE) \in full
    OBVIOUS
  <2>3. GetSymbolBody(db, s) = s.text
    BY <2>1, <2>2 DEF GetSymbolBody
  <2>4. \A c \in ChunksOf(db, {s.id}) : \A v \in db.chunkvecs : v.id = c.id => v.text = s.text
    BY DEF TableInv, Sound, ChunkContentMatches, ChunksOf
  <2> QED BY <2>1, <2>3, <2>4
<1> QED BY <1>1, TakingTurns, PTL
=============================================================================
