---------------------------- MODULE IndexerProofs ----------------------------
(***************************************************************************)
(* What the indexer (module Indexer) keeps, for any files, contents,       *)
(* histories and failures.  The tables stay Sound under every call of the  *)
(* store; a pass keeps in Reuse only vectors of their own texts; and a     *)
(* file that the pass began with is, until it ends, excused, seen, worked  *)
(* on, in the channel or ahead of the walker (FilesInv).                   *)
(*                                                                         *)
(* Faithful is what holds of the files, whatever fails.  A recorded hash   *)
(* is of a content the file has or had (HashesTrue), and is the present    *)
(* one exactly when mtime and size are the recorded ones; what is parsed   *)
(* then is the content that was hashed (RecordRight).  A pass in which     *)
(* nothing changed has found every file that is there (CleanPass), and     *)
(* leaves a table that lists them all (CleanTable).  As long as nothing    *)
(* failed, a file whose row is of the present content has the symbols of   *)
(* that content (SymbolsRight).                                            *)
(*                                                                         *)
(* The call graph rests on three more facts.  GraphTables says of the      *)
(* tables that a file has the symbols of one content or none, and that an  *)
(* edge from a symbol of the present content is one of its calls.          *)
(* GraphPass says of the pass that its names and the edges it has put off  *)
(* lead to symbols.  GraphClean says of a pass in which nothing changed or *)
(* failed that every call resolved when it began has its edge, or has it   *)
(* still to come: put off, in a caller's file to be repaired, or in the    *)
(* file that is being replaced.                                            *)
(***************************************************************************)
EXTENDS Indexer, Integers, FiniteSetTheorems, WellFoundedInduction, TLAPS

IsDB(d) == d = [files |-> d.files, symbols |-> d.symbols, bodies |-> d.bodies,
                edges |-> d.edges, chunks |-> d.chunks, vecs |-> d.vecs,
                chunkvecs |-> d.chunkvecs, fts |-> d.fts, bodyfts |-> d.bodyfts]

Hashes == [sum : Contents, stamp : Nat]
FileRows == [id : Nat, path : Files, hash : Hashes]

\* A primary key, and the UNIQUE column of files.
IdsUnique(rows) == \A r, q \in rows : r.id = q.id => r = q
PathsUnique(rows) == \A r, q \in rows : r.path = q.path => r = q

\* Only finitely many rows, said without counting them.
IdsBounded(rows) ==
  /\ Ids(rows) \subseteq Nat
  /\ \E n \in Nat : \A i \in Ids(rows) : i <= n

\* The symbols a file with content c gets.
SymbolRows(fid, c, base) ==
  {[id |-> base + i - 1, file |-> fid, name |-> Defs[c][i], text |-> c] : i \in DOMAIN Defs[c]}

\* They are those SaveSymbols hands to the store.
Parsed(c) == [i \in DOMAIN Defs[c] |-> [name |-> Defs[c][i], text |-> c, long |-> FALSE]]

VectorsOwn(d) == \A s \in d.symbols, v \in d.vecs : v.id = s.id => v.text = s.text

Sound(d) ==
  /\ IsDB(d) /\ d.files \subseteq FileRows
  /\ IdsUnique(d.files) /\ PathsUnique(d.files) /\ IdsBounded(d.files)
  /\ IdsUnique(d.symbols) /\ IdsBounded(d.symbols)
  /\ SymbolsHaveFile(d) /\ VectorsHaveSymbol(d) /\ VectorsOwn(d)

-----------------------------------------------------------------------------
(* Keys.                                                                   *)

\* A bounded nonempty set of naturals has a largest element.
LEMMA Largest ==
  ASSUME NEW I \in SUBSET Nat, I # {}, NEW n \in Nat, \A i \in I : i <= n
  PROVE  \E m \in I : \A i \in I : i <= m
<1> DEFINE R == OpToRel(<, Nat)
           above == {k \in Nat : \A i \in I : i <= k}
<1>1. \A x, y \in Nat : y < x => <<y, x>> \in R
  BY DEF OpToRel
<1>2. IsWellFoundedOn(R, Nat)
  BY NatLessThanWellFounded
<1> HIDE DEF R
<1>3. above \in SUBSET Nat /\ n \in above
  OBVIOUS
<1>4. PICK m \in above : \A k \in above : ~(<<k, m>> \in R)
  BY <1>2, <1>3, WFMin, Zenon
<1>5. \A k \in Nat : (\A i \in I : i <= k) => ~(k < m)
  BY <1>1, <1>4
<1>6. m \in Nat /\ \A i \in I : i \in Nat /\ i <= m
  BY <1>4
<1>7. m \in I
  <2> SUFFICES ASSUME m \notin I PROVE FALSE
    OBVIOUS
  <2>1. \A i \in I : i <= m - 1
    BY <1>6
  <2>2. m - 1 \in Nat /\ m - 1 < m
    <3>1. PICK i \in I : TRUE
      OBVIOUS
    <3>2. i \in Nat /\ i <= m - 1
      BY <1>6, <2>1
    <3> QED BY <1>6, <3>2
  <2> QED BY <1>5, <2>1, <2>2
<1> QED BY <1>6, <1>7

\* The id of a new row is above every id in use.
LEMMA NextIdFresh ==
  ASSUME NEW rows, IdsBounded(rows)
  PROVE  NextId(rows) \in Nat /\ \A r \in rows : r.id \in Nat /\ r.id < NextId(rows)
<1>1. CASE rows = {}
  BY <1>1 DEF NextId
<1>2. CASE rows # {}
  <2> DEFINE I == Ids(rows)
             m == CHOOSE k \in I : \A i \in I : i <= k
  <2>1. I \in SUBSET Nat /\ I # {} /\ \A r \in rows : r.id \in I
    BY <1>2 DEF Ids, IdsBounded
  <2>2. \E k \in I : \A i \in I : i <= k
    BY <2>1, Largest DEF IdsBounded
  <2>3. m \in I /\ \A i \in I : i <= m
    BY <2>2
  <2>4. NextId(rows) = 1 + m
    BY <1>2 DEF NextId
  <2> HIDE DEF m, I
  <2>5. m \in Nat /\ \A r \in rows : r.id \in Nat /\ r.id <= m
    BY <2>1, <2>3
  <2> QED BY <2>4, <2>5
<1> QED BY <1>1, <1>2

\* Rows with ids from there on keep a table keyed.
LEMMA RowsAdded ==
  ASSUME NEW old, IdsUnique(old), IdsBounded(old),
         NEW rows, IdsUnique(rows), NEW n \in Nat,
         \A r \in rows : r.id \in NextId(old) .. n
  PROVE  /\ IdsUnique(old \cup rows) /\ IdsBounded(old \cup rows)
         /\ \A r \in rows, q \in old : r.id # q.id
<1> DEFINE base == NextId(old)
<1>1. base \in Nat /\ \A q \in old : q.id \in Nat /\ q.id < base
  BY NextIdFresh
<1>2. \A r \in rows : r.id \in base .. n
  OBVIOUS
<1> HIDE DEF base
<1>3. \A r \in rows, q \in old : r.id # q.id
  BY <1>1, <1>2
<1>4. IdsUnique(old \cup rows)
  BY <1>3 DEF IdsUnique
<1>5. \A q \in old \cup rows : q.id \in Nat /\ q.id <= base + n
  BY <1>1, <1>2
<1>6. base + n \in Nat
  BY <1>1
<1>7. IdsBounded(old \cup rows)
  BY <1>5, <1>6 DEF IdsBounded, Ids
<1> QED BY <1>3, <1>4, <1>7

-----------------------------------------------------------------------------
(* What the calls of the store do to the tables.                           *)

\* The row of the path is replaced under its id, or one is added.
LEMMA FileSaved ==
  ASSUME NEW d, Sound(d), NEW p \in Files, NEW h \in Hashes
  PROVE  LET saved == SaveFile(d, p, h)
         IN /\ Sound(saved.db)
            /\ saved.db.files = (d.files \ Row(d.files, p)) \cup {[id |-> saved.id, path |-> p, hash |-> h]}
            /\ saved.db.symbols = d.symbols
            /\ \A r \in Row(d.files, p) : r.id = saved.id
            /\ \A r \in d.files : r.path # p => r.id # saved.id
            /\ Row(d.files, p) = {} => saved.id \notin Ids(d.files)
<1> DEFINE old == Row(d.files, p)
           id  == IF old = {} THEN NextId(d.files) ELSE (CHOOSE f \in old : TRUE).id
           row == [id |-> id, path |-> p, hash |-> h]
           new == SaveFile(d, p, h).db
<1>1. SaveFile(d, p, h).id = id /\ new = [d EXCEPT !.files = (d.files \ old) \cup {row}]
  BY DEF SaveFile, Row
<1>2. ASSUME NEW f \in old PROVE id = f.id
  <2>1. (CHOOSE g \in old : TRUE) \in old
    BY <1>2
  <2>2. (CHOOSE g \in old : TRUE) = f
    BY <2>1 DEF Sound, PathsUnique, Row
  <2> QED BY <2>2
<1>3. row.path = p /\ row.id = id /\ row.hash = h
  OBVIOUS
<1>4. id \in Nat /\ \A r \in d.files : r.path # p => r.id # id
  <2>1. CASE old = {}
    <3>1. NextId(d.files) \in Nat /\ \A r \in d.files : r.id \in Nat /\ r.id < NextId(d.files)
      BY NextIdFresh DEF Sound
    <3> QED BY <2>1, <3>1
  <2>2. CASE old # {}
    <3>1. PICK f \in old : TRUE
      BY <2>2
    <3>2. f \in d.files /\ f.path = p
      BY DEF Row
    <3>3. id = f.id
      BY <1>2
    <3> HIDE DEF id
    <3> QED BY <3>2, <3>3 DEF Sound, IdsUnique, FileRows
  <2> QED BY <2>1, <2>2
<1>5. old = {} => id \notin Ids(d.files)
  BY <1>4 DEF Row, Ids
<1> HIDE DEF id, new, row
<1>6. /\ IsDB(new) /\ new.files = (d.files \ old) \cup {row}
      /\ new.symbols = d.symbols /\ new.vecs = d.vecs
  BY <1>1 DEF Sound, IsDB
<1>7. row \in FileRows
  BY <1>4 DEF row, FileRows
<1>8. IdsUnique(new.files) /\ PathsUnique(new.files)
  BY <1>3, <1>4, <1>6 DEF Sound, IdsUnique, PathsUnique, Row
<1>9. IdsBounded(new.files)
  <2>1. PICK n \in Nat : \A i \in Ids(d.files) : i <= n
    BY DEF Sound, IdsBounded
  <2>2. \A r \in new.files : r.id \in Nat /\ r.id <= n + id
    <3>1. \A r \in d.files : r.id \in Nat /\ r.id <= n
      BY <2>1 DEF Ids, Sound, IdsBounded
    <3> QED BY <1>3, <1>4, <1>6, <3>1
  <2>3. n + id \in Nat
    BY <1>4
  <2> QED BY <2>2, <2>3 DEF IdsBounded, Ids
<1>10. SymbolsHaveFile(new)
  <2>1. Ids(d.files) \subseteq Ids(new.files)
    BY <1>2, <1>3, <1>6 DEF Ids
  <2> QED BY <2>1, <1>6 DEF Sound, SymbolsHaveFile
<1>11. Sound(new)
  BY <1>6, <1>7, <1>8, <1>9, <1>10 DEF Sound, VectorsHaveSymbol, VectorsOwn
<1> QED BY <1>1, <1>2, <1>4, <1>5, <1>6, <1>11 DEF new, row

\* The symbols of one file go, and their vectors with them.
LEMMA SymbolsDeleted ==
  ASSUME NEW d, Sound(d), NEW fid, NEW new, IsDB(new),
         new.files = d.files \/ new.files = {f \in d.files : f.id # fid},
         new.symbols = d.symbols \ SymbolsOf(d, fid),
         new.vecs = {v \in d.vecs : v.id \notin Ids(SymbolsOf(d, fid))}
  PROVE  Sound(new)
<1>1. new.files \subseteq d.files /\ new.symbols \subseteq d.symbols
  OBVIOUS
<1>2. /\ IdsUnique(new.files) /\ PathsUnique(new.files) /\ IdsUnique(new.symbols)
      /\ new.files \subseteq FileRows /\ VectorsOwn(new)
  BY <1>1 DEF Sound, IdsUnique, PathsUnique, VectorsOwn
<1>3. IdsBounded(new.files) /\ IdsBounded(new.symbols)
  BY <1>1 DEF Sound, IdsBounded, Ids
<1>4. SymbolsHaveFile(new)
  BY DEF Sound, SymbolsHaveFile, SymbolsOf, Ids
<1>5. VectorsHaveSymbol(new)
  BY DEF Sound, VectorsHaveSymbol, Ids
<1> QED BY <1>2, <1>3, <1>4, <1>5 DEF Sound

\* DeleteSymbolsByFile keeps the files row,
LEMMA FileEmptied ==
  ASSUME NEW d, Sound(d), NEW fid
  PROVE  LET new == DeleteSymbolsByFile(d, fid, TRUE).db
         IN /\ Sound(new) /\ new.files = d.files
            /\ new.symbols = d.symbols \ SymbolsOf(d, fid)
<1> DEFINE new == DeleteSymbolsByFile(d, fid, TRUE).db
<1>1. /\ IsDB(new) /\ new.files = d.files /\ new.symbols = d.symbols \ SymbolsOf(d, fid)
      /\ new.vecs = {v \in d.vecs : v.id \notin Ids(SymbolsOf(d, fid))}
  BY DEF DeleteSymbolsByFile, Unindex, Cascade, Done, Sound, IsDB
<1> HIDE DEF new
<1>2. Sound(new)
  BY <1>1, SymbolsDeleted
<1> QED BY <1>1, <1>2 DEF new

\* DeleteFile does not.
LEMMA FileDeleted ==
  ASSUME NEW d, Sound(d), NEW fid
  PROVE  LET new == DeleteFile(d, fid, TRUE).db
         IN /\ Sound(new) /\ new.files = {f \in d.files : f.id # fid}
            /\ new.symbols = d.symbols \ SymbolsOf(d, fid)
            /\ DeleteFile(d, fid, TRUE).ok
<1> DEFINE new == DeleteFile(d, fid, TRUE).db
<1>1. /\ IsDB(new) /\ new.files = {f \in d.files : f.id # fid}
      /\ new.symbols = d.symbols \ SymbolsOf(d, fid)
      /\ new.vecs = {v \in d.vecs : v.id \notin Ids(SymbolsOf(d, fid))}
  BY DEF DeleteFile, Unindex, Cascade, Done, Sound, IsDB
<1> HIDE DEF new
<1>2. Sound(new)
  BY <1>1, SymbolsDeleted
<1> QED BY <1>1, <1>2 DEF new, DeleteFile, Done

\* Edges and vectors: the files and the symbols stay as they are.
LEMMA EdgesSaved ==
  ASSUME NEW d, Sound(d), NEW edges
  PROVE  LET new == SaveEdgeBatch(d, edges, TRUE).db
         IN Sound(new) /\ new.files = d.files /\ new.symbols = d.symbols
<1> DEFINE new == SaveEdgeBatch(d, edges, TRUE).db
<1>1. /\ IsDB(new) /\ new.files = d.files /\ new.symbols = d.symbols /\ new.vecs = d.vecs
  BY DEF SaveEdgeBatch, Done, Failed, Sound, IsDB
<1> HIDE DEF new
<1>2. Sound(new)
  BY <1>1 DEF Sound, SymbolsHaveFile, VectorsHaveSymbol, VectorsOwn
<1> QED BY <1>1, <1>2 DEF new

\* The vectors are of texts of the symbols they are for.
LEMMA VectorsSaved ==
  ASSUME NEW d, Sound(d), NEW rows,
         \A r \in rows : \E s \in d.symbols : r.id = s.id /\ r.text = s.text
  PROVE  LET new == UpsertEmbeddingBatch(d, rows).db
         IN Sound(new) /\ new.files = d.files /\ new.symbols = d.symbols
<1> DEFINE new == UpsertEmbeddingBatch(d, rows).db
<1>1. /\ IsDB(new) /\ new.files = d.files /\ new.symbols = d.symbols
      /\ new.vecs = {v \in d.vecs : v.id \notin Ids(rows)} \cup rows
  BY DEF UpsertEmbeddingBatch, Done, Sound, IsDB
<1> HIDE DEF new
<1>2. VectorsHaveSymbol(new)
  BY <1>1 DEF Sound, VectorsHaveSymbol, Ids
<1>3. VectorsOwn(new)
  BY <1>1 DEF Sound, VectorsOwn, IdsUnique
<1>4. Sound(new)
  BY <1>1, <1>2, <1>3 DEF Sound, SymbolsHaveFile
<1> QED BY <1>1, <1>4 DEF new

\* The symbols of a content are added under new ids.
LEMMA SymbolsSaved ==
  ASSUME NEW d, Sound(d), NEW fid \in Ids(d.files), NEW c \in Contents
  PROVE  LET new == SaveSymbolBatch(d, fid, Parsed(c), TRUE)
         IN /\ Sound(new.db) /\ new.db.files = d.files
            /\ \E base \in Nat :
                 /\ new.db.symbols = d.symbols \cup SymbolRows(fid, c, base)
                 /\ SymbolRows(fid, c, base) \cap d.symbols = {}
<1> DEFINE base == NextId(d.symbols)
           rows == SymbolRows(fid, c, base)
           syms == Parsed(c)
           new == SaveSymbolBatch(d, fid, syms, TRUE).db
<1>1. Defs[c] \in Seq(STRING)
  BY IndexerAssumption
<1>2. PICK n \in Nat : DOMAIN Defs[c] = 1 .. n
  BY <1>1
<1>3. /\ DOMAIN syms = DOMAIN Defs[c]
      /\ \A i \in DOMAIN syms : ~syms[i].long /\ syms[i].name = Defs[c][i] /\ syms[i].text = c
  BY DEF Parsed
<1> HIDE DEF syms
<1>4. {[id |-> base + i - 1, file |-> fid, name |-> syms[i].name, text |-> syms[i].text] : i \in DOMAIN syms} = rows
  BY <1>3 DEF SymbolRows
<1>5. {[id |-> base + i - 1, text |-> syms[i].text] : i \in {j \in DOMAIN syms : syms[j].long}} = {}
  BY <1>3
<1>6. Ids({}) = {}
  BY DEF Ids
<1>7. /\ SaveSymbolBatch(d, fid, syms, TRUE).ok
      /\ new = [d EXCEPT !.symbols = d.symbols \cup rows, !.bodies = d.bodies \cup {},
                         !.fts = d.fts \cup Ids(rows), !.bodyfts = d.bodyfts \cup {}]
  <2> HIDE DEF rows
  <2> QED BY <1>4, <1>5, <1>6 DEF SaveSymbolBatch, Done
<1>8. /\ IsDB(new) /\ new.files = d.files /\ new.vecs = d.vecs
      /\ new.symbols = d.symbols \cup rows
  <2> HIDE DEF new, rows
  <2> QED BY <1>7 DEF Sound, IsDB
<1>9. base \in Nat
  BY NextIdFresh DEF Sound
<1>10. /\ IdsUnique(d.symbols \cup rows) /\ IdsBounded(d.symbols \cup rows)
       /\ \A r \in rows, s \in d.symbols : r.id # s.id
  <2> HIDE DEF base
  <2>1. ASSUME NEW r \in rows PROVE r.id \in base .. base + n
    <3>1. PICK i \in 1 .. n : r.id = base + i - 1
      BY <1>2 DEF SymbolRows
    <3> QED BY <3>1, <1>9
  <2>2. ASSUME NEW r \in rows, NEW q \in rows, r.id = q.id PROVE r = q
    <3>1. PICK i \in 1 .. n : r = [id |-> base + i - 1, file |-> fid, name |-> Defs[c][i], text |-> c]
      BY <1>2 DEF SymbolRows
    <3>2. PICK j \in 1 .. n : q = [id |-> base + j - 1, file |-> fid, name |-> Defs[c][j], text |-> c]
      BY <1>2 DEF SymbolRows
    <3>3. base + i - 1 = base + j - 1
      BY <2>2, <3>1, <3>2
    <3>4. i = j
      BY <3>3, <1>9
    <3> QED BY <3>1, <3>2, <3>4
  <2> HIDE DEF rows
  <2>3. IdsUnique(rows)
    BY <2>2 DEF IdsUnique
  <2>4. base + n \in Nat /\ \A r \in rows : r.id \in NextId(d.symbols) .. base + n
    BY <2>1, <1>9 DEF base
  <2> QED BY <2>3, <2>4, RowsAdded DEF Sound
<1>11. \A r \in rows : r.file = fid
  BY DEF SymbolRows
<1> HIDE DEF rows, new, base
<1>12. SymbolsHaveFile(new)
  BY <1>8, <1>11 DEF Sound, SymbolsHaveFile
<1>13. VectorsHaveSymbol(new)
  BY <1>8 DEF Sound, VectorsHaveSymbol, Ids
<1>14. VectorsOwn(new)
  <2>1. \A v \in d.vecs : \E s \in d.symbols : v.id = s.id
    BY DEF Sound, VectorsHaveSymbol, Ids
  <2> QED BY <2>1, <1>8, <1>10 DEF Sound, VectorsOwn
<1>15. Sound(new)
  BY <1>8, <1>10, <1>12, <1>13, <1>14 DEF Sound
<1>16. rows \cap d.symbols = {}
  BY <1>10
<1> QED BY <1>7, <1>8, <1>9, <1>15, <1>16 DEF new, rows, base, syms

-----------------------------------------------------------------------------
(* The invariant of a pass.                                                *)

IsPass(p) == p = [at |-> p.at, force |-> p.force, tests |-> p.tests, mark |-> p.mark,
                  existing |-> p.existing, walked |-> p.walked, recs |-> p.recs, rec |-> p.rec,
                  reuse |-> p.reuse, loaded |-> p.loaded, names |-> p.names, work |-> p.work,
                  deps |-> p.deps, redone |-> p.redone, seen |-> p.seen]

Records == [path : Files, hash : Hashes]

IsRec(r) == /\ r = [path |-> r.path, hash |-> r.hash, content |-> r.content, ids |-> r.ids]
            /\ r.path \in Files /\ r.hash \in Hashes /\ r.content \in Contents

\* A file is taken from the channel and not done with.
Busy == pass.at \in {"save", "symbols", "embed"}

\* Its old symbols are deleted, its new ones not saved.
Refreshing == pass.at \in {"save", "symbols"}

TypeOK ==
  /\ disk \in [Files -> [sum : Contents \cup {Gone}, stamp : Nat]]
  /\ coming \in [Files -> Seq(Contents \cup {Gone})]
  /\ IsPass(pass)
  /\ pass.at \in {"idle", "walk", "save", "symbols", "embed", "edges", "repair", "delete"}
  /\ pass.existing \subseteq FileRows /\ pass.walked \in 0 .. Len(WalkOrder)
  /\ pass.recs \in Seq(Records)
  /\ Busy => IsRec(pass.rec)
  /\ fails \in Nat /\ cancelled \in BOOLEAN /\ clean \in BOOLEAN
  /\ pass.at = "idle" => ~cancelled

\* The vectors kept for reuse are of their texts, the symbols to embed exist.
Reuse ==
  /\ \A r \in pass.reuse : r.vec = r.text
  /\ pass.at = "embed" => pass.rec.ids \subseteq db.symbols

\* The files the pass has still to come to: where the walker has not been, and
\* in the channel.
Ahead == {WalkOrder[i] : i \in pass.walked + 1 .. Len(WalkOrder)}
Read == {pass.recs[i].path : i \in DOMAIN pass.recs}
Waiting == IF Consuming THEN Ahead \cup Read ELSE {}
Working == IF Busy THEN {pass.rec.path} ELSE {}

\* An id stands for the same path in the list of the pass and in the table.
SameFiles ==
  /\ PathsUnique(pass.existing) /\ IdsUnique(pass.existing)
  /\ \A r \in pass.existing, q \in db.files : r.id = q.id => r.path = q.path
  /\ pass.at # "delete" => Ids(pass.existing) \subseteq Ids(db.files)

\* A known file that is not excused is still to come, or was seen.
Covered ==
  /\ \A f \in Files : disk[f].sum = Gone => f \in excused
  /\ ~cancelled => \A r \in pass.existing :
       r.path \in excused \cup Tests \cup pass.seen \cup Waiting \cup Working
  /\ pass.at = "delete" => \A r \in pass.existing : r.path \notin pass.seen

FilesInv == pass.at # "idle" => SameFiles /\ Covered

\* A content that a file has left does not come back to it, every pass walks all
\* files, and an edit is seen by mtime or size.
NoReturns ==
  \A h \in Histories : \A f \in Files : \A i, j \in DOMAIN h[f] :
    h[f][i] = h[f][j] /\ h[f][i] # Gone => i = j

Simple == NoReturns /\ Tests = {} /\ ~SameSecond

ContentsPass ==
  \A f \in Files :
    /\ \A i \in DOMAIN coming[f] : coming[f][i] = disk[f].sum => disk[f].sum = Gone
    /\ \A i, j \in DOMAIN coming[f] : coming[f][i] = coming[f][j] /\ coming[f][i] # Gone => i = j

\* A recorded hash is one the file has or had.
Recorded(f, h) ==
  /\ h.stamp <= disk[f].stamp /\ (h.stamp = disk[f].stamp <=> h.sum = disk[f].sum)
  /\ \A i \in DOMAIN coming[f] : coming[f][i] # h.sum

HashesTrue ==
  /\ \A r \in db.files : Recorded(r.path, r.hash)
  /\ \A r \in pass.existing : Recorded(r.path, r.hash)
  /\ \A i \in DOMAIN pass.recs : Recorded(pass.recs[i].path, pass.recs[i].hash)
  /\ Refreshing => Recorded(pass.rec.path, pass.rec.hash)

\* A file is ahead of the walker, or in the channel, or worked on, and once.
Queue ==
  /\ \A i, j \in DOMAIN pass.recs : pass.recs[i].path = pass.recs[j].path => i = j
  /\ Consuming => Read \cap Ahead = {} /\ Working \cap Waiting = {}

\* What the pass has not come to is as it was when the pass began,
Untouched ==
  /\ \A r \in db.files : r.path \in Waiting => r \in pass.existing
  /\ \A r \in pass.existing : r.path \in Waiting => r \in db.files

\* and what is not as it was, the pass has come to.
Accounted == \A r \in db.files : r \in pass.existing \/ r.path \in pass.seen \cup Working

Holds(fid, c) == \E base \in Nat : SymbolsOf(db, fid) = SymbolRows(fid, c, base)

\* A file whose row is of the present content has the symbols of that content.
SymbolsRight ==
  \A r \in db.files :
    IF Refreshing /\ r.path = pass.rec.path THEN SymbolsOf(db, r.id) = {}
    ELSE r.hash.stamp = disk[r.path].stamp => Holds(r.id, disk[r.path].sum)

\* The content that is parsed is that of the hash, unless the file is edited in
\* between: the hash is of a content that has passed then.
RecordRight ==
  Refreshing =>
    /\ pass.rec.hash.stamp = disk[pass.rec.path].stamp => pass.rec.content = disk[pass.rec.path].sum
    /\ pass.at = "symbols" => \E r \in db.files : r.path = pass.rec.path /\ r.hash = pass.rec.hash

RowsFor(paths) ==
  \A p \in paths : \E r \in db.files : r.path = p /\ r.hash.stamp = disk[p].stamp

PresentIn(paths) == \A f \in Files : disk[f].sum # Gone => f \in paths

\* As long as nothing has changed or failed since the pass began, what the pass
\* knows of a file is true.
CleanPass ==
  /\ Accounted
  /\ \A i \in DOMAIN pass.recs : pass.recs[i].hash.stamp = disk[pass.recs[i].path].stamp
  /\ Refreshing => pass.rec.hash.stamp = disk[pass.rec.path].stamp
  /\ RowsFor(pass.seen) /\ (pass.at = "embed" => RowsFor(Working))
  /\ PresentIn(Waiting \cup Working \cup pass.seen)

\* And after it, the table lists what is there.
CleanTable ==
  /\ PresentIn({r.path : r \in db.files})
  /\ \A r \in db.files : r.hash.stamp = disk[r.path].stamp

Faithful ==
  /\ ContentsPass /\ HashesTrue /\ Queue /\ Untouched /\ RecordRight
  /\ clean => ~cancelled /\ IF pass.at = "idle" THEN CleanTable ELSE CleanPass

Unfailed == ~cancelled /\ SymbolsRight

IndexInv ==
  /\ TypeOK /\ Sound(db) /\ Reuse /\ FilesInv
  /\ Simple => Faithful
  /\ Simple /\ fails = 0 => Unfailed

-----------------------------------------------------------------------------
(* Sequences, failures and passes.                                         *)

\* A sequence that is not empty is its head and its tail.
LEMMA TailOf ==
  ASSUME NEW S, NEW s \in Seq(S), s # <<>>
  PROVE  /\ Head(s) = s[1] /\ 1 \in DOMAIN s /\ Head(s) \in S /\ Tail(s) \in Seq(S)
         /\ \A i \in DOMAIN Tail(s) : i + 1 \in DOMAIN s /\ Tail(s)[i] = s[i + 1]
         /\ \A i \in DOMAIN s : i = 1 \/ (i - 1 \in DOMAIN Tail(s) /\ Tail(s)[i - 1] = s[i])
OBVIOUS

\* What a step knows after its store calls.
LEMMA Counted ==
  ASSUME fails \in Nat, NEW bad, NEW all, Failing(bad, all)
  PROVE  /\ fails' \in Nat /\ (fails' = 0 => fails = 0 /\ (cancelled \/ bad = {}))
         /\ clean' = (clean /\ bad = {})
         /\ cancelled => bad = all
<1>1. CASE cancelled
  BY <1>1 DEF Failing
<1>2. CASE ~cancelled
  <2>1. bad \subseteq MayFail /\ fails' = fails + Cardinality(bad)
    BY <1>2 DEF Failing
  <2>2. IsFiniteSet(bad)
    <3> DEFINE A == {"read", "names", "list", "callers"}
               B == {"delete", "savefile", "symbols", "embedder"}
               C == {"embed", "edges", "deletefile", "version"}
    <3>1. \A a, b, c, d : IsFiniteSet({a, b, c, d})
      <4> SUFFICES ASSUME NEW a, NEW b, NEW c, NEW d PROVE IsFiniteSet({a, b, c, d})
        OBVIOUS
      <4>1. IsFiniteSet({a})
        BY FS_Singleton
      <4>2. IsFiniteSet({a} \cup {b})
        BY <4>1, FS_AddElement
      <4>3. IsFiniteSet(({a} \cup {b}) \cup {c})
        BY <4>2, FS_AddElement
      <4>4. IsFiniteSet((({a} \cup {b}) \cup {c}) \cup {d})
        BY <4>3, FS_AddElement
      <4>5. (({a} \cup {b}) \cup {c}) \cup {d} = {a, b, c, d}
        OBVIOUS
      <4> QED BY <4>4, <4>5
    <3>2. IsFiniteSet(A) /\ IsFiniteSet(B) /\ IsFiniteSet(C)
      BY <3>1
    <3>3. MayFail \subseteq A \cup (B \cup C)
      BY IndexerAssumption
    <3> HIDE DEF A, B, C
    <3>4. IsFiniteSet(A \cup (B \cup C))
      BY <3>2, FS_Union
    <3>5. bad \in SUBSET (A \cup (B \cup C))
      BY <2>1, <3>3
    <3> QED BY <3>4, <3>5, FS_Subset
  <2>3. Cardinality(bad) \in Nat /\ (Cardinality(bad) = 0 <=> bad = {})
    BY <2>2, FS_CardinalityType, FS_EmptySet
  <2>4. clean' = (clean /\ bad = {})
    BY DEF Failing
  <2> QED BY <1>2, <2>1, <2>3, <2>4
<1> QED BY <1>1, <1>2

\* The head of the channel is taken.
LEMMA RecordTaken ==
  ASSUME TypeOK, pass.recs # <<>>, pass'.recs = Tail(pass.recs)
  PROVE  /\ Head(pass.recs) \in Records /\ pass'.recs \in Seq(Records)
         /\ Read' \subseteq Read /\ Head(pass.recs).path \in Read
         /\ Read \subseteq Read' \cup {Head(pass.recs).path}
         /\ \E i \in DOMAIN pass.recs : Head(pass.recs) = pass.recs[i]
         /\ \A i \in DOMAIN pass'.recs : \E j \in DOMAIN pass.recs : pass'.recs[i] = pass.recs[j]
         /\ Queue => /\ Head(pass.recs).path \notin Read'
                     /\ \A i, j \in DOMAIN pass'.recs : pass'.recs[i].path = pass'.recs[j].path => i = j
<1> DEFINE s == pass.recs
<1>1. /\ Head(s) = s[1] /\ 1 \in DOMAIN s /\ Head(s) \in Records /\ Tail(s) \in Seq(Records)
      /\ \A i \in DOMAIN Tail(s) : i + 1 \in DOMAIN s /\ Tail(s)[i] = s[i + 1]
      /\ \A i \in DOMAIN s : i = 1 \/ (i - 1 \in DOMAIN Tail(s) /\ Tail(s)[i - 1] = s[i])
  BY TailOf DEF TypeOK
<1>2. Read = {s[i].path : i \in DOMAIN s} /\ Read' = {Tail(s)[i].path : i \in DOMAIN Tail(s)}
  BY DEF Read
<1> HIDE DEF s
<1>3. Read' \subseteq Read /\ s[1].path \in Read
  BY <1>1, <1>2
<1>4. Read \subseteq Read' \cup {s[1].path}
  BY <1>1, <1>2
<1>5. ASSUME Queue
      PROVE  /\ s[1].path \notin Read'
             /\ \A i, j \in DOMAIN Tail(s) : Tail(s)[i].path = Tail(s)[j].path => i = j
  <2>1. \A i, j \in DOMAIN s : s[i].path = s[j].path => i = j
    BY <1>5 DEF Queue, s
  <2>2. \A i \in DOMAIN Tail(s) : i \in Nat /\ i # 0
    BY <1>1
  <2>3. s[1].path \notin Read'
    <3>1. ASSUME NEW i \in DOMAIN Tail(s), Tail(s)[i].path = s[1].path PROVE FALSE
      <4>1. i + 1 = 1
        BY <1>1, <2>1, <3>1
      <4> QED BY <2>2, <4>1
    <3> QED BY <1>2, <3>1
  <2>4. ASSUME NEW i \in DOMAIN Tail(s), NEW j \in DOMAIN Tail(s), Tail(s)[i].path = Tail(s)[j].path
        PROVE  i = j
    <3>1. i + 1 = j + 1
      BY <1>1, <2>1, <2>4
    <3> QED BY <2>2, <3>1
  <2> QED BY <2>3, <2>4
<1>6. pass'.recs = Tail(s)
  BY DEF s
<1> QED BY <1>1, <1>3, <1>4, <1>5, <1>6 DEF s

\* A record is put into it.
LEMMA AppendTo ==
  ASSUME NEW S, NEW s \in Seq(S), NEW e \in S
  PROVE  /\ Append(s, e) \in Seq(S) /\ Len(s) + 1 \in DOMAIN Append(s, e)
         /\ Append(s, e)[Len(s) + 1] = e
         /\ \A i \in DOMAIN s : i \in DOMAIN Append(s, e) /\ Append(s, e)[i] = s[i]
         /\ \A i \in DOMAIN Append(s, e) : i \in DOMAIN s \/ i = Len(s) + 1
OBVIOUS

\* The files the walker, after n of them, has still to come to.
LEMMA Walked ==
  ASSUME NEW n \in 0 .. Len(WalkOrder)
  PROVE  /\ Len(WalkOrder) \in Nat /\ DOMAIN WalkOrder = 1 .. Len(WalkOrder)
         /\ {WalkOrder[i] : i \in n + 1 .. Len(WalkOrder)} \subseteq Files
         /\ Files = {WalkOrder[i] : i \in 0 + 1 .. Len(WalkOrder)}
         /\ n < Len(WalkOrder) =>
              /\ WalkOrder[n + 1] \in Files
              /\ \A i \in n + 1 .. Len(WalkOrder) : i = n + 1 \/ i \in (n + 1) + 1 .. Len(WalkOrder)
<1>1. WalkOrder \in Seq(Files)
  BY IndexerAssumption
<1>2. Len(WalkOrder) \in Nat /\ DOMAIN WalkOrder = 1 .. Len(WalkOrder)
  BY <1>1
<1> QED BY <1>2 DEF Files

-----------------------------------------------------------------------------
(* The steps of a pass that leave the tables alone.                        *)

\* A file is changed under the pass: a hash that was recorded stays behind it.
LEMMA EditKeeps ==
  ASSUME IndexInv, NEW f \in Files, Edit(f)
  PROVE  IndexInv'
<1>1. /\ coming[f] # <<>> /\ coming' = [coming EXCEPT ![f] = Tail(coming[f])] /\ clean' = FALSE
      /\ excused' = IF Head(coming[f]) = Gone THEN excused \cup {f} ELSE excused
      /\ UNCHANGED <<db, pass, cancelled, fails>>
  BY DEF Edit
<1>2. PICK stamp \in {disk[f].stamp, disk[f].stamp + 1} :
        /\ disk' = [disk EXCEPT ![f] = [sum |-> Head(coming[f]), stamp |-> stamp]]
        /\ ~SameSecond => stamp = disk[f].stamp + 1
  BY DEF Edit
<1>3. Head(coming[f]) \in Contents \cup {Gone} /\ Tail(coming[f]) \in Seq(Contents \cup {Gone})
  BY <1>1, TailOf DEF IndexInv, TypeOK
<1>4. TypeOK'
  <2>1. stamp \in Nat
    BY DEF IndexInv, TypeOK
  <2>2. disk' \in [Files -> [sum : Contents \cup {Gone}, stamp : Nat]]
    BY <1>2, <1>3, <2>1 DEF IndexInv, TypeOK
  <2>3. coming' \in [Files -> Seq(Contents \cup {Gone})]
    BY <1>1, <1>3 DEF IndexInv, TypeOK
  <2> QED BY <1>1, <2>2, <2>3 DEF IndexInv, TypeOK, Busy
<1>5. FilesInv'
  <2>1. pass.at # "idle" => SameFiles'
    BY <1>1 DEF IndexInv, FilesInv, SameFiles
  <2>2. excused \subseteq excused'
    BY <1>1
  <2>3. ASSUME pass.at # "idle" PROVE Covered'
    <3>1. \A g \in Files : disk'[g].sum = Gone => g \in excused'
      BY <1>1, <1>2, <2>2, <2>3 DEF IndexInv, FilesInv, Covered, TypeOK
    <3>2. Waiting' = Waiting /\ Working' = Working
      BY <1>1 DEF Waiting, Working, Ahead, Read, Busy, Consuming
    <3> QED BY <1>1, <2>2, <2>3, <3>1, <3>2 DEF IndexInv, FilesInv, Covered
  <2> QED BY <1>1, <2>1, <2>3 DEF FilesInv
<1>6. ASSUME Simple PROVE Faithful' /\ (SymbolsRight => SymbolsRight')
  <2>1. Faithful
    BY <1>6 DEF IndexInv
  <2>2. /\ disk[f].stamp \in Nat /\ stamp = disk[f].stamp + 1
        /\ disk'[f] = [sum |-> Head(coming[f]), stamp |-> stamp] /\ coming'[f] = Tail(coming[f])
        /\ \A g \in Files \ {f} : disk'[g] = disk[g] /\ coming'[g] = coming[g]
    <3>1. /\ disk \in [Files -> [sum : Contents \cup {Gone}, stamp : Nat]]
          /\ coming \in [Files -> Seq(Contents \cup {Gone})]
      BY DEF IndexInv, TypeOK
    <3> QED BY <1>1, <1>2, <1>6, <3>1 DEF Simple
  <2>3. /\ Head(coming[f]) = coming[f][1] /\ 1 \in DOMAIN coming[f]
        /\ \A i \in DOMAIN Tail(coming[f]) :
             i \in Nat /\ i + 1 # 1 /\ i + 1 \in DOMAIN coming[f] /\ Tail(coming[f])[i] = coming[f][i + 1]
    <3>1. coming[f] \in Seq(Contents \cup {Gone})
      BY DEF IndexInv, TypeOK
    <3> QED BY <1>1, <3>1, TailOf
  <2>4. ContentsPass'
    <3> SUFFICES ASSUME NEW g \in Files
                 PROVE  /\ \A i \in DOMAIN coming'[g] : coming'[g][i] = disk'[g].sum => disk'[g].sum = Gone
                        /\ \A i, j \in DOMAIN coming'[g] :
                             coming'[g][i] = coming'[g][j] /\ coming'[g][i] # Gone => i = j
      BY DEF ContentsPass
    <3> DEFINE rest == Tail(coming[f])
    <3>1. CASE g = f
      <4>1. \A i, j \in DOMAIN coming[f] : coming[f][i] = coming[f][j] /\ coming[f][i] # Gone => i = j
        BY <2>1 DEF Faithful, ContentsPass
      <4>2. disk'[f].sum = coming[f][1] /\ coming'[f] = rest
        BY <2>2, <2>3
      <4> HIDE DEF rest
      <4>3. \A i \in DOMAIN rest : rest[i] = disk'[f].sum => disk'[f].sum = Gone
        BY <2>3, <4>1, <4>2 DEF rest
      <4>4. ASSUME NEW i \in DOMAIN rest, NEW j \in DOMAIN rest, rest[i] = rest[j], rest[i] # Gone
            PROVE  i = j
        <5>1. i \in Nat /\ j \in Nat /\ i + 1 = j + 1
          BY <2>3, <4>1, <4>4 DEF rest
        <5> QED BY <5>1
      <4> QED BY <3>1, <4>2, <4>3, <4>4
    <3>2. CASE g # f
      BY <2>1, <2>2, <3>2 DEF Faithful, ContentsPass
    <3> QED BY <3>1, <3>2
  <2>5. \A g \in Files, h \in Hashes : Recorded(g, h) =>
          Recorded(g, h)' /\ (h.stamp = disk'[g].stamp => disk'[g] = disk[g])
    <3> SUFFICES ASSUME NEW g \in Files, NEW h \in Hashes, Recorded(g, h)
                 PROVE  Recorded(g, h)' /\ (h.stamp = disk'[g].stamp => disk'[g] = disk[g])
      OBVIOUS
    <3>1. CASE g = f
      <4>1. h.stamp < stamp /\ h.stamp \in Nat
        BY <2>2, <3>1 DEF Recorded, Hashes
      <4>2. h.sum # Head(coming[f])
        BY <2>3, <3>1 DEF Recorded
      <4>3. \A i \in DOMAIN coming'[f] : coming'[f][i] # h.sum
        BY <2>2, <2>3, <3>1 DEF Recorded
      <4>4. disk'[g].stamp = stamp /\ disk'[g].sum = Head(coming[f]) /\ stamp \in Nat
        BY <2>2, <3>1
      <4>5. h.stamp <= disk'[g].stamp /\ h.stamp # disk'[g].stamp /\ h.sum # disk'[g].sum
        BY <4>1, <4>2, <4>4 DEF Hashes
      <4> QED BY <3>1, <4>3, <4>5 DEF Recorded
    <3>2. CASE g # f
      <4>1. disk'[g] = disk[g] /\ coming'[g] = coming[g]
        BY <2>2, <3>2
      <4> QED BY <4>1 DEF Recorded
    <3> QED BY <3>1, <3>2
  <2>6. /\ \A r \in db.files : r.path \in Files /\ r.hash \in Hashes
        /\ \A r \in pass.existing : r.path \in Files /\ r.hash \in Hashes
        /\ \A i \in DOMAIN pass.recs : pass.recs[i].path \in Files /\ pass.recs[i].hash \in Hashes
        /\ Refreshing => pass.rec.path \in Files /\ pass.rec.hash \in Hashes
    <3>1. \A i \in DOMAIN pass.recs : pass.recs[i] \in Records
      BY DEF IndexInv, TypeOK
    <3> QED BY <3>1 DEF IndexInv, TypeOK, Sound, FileRows, Records, Busy, Refreshing, IsRec
  <2>7. HashesTrue'
    BY <1>1, <2>1, <2>5, <2>6 DEF Faithful, HashesTrue, Refreshing
  <2>8. Queue' /\ Untouched'
    <3>1. Read' = Read /\ Ahead' = Ahead /\ Working' = Working /\ Waiting' = Waiting /\ Consuming' = Consuming
      BY <1>1 DEF Read, Ahead, Working, Waiting, Busy, Consuming
    <3> QED BY <1>1, <2>1, <3>1 DEF Faithful, Queue, Untouched
  <2>9. SymbolsRight => SymbolsRight'
    BY <1>1, <2>1, <2>5, <2>6 DEF Faithful, HashesTrue, SymbolsRight, Refreshing, Holds
  <2>10. RecordRight'
    BY <1>1, <2>1, <2>5, <2>6 DEF Faithful, HashesTrue, RecordRight, Refreshing
  <2> QED BY <1>1, <2>1, <2>4, <2>7, <2>8, <2>9, <2>10 DEF Faithful
<1>7. ASSUME Simple, fails' = 0 PROVE Unfailed'
  BY <1>1, <1>6, <1>7 DEF IndexInv, Unfailed
<1> QED BY <1>1, <1>4, <1>5, <1>6, <1>7 DEF IndexInv, Reuse

\* A pass starts: all files are ahead, and the list is that of the table.
LEMMA StartKeeps ==
  ASSUME IndexInv, StartPass
  PROVE  IndexInv'
<1>1. /\ clean' = TRUE /\ excused' = {f \in Files : disk[f].sum = Gone}
      /\ UNCHANGED <<disk, coming, db, cancelled, fails>>
  BY DEF StartPass
<1>2. /\ IsPass(pass') /\ pass'.at = "walk" /\ pass'.existing = db.files /\ pass'.recs = <<>>
      /\ pass'.seen = {} /\ pass'.walked = 0 /\ pass'.reuse = {}
  <2>1. PICK forced, tests : pass' = [Idle EXCEPT !.at = "walk", !.force = forced \/ ~current,
                                       !.tests = tests, !.mark = forced \/ ~current \/ db.files = {},
                                       !.existing = db.files]
    BY DEF StartPass
  <2>2. /\ Idle.walked = 0 /\ Idle.recs = <<>> /\ Idle.seen = {} /\ Idle.reuse = {}
        /\ IsPass(Idle)
    BY DEF Idle, IsPass
  <2> QED BY <2>1, <2>2 DEF IsPass
<1>3. <<>> \in Seq(Records) /\ 0 \in 0 .. Len(WalkOrder)
  BY Walked DEF IndexInv, TypeOK
<1>4. Waiting' = Files
  <2>1. Ahead' = Files
    BY <1>2, <1>3, Walked DEF Ahead
  <2>2. Read' = {}
    BY <1>2 DEF Read
  <2> QED BY <1>2, <2>1, <2>2 DEF Waiting, Consuming
<1>5. TypeOK'
  BY <1>1, <1>2, <1>3 DEF IndexInv, TypeOK, Busy, Sound
<1>6. SameFiles'
  BY <1>1, <1>2 DEF SameFiles, IndexInv, Sound, IdsUnique
<1>7. Covered'
  <2>1. \A r \in db.files : r.path \in Files
    BY DEF IndexInv, Sound, FileRows
  <2> QED BY <1>1, <1>2, <1>4, <2>1 DEF Covered
<1>8. ASSUME Simple PROVE Faithful'
  <2>1. Faithful
    BY <1>8 DEF IndexInv
  <2>2. HashesTrue'
    BY <1>1, <1>2, <2>1 DEF Faithful, HashesTrue, Recorded, Refreshing
  <2>3. Queue' /\ Untouched' /\ Accounted'
    <3>1. Read' = {} /\ Working' = {}
      BY <1>2 DEF Read, Working, Busy
    <3> QED BY <1>1, <1>2, <3>1 DEF Queue, Untouched, Accounted
  <2>4. RecordRight'
    BY <1>2 DEF RecordRight, Refreshing
  <2>5. CleanPass'
    BY <1>2, <1>4, <2>3 DEF CleanPass, RowsFor, PresentIn, Refreshing
  <2>6. ContentsPass'
    BY <1>1, <2>1 DEF Faithful, ContentsPass
  <2>7. ~cancelled
    BY DEF StartPass, IndexInv, TypeOK
  <2> QED BY <1>1, <1>2, <2>1, <2>2, <2>3, <2>4, <2>5, <2>6, <2>7 DEF Faithful
<1>9. ASSUME Simple, fails' = 0 PROVE Unfailed'
  <2>1. Unfailed /\ ~Refreshing /\ ~Refreshing'
    BY <1>1, <1>2, <1>9 DEF IndexInv, StartPass, Refreshing
  <2> QED BY <1>1, <2>1 DEF Unfailed, SymbolsRight, Holds
<1> QED BY <1>1, <1>2, <1>5, <1>6, <1>7, <1>8, <1>9 DEF IndexInv, FilesInv, Reuse

\* The walker hashes a file, or takes the hash of its row: the same one.
LEMMA WalkFileKeeps ==
  ASSUME IndexInv, WalkFile
  PROVE  IndexInv'
<1> DEFINE f == WalkOrder[pass.walked + 1]
           known == {r \in Row(pass.existing, f) : r.hash.stamp = disk[f].stamp}
           sum == IF known = {} THEN disk[f].sum ELSE (CHOOSE r \in known : TRUE).hash.sum
           rec == [path |-> f, hash |-> [sum |-> sum, stamp |-> disk[f].stamp]]
<1>1. PICK bad \in SUBSET ({"read"} \cap MayFail) :
        /\ fails + Cardinality(bad) <= MaxFails /\ fails' = fails + Cardinality(bad)
        /\ clean' = (clean /\ bad = {})
        /\ excused' = IF bad = {} THEN excused ELSE excused \cup {f}
        /\ pass' = [pass EXCEPT !.walked = pass.walked + 1,
                      !.recs = IF disk[f].sum = Gone \/ (f \in Tests /\ ~pass.tests) \/ bad # {}
                               THEN pass.recs ELSE Append(pass.recs, rec)]
  BY DEF WalkFile
<1>2. Consuming /\ pass.walked < Len(WalkOrder) /\ UNCHANGED <<disk, coming, cancelled, db>>
  BY DEF WalkFile, Environment
<1>3. /\ f \in Files /\ pass.walked + 1 \in 0 .. Len(WalkOrder) /\ Len(WalkOrder) \in Nat
      /\ \A i \in pass.walked + 1 .. Len(WalkOrder) :
           i = pass.walked + 1 \/ i \in (pass.walked + 1) + 1 .. Len(WalkOrder)
  <2>1. pass.walked \in 0 .. Len(WalkOrder)
    BY DEF IndexInv, TypeOK
  <2> QED BY <1>2, <2>1, Walked
<1>4. disk[f].sum # Gone => rec \in Records
  <2>1. disk[f] \in [sum : Contents \cup {Gone}, stamp : Nat]
    BY <1>3 DEF IndexInv, TypeOK
  <2>2. CASE known = {}
    BY <1>3, <2>1, <2>2 DEF Records, Hashes
  <2>3. CASE known # {}
    <3>1. PICK r : r = CHOOSE q \in known : TRUE
      OBVIOUS
    <3>2. r \in pass.existing
      BY <2>3, <3>1 DEF Row
    <3>3. r.hash \in Hashes
      BY <3>2 DEF IndexInv, TypeOK, FileRows
    <3>4. sum = r.hash.sum
      BY <2>3, <3>1
    <3> HIDE DEF sum
    <3> QED BY <1>3, <2>1, <3>3, <3>4 DEF Records, Hashes
  <2> QED BY <2>2, <2>3
<1> HIDE DEF rec, f
<1>5. /\ IsPass(pass') /\ pass'.walked = pass.walked + 1
      /\ pass'.recs = IF disk[f].sum = Gone \/ (f \in Tests /\ ~pass.tests) \/ bad # {}
                      THEN pass.recs ELSE Append(pass.recs, rec)
      /\ pass'.at = pass.at /\ pass'.existing = pass.existing /\ pass'.seen = pass.seen
      /\ pass'.rec = pass.rec /\ pass'.reuse = pass.reuse
  BY <1>1 DEF IndexInv, TypeOK, IsPass
<1>6. /\ pass'.recs \in Seq(Records) /\ Read \subseteq Read'
      /\ f \in Read' \/ disk[f].sum = Gone \/ f \in Tests \/ bad # {}
  <2>1. CASE disk[f].sum = Gone \/ (f \in Tests /\ ~pass.tests) \/ bad # {}
    <3>1. pass'.recs = pass.recs
      BY <1>5, <2>1
    <3> QED BY <2>1, <3>1 DEF Read, IndexInv, TypeOK
  <2>2. CASE pass'.recs = Append(pass.recs, rec) /\ disk[f].sum # Gone
    <3>1. rec \in Records /\ rec.path = f
      BY <1>4, <2>2 DEF rec
    <3>2. /\ pass.recs \in Seq(Records) /\ Read = {pass.recs[i].path : i \in DOMAIN pass.recs}
          /\ Read' = {pass'.recs[i].path : i \in DOMAIN pass'.recs}
      BY DEF Read, IndexInv, TypeOK
    <3>3. /\ pass'.recs \in Seq(Records) /\ \E i \in DOMAIN pass'.recs : pass'.recs[i] = rec
          /\ \A i \in DOMAIN pass.recs : i \in DOMAIN pass'.recs /\ pass'.recs[i] = pass.recs[i]
      BY <2>2, <3>1, <3>2, AppendTo
    <3> QED BY <3>1, <3>2, <3>3
  <2> QED BY <1>5, <2>1, <2>2
<1>7. fails' \in Nat /\ clean' \in BOOLEAN
  <2>1. IsFiniteSet({"read"}) /\ bad \in SUBSET {"read"}
    BY FS_Singleton
  <2>2. Cardinality(bad) \in Nat
    BY <2>1, FS_Subset, FS_CardinalityType
  <2> QED BY <1>1, <2>2 DEF IndexInv, TypeOK
<1>8. TypeOK'
  BY <1>2, <1>3, <1>5, <1>6, <1>7 DEF IndexInv, TypeOK, Busy
<1>9. Waiting \subseteq Waiting' \cup {f}
  <2>1. Ahead \subseteq Ahead' \cup {f}
    BY <1>3, <1>5 DEF Ahead, f
  <2> QED BY <1>5, <1>6, <2>1 DEF Waiting, Consuming
<1>10. SameFiles' /\ Covered'
  <2>1. SameFiles /\ Covered /\ pass.at # "delete"
    BY <1>2 DEF IndexInv, FilesInv, Consuming
  <2>2. SameFiles'
    BY <1>2, <1>5, <2>1 DEF SameFiles
  <2>3. excused \subseteq excused' /\ (bad # {} => f \in excused') /\ Working' = Working
    BY <1>1, <1>5 DEF Working, Busy
  <2>4. f \in excused' \cup Tests \cup Waiting'
    BY <1>2, <1>3, <1>5, <1>6, <2>1, <2>3 DEF Covered, Waiting, Consuming
  <2>5. Covered'
    BY <1>2, <1>5, <1>9, <2>1, <2>3, <2>4 DEF Covered
  <2> QED BY <2>2, <2>5
<1>11. ASSUME Simple PROVE Faithful'
  <2>1. Faithful
    BY <1>11 DEF IndexInv
  <2>2. disk[f] \in [sum : Contents \cup {Gone}, stamp : Nat]
    BY <1>3 DEF IndexInv, TypeOK
  <2>3. disk[f].sum # Gone => /\ bad = {} => pass'.recs = Append(pass.recs, rec)
                              /\ rec.path = f /\ rec.hash.stamp = disk[f].stamp /\ rec.hash.sum = disk[f].sum
    <3>1. sum = disk[f].sum
      <4>1. CASE known = {}
        BY <4>1
      <4>2. CASE known # {}
        <5>1. PICK r : r = CHOOSE q \in known : TRUE
          OBVIOUS
        <5>2. r \in pass.existing /\ r.path = f /\ r.hash.stamp = disk[f].stamp
          BY <4>2, <5>1 DEF Row
        <5>3. r.hash.sum = disk[f].sum
          BY <2>1, <5>2 DEF Faithful, HashesTrue, Recorded
        <5> QED BY <4>2, <5>1, <5>3
      <4> QED BY <4>1, <4>2
    <3> HIDE DEF sum
    <3> QED BY <1>5, <1>11, <3>1 DEF rec, Simple
  <2> HIDE DEF known, sum
  <2>4. /\ \A i \in DOMAIN pass.recs : i \in DOMAIN pass'.recs /\ pass'.recs[i] = pass.recs[i]
        /\ \A i \in DOMAIN pass'.recs :
             \/ i \in DOMAIN pass.recs /\ pass'.recs[i] = pass.recs[i]
             \/ disk[f].sum # Gone /\ i = Len(pass.recs) + 1 /\ pass'.recs[i] = rec
    <3>1. CASE disk[f].sum # Gone /\ bad = {}
      BY <1>4, <2>3, <3>1, AppendTo DEF IndexInv, TypeOK
    <3>2. CASE disk[f].sum = Gone \/ bad # {}
      BY <1>5, <3>2
    <3> QED BY <3>1, <3>2
  <2>5. f \in Ahead /\ f \notin Read /\ f \notin Working
    <3>1. f \in Ahead
      <4>1. pass.walked + 1 \in pass.walked + 1 .. Len(WalkOrder)
        BY <1>2, <1>3 DEF IndexInv, TypeOK
      <4> QED BY <4>1 DEF Ahead, f
    <3> QED BY <1>2, <2>1, <3>1 DEF Faithful, Queue, Waiting
  <2>6. Ahead' \subseteq Ahead /\ f \notin Ahead'
    <3>1. \A i \in (pass.walked + 1) + 1 .. Len(WalkOrder) :
            i \in pass.walked + 1 .. Len(WalkOrder) /\ i # pass.walked + 1
      BY <1>3 DEF IndexInv, TypeOK
    <3>2. pass.walked + 1 \in DOMAIN WalkOrder
          /\ \A i \in pass.walked + 1 .. Len(WalkOrder) : i \in DOMAIN WalkOrder
      BY <1>2, <1>3, Walked DEF IndexInv, TypeOK
    <3>3. Ahead' = {WalkOrder[i] : i \in (pass.walked + 1) + 1 .. Len(WalkOrder)}
      BY <1>5 DEF Ahead
    <3> QED BY <3>1, <3>2, <3>3, IndexerAssumption DEF Ahead, f
  <2>7. Read' \subseteq Read \cup {f}
    BY <2>3, <2>4 DEF Read
  <2>8. Working' = Working /\ Waiting' \subseteq Waiting
        /\ Consuming' /\ (Refreshing' <=> Refreshing)
    BY <1>2, <1>5, <2>5, <2>6, <2>7 DEF Working, Busy, Waiting, Consuming, Refreshing
  <2>9. HashesTrue'
    <3>1. disk[f].sum # Gone => Recorded(f, rec.hash)
      BY <1>3, <2>1, <2>2, <2>3 DEF Faithful, ContentsPass, Recorded
    <3>2. \A i \in DOMAIN pass'.recs : Recorded(pass'.recs[i].path, pass'.recs[i].hash)
      BY <2>1, <2>3, <2>4, <3>1 DEF Faithful, HashesTrue
    <3>3. /\ \A r \in db'.files : Recorded(r.path, r.hash)
          /\ \A r \in pass'.existing : Recorded(r.path, r.hash)
          /\ Refreshing' => Recorded(pass'.rec.path, pass'.rec.hash)
      BY <1>2, <1>5, <2>1, <2>8 DEF Faithful, HashesTrue
    <3> QED BY <1>2, <3>2, <3>3 DEF HashesTrue, Recorded
  <2>10. Queue'
    <3>1. \A i, j \in DOMAIN pass'.recs : pass'.recs[i].path = pass'.recs[j].path => i = j
      <4>1. \A i \in DOMAIN pass.recs : pass.recs[i].path # f
        BY <2>5 DEF Read
      <4> QED BY <2>1, <2>3, <2>4, <4>1 DEF Faithful, Queue
    <3>2. Read' \cap Ahead' = {}
      BY <1>2, <2>1, <2>6, <2>7 DEF Faithful, Queue
    <3>3. Working' \cap Waiting' = {}
      BY <1>2, <2>1, <2>8 DEF Faithful, Queue
    <3> QED BY <3>1, <3>2, <3>3 DEF Queue
  <2>11. Untouched'
    BY <1>2, <1>5, <2>1, <2>8 DEF Faithful, Untouched
  <2>12. RecordRight'
    BY <1>2, <1>5, <2>1, <2>8 DEF Faithful, RecordRight
  <2>13. ASSUME clean' PROVE CleanPass' /\ ~cancelled'
    <3>1. CleanPass /\ ~cancelled /\ bad = {}
      BY <1>1, <1>2, <2>1, <2>13 DEF Faithful, Consuming
    <3>2. \A i \in DOMAIN pass'.recs : pass'.recs[i].hash.stamp = disk[pass'.recs[i].path].stamp
      BY <2>3, <2>4, <3>1 DEF CleanPass
    <3>3. PresentIn(Waiting \cup Working \cup pass.seen)'
      <4>1. disk[f].sum # Gone => f \in Waiting'
        BY <1>6, <1>11, <2>8, <3>1 DEF Simple, Waiting
      <4> QED BY <1>2, <1>5, <1>9, <2>8, <3>1, <4>1 DEF CleanPass, PresentIn
    <3> QED BY <1>2, <1>5, <2>8, <3>1, <3>2, <3>3 DEF CleanPass, RowsFor, Accounted
  <2>14. ContentsPass'
    BY <1>2, <2>1 DEF Faithful, ContentsPass
  <2>15. pass'.at # "idle"
    BY <1>2, <1>5 DEF Consuming
  <2> QED BY <1>2, <2>1, <2>9, <2>10, <2>11, <2>12, <2>13, <2>14, <2>15 DEF Faithful
<1>12. ASSUME Simple, fails' = 0 PROVE Unfailed'
  <2>1. IsFiniteSet({"read"}) /\ bad \in SUBSET {"read"}
    BY FS_Singleton
  <2>2. Cardinality(bad) \in Nat
    BY <2>1, FS_Subset, FS_CardinalityType
  <2>3. Unfailed
    BY <1>1, <1>12, <2>2 DEF IndexInv, TypeOK
  <2>4. Refreshing' <=> Refreshing
    BY <1>5 DEF Refreshing
  <2> QED BY <1>2, <1>5, <2>3, <2>4 DEF Unfailed, SymbolsRight, Holds
<1> QED BY <1>2, <1>5, <1>8, <1>10, <1>11, <1>12 DEF IndexInv, FilesInv, Reuse

\* The walk is cancelled.
LEMMA WalkStopsKeeps ==
  ASSUME IndexInv, WalkStops
  PROVE  IndexInv'
<1>1. cancelled /\ UNCHANGED <<disk, coming, db, cancelled, fails, clean, excused>>
  BY DEF WalkStops, Environment
<1>2. /\ IsPass(pass') /\ pass'.at = pass.at /\ pass'.walked = Len(WalkOrder)
      /\ pass'.existing = pass.existing /\ pass'.recs = pass.recs /\ pass'.rec = pass.rec
      /\ pass'.seen = pass.seen /\ pass'.reuse = pass.reuse
  BY DEF WalkStops, IndexInv, TypeOK, IsPass
<1>3. Len(WalkOrder) \in 0 .. Len(WalkOrder)
  BY IndexerAssumption
<1>4. TypeOK'
  BY <1>1, <1>2, <1>3 DEF IndexInv, TypeOK, Busy
<1>5. FilesInv'
  BY <1>1, <1>2 DEF IndexInv, FilesInv, SameFiles, Covered
<1>6. ASSUME Simple PROVE Faithful'
  <2>1. Faithful /\ ~clean'
    BY <1>1, <1>6 DEF IndexInv, Faithful
  <2>2. /\ Read' = Read /\ Ahead' = {} /\ Working' = Working /\ Waiting' \subseteq Waiting
        /\ Consuming' = Consuming /\ Refreshing' = Refreshing
    <3>1. \A i \in Len(WalkOrder) + 1 .. Len(WalkOrder) : FALSE
      BY IndexerAssumption
    <3>2. Ahead' = {} /\ Read' = Read
      BY <1>2, <3>1 DEF Ahead, Read
    <3> QED BY <1>2, <3>2 DEF Working, Busy, Waiting, Consuming, Refreshing
  <2>3. HashesTrue' /\ ContentsPass'
    BY <1>1, <1>2, <2>1, <2>2 DEF Faithful, HashesTrue, Recorded, ContentsPass
  <2>4. Queue' /\ Untouched' /\ RecordRight'
    BY <1>1, <1>2, <2>1, <2>2 DEF Faithful, Queue, Untouched, RecordRight
  <2> QED BY <2>1, <2>3, <2>4 DEF Faithful
<1>7. ~(Simple /\ fails' = 0)
  BY <1>1 DEF IndexInv, Unfailed
<1> QED BY <1>1, <1>2, <1>4, <1>5, <1>6, <1>7 DEF IndexInv, Reuse

\* A file with the hash of its row is seen, and its row is right.
LEMMA SkipKeeps ==
  ASSUME IndexInv, Skip
  PROVE  IndexInv'
<1> DEFINE rec == Head(pass.recs)
<1>1. /\ pass.at = "walk" /\ pass.recs # <<>> /\ Unchanged(rec)
      /\ UNCHANGED <<disk, coming, db, cancelled, fails, clean, excused>>
  BY DEF Skip, Environment
<1>2. /\ IsPass(pass') /\ pass'.at = "walk" /\ pass'.walked = pass.walked
      /\ pass'.existing = pass.existing /\ pass'.recs = Tail(pass.recs) /\ pass'.rec = pass.rec
      /\ pass'.seen = pass.seen \cup {rec.path} /\ pass'.reuse = pass.reuse
  BY DEF Skip, IndexInv, TypeOK, IsPass
<1>3. /\ rec \in Records /\ pass'.recs \in Seq(Records)
      /\ Read' \subseteq Read /\ rec.path \in Read /\ Read \subseteq Read' \cup {rec.path}
      /\ \E i \in DOMAIN pass.recs : rec = pass.recs[i]
      /\ \A i \in DOMAIN pass'.recs : \E j \in DOMAIN pass.recs : pass'.recs[i] = pass.recs[j]
      /\ Queue => /\ rec.path \notin Read'
                  /\ \A i, j \in DOMAIN pass'.recs : pass'.recs[i].path = pass'.recs[j].path => i = j
  BY <1>1, <1>2, RecordTaken DEF IndexInv
<1> HIDE DEF rec
<1>4. TypeOK'
  BY <1>1, <1>2, <1>3 DEF IndexInv, TypeOK, Busy
<1>5. /\ Working = {} /\ Working' = {} /\ Ahead' = Ahead /\ Waiting = Ahead \cup Read
      /\ Waiting' = Ahead \cup Read' /\ ~Refreshing /\ ~Refreshing' /\ Consuming /\ Consuming'
  BY <1>1, <1>2 DEF Working, Busy, Ahead, Waiting, Consuming, Refreshing
<1>6. SameFiles' /\ Covered'
  BY <1>1, <1>2, <1>3, <1>5 DEF IndexInv, FilesInv, SameFiles, Covered
<1>7. ASSUME Simple PROVE Faithful'
  <2>1. Faithful
    BY <1>7 DEF IndexInv
  <2>2. HashesTrue'
    <3>1. /\ \A i \in DOMAIN pass'.recs : Recorded(pass'.recs[i].path, pass'.recs[i].hash)
          /\ \A r \in db.files : Recorded(r.path, r.hash)
          /\ \A r \in pass'.existing : Recorded(r.path, r.hash)
      BY <1>2, <1>3, <2>1 DEF Faithful, HashesTrue
    <3> QED BY <1>1, <1>5, <3>1 DEF HashesTrue, Recorded
  <2>3. Queue' /\ Untouched'
    BY <1>1, <1>2, <1>3, <1>5, <2>1 DEF Faithful, Queue, Untouched
  <2>4. RecordRight' /\ ContentsPass'
    BY <1>1, <1>5, <2>1 DEF Faithful, RecordRight, ContentsPass
  <2>5. ASSUME clean PROVE CleanPass' /\ ~cancelled
    <3>1. CleanPass /\ ~cancelled
      BY <1>1, <2>1, <2>5 DEF Faithful
    <3>2. rec.hash.stamp = disk[rec.path].stamp /\ Recorded(rec.path, rec.hash)
      BY <1>3, <2>1, <3>1 DEF CleanPass, Faithful, HashesTrue
    <3>3. PICK r \in pass.existing : r.path = rec.path /\ r.hash.sum = rec.hash.sum
      BY <1>1 DEF Unchanged, Row
    <3>4. r \in db.files /\ r.hash.stamp = disk[rec.path].stamp
      <4>1. r \in db.files /\ Recorded(r.path, r.hash)
        BY <1>3, <1>5, <2>1, <3>3 DEF Faithful, Untouched, HashesTrue
      <4> QED BY <3>2, <3>3, <4>1 DEF Recorded
    <3>5. RowsFor(pass'.seen)
      BY <1>2, <3>1, <3>3, <3>4 DEF CleanPass, RowsFor
    <3>6. \A i \in DOMAIN pass'.recs : pass'.recs[i].hash.stamp = disk[pass'.recs[i].path].stamp
      BY <1>3, <3>1 DEF CleanPass
    <3> QED BY <1>1, <1>2, <1>3, <1>5, <3>1, <3>5, <3>6 DEF CleanPass, RowsFor, PresentIn, Accounted
  <2> QED BY <1>1, <1>2, <2>1, <2>2, <2>3, <2>4, <2>5 DEF Faithful
<1>8. ASSUME Simple, fails' = 0 PROVE Unfailed'
  BY <1>1, <1>5, <1>8 DEF IndexInv, Unfailed, SymbolsRight, Holds
<1> QED BY <1>1, <1>2, <1>4, <1>6, <1>7, <1>8 DEF IndexInv, FilesInv, Reuse

\* A file that cannot be read is excused.
LEMMA UnreadableKeeps ==
  ASSUME IndexInv, Unreadable
  PROVE  IndexInv'
<1> DEFINE rec == Head(pass.recs)
<1>1. /\ pass.at = "walk" /\ pass.recs # <<>> /\ clean' = FALSE
      /\ fails' = fails \/ fails' = fails + 1
      /\ excused' = excused \cup {rec.path} /\ UNCHANGED <<disk, coming, db, cancelled>>
  BY DEF Unreadable, Environment
<1>2. /\ IsPass(pass') /\ pass'.at = "walk" /\ pass'.walked = pass.walked
      /\ pass'.existing = pass.existing /\ pass'.recs = Tail(pass.recs) /\ pass'.rec = pass.rec
      /\ pass'.seen = pass.seen /\ pass'.reuse = pass.reuse
  BY <1>1 DEF Unreadable, IndexInv, TypeOK, IsPass
<1>3. /\ pass'.recs \in Seq(Records)
      /\ Read' \subseteq Read /\ rec.path \in Read /\ Read \subseteq Read' \cup {rec.path}
      /\ \A i \in DOMAIN pass'.recs : \E j \in DOMAIN pass.recs : pass'.recs[i] = pass.recs[j]
      /\ Queue => \A i, j \in DOMAIN pass'.recs : pass'.recs[i].path = pass'.recs[j].path => i = j
  BY <1>1, <1>2, RecordTaken DEF IndexInv
<1> HIDE DEF rec
<1>4. TypeOK'
  <2>1. fails' \in Nat
    <3>1. fails \in Nat /\ (fails' = fails \/ fails' = fails + 1)
      BY <1>1 DEF IndexInv, TypeOK
    <3> QED BY <3>1
  <2>2. clean' \in BOOLEAN
    BY <1>1
  <2> QED BY <1>1, <1>2, <1>3, <2>1, <2>2 DEF IndexInv, TypeOK, Busy
<1>5. /\ Working = {} /\ Working' = {} /\ Ahead' = Ahead /\ Waiting = Ahead \cup Read
      /\ Waiting' = Ahead \cup Read' /\ ~Refreshing /\ ~Refreshing' /\ Consuming /\ Consuming'
  BY <1>1, <1>2 DEF Working, Busy, Ahead, Waiting, Consuming, Refreshing
<1>6. SameFiles' /\ Covered'
  BY <1>1, <1>2, <1>3, <1>5 DEF IndexInv, FilesInv, SameFiles, Covered
<1>7. ASSUME Simple PROVE Faithful'
  <2>1. Faithful
    BY <1>7 DEF IndexInv
  <2>2. HashesTrue'
    <3>1. /\ \A i \in DOMAIN pass'.recs : Recorded(pass'.recs[i].path, pass'.recs[i].hash)
          /\ \A r \in db.files : Recorded(r.path, r.hash)
          /\ \A r \in pass'.existing : Recorded(r.path, r.hash)
      BY <1>2, <1>3, <2>1 DEF Faithful, HashesTrue
    <3> QED BY <1>1, <1>5, <3>1 DEF HashesTrue, Recorded
  <2>3. Queue' /\ Untouched'
    BY <1>1, <1>2, <1>3, <1>5, <2>1 DEF Faithful, Queue, Untouched
  <2>4. RecordRight' /\ ContentsPass'
    BY <1>1, <1>5, <2>1 DEF Faithful, RecordRight, ContentsPass
  <2> QED BY <1>1, <2>1, <2>2, <2>3, <2>4 DEF Faithful
<1>8. ASSUME Simple, fails' = 0 PROVE Unfailed'
  <2>1. Unfailed
    BY <1>1, <1>8 DEF IndexInv, TypeOK
  <2> QED BY <1>1, <1>5, <2>1 DEF Unfailed, SymbolsRight, Holds
<1> QED BY <1>1, <1>2, <1>4, <1>6, <1>7, <1>8 DEF IndexInv, FilesInv, Reuse

\* A step behind the walk that changes neither files nor symbols.
LEMMA QuietKeeps ==
  ASSUME IndexInv, UNCHANGED <<disk, coming, cancelled, excused>>,
         pass.at = "walk" => pass.recs = <<>> /\ pass.walked = Len(WalkOrder),
         pass.at \in {"walk", "edges", "repair"}, pass'.at \in {"edges", "repair"},
         Sound(db'), db'.files = db.files, db'.symbols = db.symbols,
         IsPass(pass'), pass'.walked = pass.walked, pass'.existing = pass.existing,
         pass'.recs = pass.recs, pass'.seen = pass.seen, pass'.reuse = pass.reuse,
         fails' \in Nat, fails' = 0 => fails = 0, clean' \in BOOLEAN, clean' => clean
  PROVE  IndexInv'
<1>1. TypeOK'
  BY DEF IndexInv, TypeOK, Busy
<1>2. /\ Waiting' = {} /\ Working = {} /\ Working' = {} /\ ~Refreshing /\ ~Refreshing'
      /\ pass.at # "walk" => Waiting = {}
  BY DEF Waiting, Working, Busy, Refreshing, Consuming
<1>3. pass.at = "walk" => Waiting = {}
  <2> SUFFICES ASSUME pass.at = "walk" PROVE Ahead = {} /\ Read = {}
    BY DEF Waiting
  <2>1. Len(WalkOrder) \in Nat
    BY IndexerAssumption
  <2> QED BY <2>1 DEF Ahead, Read
<1>4. SameFiles' /\ Covered'
  BY <1>2, <1>3 DEF IndexInv, FilesInv, SameFiles, Covered
<1>5. ASSUME Simple PROVE Faithful'
  <2>1. Faithful
    BY <1>5 DEF IndexInv
  <2>2. HashesTrue'
    <3>1. /\ \A i \in DOMAIN pass'.recs : Recorded(pass'.recs[i].path, pass'.recs[i].hash)
          /\ \A r \in db.files : Recorded(r.path, r.hash)
          /\ \A r \in pass'.existing : Recorded(r.path, r.hash)
      BY <2>1 DEF Faithful, HashesTrue
    <3> QED BY <1>2, <3>1 DEF HashesTrue, Recorded
  <2>3. Queue' /\ Untouched'
    BY <1>2, <1>3, <2>1 DEF Faithful, Queue, Untouched, Consuming
  <2>4. RecordRight' /\ ContentsPass'
    BY <1>2, <2>1 DEF Faithful, RecordRight, ContentsPass
  <2>5. ASSUME clean' PROVE CleanPass' /\ ~cancelled'
    <3>1. CleanPass /\ ~cancelled
      BY <2>1, <2>5 DEF Faithful
    <3> QED BY <1>2, <1>3, <3>1 DEF CleanPass, RowsFor, PresentIn, Accounted
  <2> QED BY <2>1, <2>2, <2>3, <2>4, <2>5 DEF Faithful
<1>6. Reuse'
  BY DEF IndexInv, Reuse
<1>7. ASSUME Simple, fails' = 0 PROVE Unfailed'
  BY <1>2, <1>7 DEF IndexInv, Unfailed, SymbolsRight, Holds, SymbolsOf
<1> QED BY <1>1, <1>4, <1>5, <1>6, <1>7 DEF IndexInv, FilesInv

\* The walk ends,
LEMMA WalkEndsKeeps ==
  ASSUME IndexInv, WalkEnds
  PROVE  IndexInv'
<1>1. /\ pass.at = "walk" /\ pass.recs = <<>> /\ pass.walked = Len(WalkOrder)
      /\ UNCHANGED <<disk, coming, db, cancelled, fails, clean, excused>>
  BY DEF WalkEnds, Environment
<1>2. /\ IsPass(pass') /\ pass'.at = "edges" /\ pass'.walked = pass.walked
      /\ pass'.existing = pass.existing /\ pass'.recs = pass.recs
      /\ pass'.seen = pass.seen /\ pass'.reuse = pass.reuse
  BY DEF WalkEnds, IndexInv, TypeOK, IsPass
<1> QED BY <1>1, <1>2, QuietKeeps DEF IndexInv, TypeOK

\* the edges do,
LEMMA EdgesEndKeeps ==
  ASSUME IndexInv, EdgesEnd
  PROVE  IndexInv'
<1>1. /\ pass.at = "edges" /\ UNCHANGED <<disk, coming, db, cancelled, fails, clean, excused>>
  BY DEF EdgesEnd, Environment
<1>2. /\ IsPass(pass') /\ pass'.at = "repair" /\ pass'.walked = pass.walked
      /\ pass'.existing = pass.existing /\ pass'.recs = pass.recs
      /\ pass'.seen = pass.seen /\ pass'.reuse = pass.reuse
  BY DEF EdgesEnd, IndexInv, TypeOK, IsPass
<1> QED BY <1>1, <1>2, QuietKeeps DEF IndexInv, TypeOK

\* and they are saved
LEMMA SaveEdgesKeeps ==
  ASSUME IndexInv, SaveEdges
  PROVE  IndexInv' /\ db'.files = db.files
<1>1. PICK bad, all, edges :
        Failing(bad, all) /\ db' = After(SaveEdgeBatch(db, edges, TRUE), bad)
  BY DEF SaveEdges
<1>2. pass.at = "edges" /\ UNCHANGED <<disk, coming, cancelled, excused>>
  BY DEF SaveEdges, Environment
<1>3. /\ IsPass(pass') /\ pass'.at = "edges" /\ pass'.walked = pass.walked
      /\ pass'.existing = pass.existing /\ pass'.recs = pass.recs
      /\ pass'.seen = pass.seen /\ pass'.reuse = pass.reuse
  BY <1>2 DEF SaveEdges, IndexInv, TypeOK, IsPass
<1>4. fails' \in Nat /\ (fails' = 0 => fails = 0) /\ clean' = (clean /\ bad = {})
  BY <1>1, Counted DEF IndexInv, TypeOK
<1>5. Sound(db') /\ db'.files = db.files /\ db'.symbols = db.symbols
  BY <1>1, EdgesSaved DEF After, IndexInv
<1> QED BY <1>2, <1>3, <1>4, <1>5, QuietKeeps DEF IndexInv, TypeOK

\* or repaired, without a change of files or symbols.
RepairStep(fid, bad, all, names, edges) ==
  LET now == disk[PathOf(pass.existing, fid)].sum
      c == IF "read" \in bad THEN Gone ELSE now
      own == SymbolsOf(db, fid)
  IN /\ fid \in pass.deps /\ bad \subseteq all /\ Failing(bad, all)
     /\ names = IF pass.loaded THEN pass.names
                ELSE NamesOf(IF "names" \in bad THEN {} ELSE db.symbols)
     /\ edges = IF c = Gone \/ "list" \in bad THEN {} ELSE Edges(c, LocalNames(own), names)
     /\ (edges # {} => "edges" \in all) /\ (now # Gone => "read" \in all)
     /\ c # Gone => "list" \in all /\ (~pass.loaded => "names" \in all)
     /\ db' = After(SaveEdgeBatch(db, edges, TRUE), bad \cap {"edges"})
     /\ IsPass(pass')
     /\ pass' = [pass EXCEPT !.deps = pass.deps \ {fid}, !.loaded = pass.loaded \/ c # Gone,
                    !.names = IF c = Gone THEN pass.names
                              ELSE IF "list" \in bad THEN names ELSE Restored(names, own)]

LEMMA RepairTaken ==
  ASSUME IsPass(pass), RepairEdges
  PROVE  \E fid, bad, all, names, edges : RepairStep(fid, bad, all, names, edges)
<1> DEFINE now(fid) == disk[PathOf(pass.existing, fid)].sum
           c(fid, bad) == IF "read" \in bad THEN Gone ELSE now(fid)
           own(fid) == SymbolsOf(db, fid)
           names(bad) == IF pass.loaded THEN pass.names
                         ELSE NamesOf(IF "names" \in bad THEN {} ELSE db.symbols)
           edges(fid, bad) == IF c(fid, bad) = Gone \/ "list" \in bad THEN {}
                              ELSE Edges(c(fid, bad), LocalNames(own(fid)), names(bad))
           asks(fid, bad) ==
             (IF now(fid) = Gone THEN {} ELSE {"read"})
               \cup (IF c(fid, bad) = Gone THEN {} ELSE {"list"} \cup IF pass.loaded THEN {} ELSE {"names"})
               \cup (IF edges(fid, bad) = {} THEN {} ELSE {"edges"})
           pass1(fid, bad) ==
             [pass EXCEPT !.deps = pass.deps \ {fid}, !.loaded = pass.loaded \/ c(fid, bad) # Gone,
                !.names = IF c(fid, bad) = Gone THEN pass.names
                          ELSE IF "list" \in bad THEN names(bad) ELSE Restored(names(bad), own(fid))]
<1>1. PICK fid \in pass.deps, bad \in SUBSET {"read", "names", "list", "edges"} :
        /\ Failing(bad, asks(fid, bad))
        /\ db' = After(SaveEdgeBatch(db, edges(fid, bad), TRUE), bad \cap {"edges"})
        /\ pass' = pass1(fid, bad)
  BY Zenon DEF RepairEdges
<1>2. /\ edges(fid, bad) # {} => "edges" \in asks(fid, bad)
      /\ now(fid) # Gone => "read" \in asks(fid, bad)
      /\ c(fid, bad) # Gone =>
           "list" \in asks(fid, bad) /\ (~pass.loaded => "names" \in asks(fid, bad))
  <2> HIDE DEF edges, now, c
  <2> QED OBVIOUS
<1> HIDE DEF asks
<1>3. bad \subseteq asks(fid, bad)
  BY <1>1 DEF Failing
<1>4. IsPass(pass')
  <2> HIDE DEF c, names, own
  <2> QED BY <1>1 DEF IsPass
<1>5. RepairStep(fid, bad, asks(fid, bad), names(bad), edges(fid, bad))
  BY <1>1, <1>2, <1>3, <1>4, Zenon DEF RepairStep
<1> QED BY <1>5

LEMMA RepairEdgesKeeps ==
  ASSUME IndexInv, RepairEdges
  PROVE  IndexInv' /\ db'.files = db.files
<1>1. PICK fid, bad, all, names, edges : RepairStep(fid, bad, all, names, edges)
  BY RepairTaken DEF IndexInv, TypeOK
<1>2. pass.at = "repair" /\ UNCHANGED <<disk, coming, cancelled, excused>>
  BY DEF RepairEdges, Environment
<1>3. /\ IsPass(pass') /\ pass'.at = "repair" /\ pass'.walked = pass.walked
      /\ pass'.existing = pass.existing /\ pass'.recs = pass.recs
      /\ pass'.seen = pass.seen /\ pass'.reuse = pass.reuse
  BY <1>1, <1>2 DEF RepairStep, IndexInv, TypeOK, IsPass
<1>4. fails' \in Nat /\ (fails' = 0 => fails = 0) /\ clean' = (clean /\ bad = {})
  BY <1>1, Counted DEF RepairStep, IndexInv, TypeOK
<1>5. Sound(db') /\ db'.files = db.files /\ db'.symbols = db.symbols
  BY <1>1, EdgesSaved DEF RepairStep, After, IndexInv
<1> QED BY <1>2, <1>3, <1>4, <1>5, QuietKeeps DEF IndexInv, TypeOK

\* What the pass has seen is taken off the list.
LEMMA RepairEndsKeeps ==
  ASSUME IndexInv, RepairEnds
  PROVE  IndexInv'
<1>1. pass.at = "repair" /\ UNCHANGED <<disk, coming, db, cancelled, fails, clean, excused>>
  BY DEF RepairEnds, Environment
<1>2. /\ IsPass(pass') /\ pass'.at = "delete" /\ pass'.walked = pass.walked
      /\ pass'.existing = {r \in pass.existing : r.path \notin pass.seen}
      /\ pass'.recs = pass.recs /\ pass'.seen = pass.seen /\ pass'.reuse = pass.reuse
  BY DEF RepairEnds, IndexInv, TypeOK, IsPass
<1>3. TypeOK'
  BY <1>1, <1>2 DEF IndexInv, TypeOK, Busy
<1>4. /\ Waiting = {} /\ Waiting' = {} /\ Working = {} /\ Working' = {}
      /\ ~Refreshing /\ ~Refreshing' /\ ~Consuming'
  BY <1>1, <1>2 DEF Waiting, Working, Busy, Refreshing, Consuming
<1>5. SameFiles' /\ Covered'
  BY <1>1, <1>2, <1>4 DEF IndexInv, FilesInv, SameFiles, Covered, PathsUnique, IdsUnique
<1>6. ASSUME Simple PROVE Faithful'
  <2>1. Faithful
    BY <1>6 DEF IndexInv
  <2>2. HashesTrue'
    <3>1. /\ \A i \in DOMAIN pass'.recs : Recorded(pass'.recs[i].path, pass'.recs[i].hash)
          /\ \A r \in db.files : Recorded(r.path, r.hash)
          /\ \A r \in pass'.existing : Recorded(r.path, r.hash)
      BY <1>2, <2>1 DEF Faithful, HashesTrue
    <3> QED BY <1>1, <1>4, <3>1 DEF HashesTrue, Recorded
  <2>3. Queue' /\ Untouched'
    BY <1>1, <1>2, <1>4, <2>1 DEF Faithful, Queue, Untouched
  <2>4. RecordRight' /\ ContentsPass'
    BY <1>1, <1>4, <2>1 DEF Faithful, RecordRight, ContentsPass
  <2>5. ASSUME clean' PROVE CleanPass' /\ ~cancelled'
    <3>1. CleanPass /\ ~cancelled
      BY <1>1, <2>1, <2>5 DEF Faithful
    <3> QED BY <1>1, <1>2, <1>4, <3>1 DEF CleanPass, RowsFor, PresentIn, Accounted
  <2> QED BY <1>1, <1>2, <2>1, <2>2, <2>3, <2>4, <2>5 DEF Faithful
<1>7. ASSUME Simple, fails' = 0 PROVE Unfailed'
  BY <1>1, <1>4, <1>7 DEF IndexInv, Unfailed, SymbolsRight, Holds
<1> QED BY <1>1, <1>2, <1>3, <1>5, <1>6, <1>7 DEF IndexInv, FilesInv, Reuse

\* A row that is deleted is that of a file the pass has not seen.
LEMMA DeleteUnseenKeeps ==
  ASSUME IndexInv, DeleteUnseen
  PROVE  /\ IndexInv'
         /\ \A q \in db.files : Row(db'.files, q.path) = {} => q.path \in excused \cup Tests
<1>1. PICK r \in pass.existing, bad \in SUBSET {"deletefile"} :
        /\ Failing(bad, {"deletefile"}) /\ db' = After(DeleteFile(db, r.id, TRUE), bad)
        /\ pass' = [pass EXCEPT !.existing = pass.existing \ {r}]
  BY DEF DeleteUnseen
<1>2. pass.at = "delete" /\ UNCHANGED <<disk, coming, cancelled, excused>>
  BY DEF DeleteUnseen, Environment
<1>3. /\ IsPass(pass') /\ pass'.at = "delete" /\ pass'.walked = pass.walked
      /\ pass'.existing = pass.existing \ {r}
      /\ pass'.recs = pass.recs /\ pass'.seen = pass.seen /\ pass'.reuse = pass.reuse
  BY <1>1, <1>2 DEF IndexInv, TypeOK, IsPass
<1>4. /\ fails' \in Nat /\ (fails' = 0 => fails = 0 /\ (cancelled \/ bad = {}))
      /\ clean' = (clean /\ bad = {}) /\ (cancelled => bad # {})
  <2>1. fails \in Nat /\ {"deletefile"} # {}
    BY DEF IndexInv, TypeOK
  <2>2. cancelled => bad = {"deletefile"}
    BY <1>1, <2>1, Counted
  <2>3. fails' \in Nat /\ (fails' = 0 => fails = 0 /\ (cancelled \/ bad = {})) /\ clean' = (clean /\ bad = {})
    BY <1>1, <2>1, Counted
  <2> QED BY <2>1, <2>2, <2>3
<1>5. /\ Sound(db')
      /\ bad # {} => db' = db
      /\ bad = {} => /\ db'.files = {q \in db.files : q.id # r.id}
                     /\ db'.symbols = db.symbols \ SymbolsOf(db, r.id)
  BY <1>1, FileDeleted DEF After, IndexInv
<1>6. TypeOK'
  BY <1>2, <1>3, <1>4 DEF IndexInv, TypeOK, Busy
<1>7. /\ Waiting = {} /\ Waiting' = {} /\ Working = {} /\ Working' = {}
      /\ ~Refreshing /\ ~Refreshing' /\ ~Consuming'
  BY <1>2, <1>3 DEF Waiting, Working, Busy, Refreshing, Consuming
<1>8. db'.files \subseteq db.files
  BY <1>5
<1>9. SameFiles /\ Covered
  BY <1>2 DEF IndexInv, FilesInv
<1>10. SameFiles' /\ Covered'
  BY <1>2, <1>3, <1>7, <1>8, <1>9 DEF SameFiles, Covered, PathsUnique, IdsUnique
<1>11. ASSUME NEW q \in db.files, Row(db'.files, q.path) = {}
       PROVE  q.path \in excused \cup Tests
  <2>1. q \notin db'.files
    BY <1>11 DEF Row
  <2>2. bad = {} /\ q.id = r.id
    BY <1>5, <2>1
  <2>3. q.path = r.path /\ ~cancelled
    BY <1>4, <1>9, <2>2 DEF SameFiles
  <2> QED BY <1>2, <1>7, <1>9, <2>3 DEF Covered
<1>12. ASSUME Simple PROVE Faithful'
  <2>1. Faithful
    BY <1>12 DEF IndexInv
  <2>2. HashesTrue'
    <3>1. /\ \A i \in DOMAIN pass'.recs : Recorded(pass'.recs[i].path, pass'.recs[i].hash)
          /\ \A q \in db'.files : Recorded(q.path, q.hash)
          /\ \A q \in pass'.existing : Recorded(q.path, q.hash)
      BY <1>3, <1>8, <2>1 DEF Faithful, HashesTrue
    <3> QED BY <1>2, <1>7, <3>1 DEF HashesTrue, Recorded
  <2>3. Queue' /\ Untouched'
    BY <1>3, <1>7, <2>1 DEF Faithful, Queue, Untouched
  <2>7. RecordRight' /\ ContentsPass'
    BY <1>2, <1>7, <2>1 DEF Faithful, RecordRight, ContentsPass
  <2>8. ASSUME clean' PROVE CleanPass' /\ ~cancelled'
    <3>1. CleanPass /\ ~cancelled /\ bad = {}
      BY <1>2, <1>4, <2>1, <2>8 DEF Faithful
    <3>2. RowsFor(pass.seen)'
      <4>1. \A q \in db.files : q.path \in pass.seen => q \in db'.files
        BY <1>2, <1>5, <1>9, <3>1 DEF SameFiles, Covered
      <4> QED BY <1>2, <1>3, <3>1, <4>1 DEF CleanPass, RowsFor
    <3>3. Accounted'
      BY <1>2, <1>3, <1>5, <1>7, <3>1 DEF CleanPass, Accounted
    <3> QED BY <1>2, <1>3, <1>7, <3>1, <3>2, <3>3 DEF CleanPass, RowsFor, PresentIn
  <2> QED BY <1>2, <1>3, <2>1, <2>2, <2>3, <2>7, <2>8 DEF Faithful
<1>14. ASSUME Simple, fails' = 0 PROVE Unfailed'
  <2>1. Unfailed /\ bad = {}
    BY <1>4, <1>14 DEF IndexInv, Unfailed
  <2>2. \A q \in db'.files : SymbolsOf(db', q.id) = SymbolsOf(db, q.id)
    BY <1>5, <2>1 DEF SymbolsOf
  <2> QED BY <1>2, <1>7, <1>8, <2>1, <2>2 DEF Unfailed, SymbolsRight, Holds
<1>13. Reuse'
  BY <1>2, <1>3 DEF IndexInv, Reuse
<1> QED BY <1>2, <1>5, <1>6, <1>10, <1>11, <1>12, <1>13, <1>14 DEF IndexInv, FilesInv

\* Between passes.
LEMMA IdleKeeps ==
  ASSUME IndexInv, pass' = Idle, cancelled' = FALSE, UNCHANGED <<disk, coming, db>>,
         fails' \in Nat, clean' \in BOOLEAN, Simple => (clean' => CleanTable),
         Simple /\ fails' = 0 => SymbolsRight /\ ~Refreshing
  PROVE  IndexInv'
<1>1. /\ IsPass(pass') /\ pass'.at = "idle" /\ pass'.existing = {} /\ pass'.walked = 0
      /\ pass'.recs = <<>> /\ pass'.reuse = {} /\ pass'.seen = {}
  BY DEF Idle, IsPass
<1>2. TypeOK'
  <2>1. <<>> \in Seq(Records) /\ 0 \in 0 .. Len(WalkOrder)
    BY IndexerAssumption
  <2> QED BY <1>1, <2>1 DEF IndexInv, TypeOK, Busy
<1>3. Waiting' = {} /\ Working' = {} /\ ~Refreshing' /\ ~Consuming'
  BY <1>1 DEF Waiting, Working, Busy, Refreshing, Consuming
<1>4. ASSUME Simple PROVE Faithful'
  <2>1. Faithful
    BY <1>4 DEF IndexInv
  <2>2. HashesTrue'
    BY <1>1, <1>3, <2>1 DEF Faithful, HashesTrue, Recorded
  <2>3. Queue' /\ Untouched'
    BY <1>1, <1>3 DEF Queue, Untouched
  <2>5. RecordRight' /\ ContentsPass' /\ (clean' => CleanTable')
    BY <1>3, <1>4, <2>1 DEF Faithful, RecordRight, ContentsPass, CleanTable, PresentIn
  <2> QED BY <1>1, <2>2, <2>3, <2>5 DEF Faithful
<1>5. ASSUME Simple, fails' = 0 PROVE Unfailed'
  BY <1>3, <1>5 DEF Unfailed, SymbolsRight, Holds
<1> QED BY <1>1, <1>2, <1>4, <1>5 DEF IndexInv, FilesInv, Reuse

\* The list is empty and the pass ends: what it found is in the table.
LEMMA FinishKeeps ==
  ASSUME IndexInv, Finish
  PROVE  IndexInv'
<1>1. PICK bad, all : Failing(bad, all)
  BY DEF Finish
<1>2. /\ pass.at = "delete" /\ pass.existing = {} /\ pass' = Idle /\ cancelled' = FALSE
      /\ UNCHANGED <<disk, coming, db>>
  BY DEF Finish
<1>3. fails' \in Nat /\ (fails' = 0 => fails = 0) /\ clean' = (clean /\ bad = {})
  BY <1>1, Counted DEF IndexInv, TypeOK
<1>4. Waiting = {} /\ Working = {} /\ ~Refreshing
  BY <1>2 DEF Waiting, Working, Busy, Refreshing, Consuming
<1>5. ASSUME Simple PROVE clean' => CleanTable
  <2>1. Faithful
    BY <1>5 DEF IndexInv
  <2>2. ASSUME clean' PROVE CleanTable
    <3>1. CleanPass
      BY <1>2, <1>3, <2>1, <2>2 DEF Faithful
    <3>2. \A r \in db.files : r.path \in pass.seen
      BY <1>2, <1>4, <3>1 DEF CleanPass, Accounted
    <3>3. \A p \in pass.seen : \E r \in db.files : r.path = p /\ r.hash.stamp = disk[p].stamp
      BY <3>1 DEF CleanPass, RowsFor
    <3>4. PresentIn({r.path : r \in db.files})
      BY <1>4, <3>1, <3>3 DEF CleanPass, PresentIn
    <3>5. \A r \in db.files : r.hash.stamp = disk[r.path].stamp
      BY <3>2, <3>3 DEF IndexInv, Sound, PathsUnique
    <3> QED BY <3>4, <3>5 DEF CleanTable
  <2> QED BY <2>1, <2>2
<1>6. Simple /\ fails' = 0 => SymbolsRight
  BY <1>3 DEF IndexInv, Unfailed
<1> QED BY <1>2, <1>3, <1>4, <1>5, <1>6, IdleKeeps DEF IndexInv, TypeOK

\* The process dies,
LEMMA CrashKeeps ==
  ASSUME IndexInv, Crash
  PROVE  IndexInv'
<1>1. /\ pass' = Idle /\ cancelled' = FALSE /\ UNCHANGED <<disk, coming, db>>
      /\ fails' = fails + 1 /\ clean' = FALSE
  BY DEF Crash
<1>2. fails' \in Nat /\ fails' # 0
  BY <1>1 DEF IndexInv, TypeOK
<1>3. clean' \in BOOLEAN
  BY <1>1
<1> QED BY <1>1, <1>2, <1>3, IdleKeeps

\* or is told to stop.
LEMMA CancelKeeps ==
  ASSUME IndexInv, Cancel
  PROVE  IndexInv'
<1>1. /\ cancelled' = TRUE /\ fails' = fails + 1 /\ clean' = FALSE
      /\ UNCHANGED <<disk, coming, db, pass, excused>> /\ pass.at # "idle"
  BY DEF Cancel
<1>2. fails' \in Nat /\ fails' # 0
  BY <1>1 DEF IndexInv, TypeOK
<1>3. TypeOK'
  BY <1>1, <1>2 DEF IndexInv, TypeOK, Busy
<1>4. FilesInv'
  BY <1>1 DEF IndexInv, FilesInv, SameFiles, Covered
<1>5. ASSUME Simple PROVE Faithful'
  <2>1. Faithful
    BY <1>5 DEF IndexInv
  <2>2. /\ Read' = Read /\ Ahead' = Ahead /\ Working' = Working /\ Waiting' = Waiting
        /\ Consuming' = Consuming /\ Refreshing' = Refreshing
    BY <1>1 DEF Read, Ahead, Working, Busy, Waiting, Consuming, Refreshing
  <2>3. HashesTrue' /\ ContentsPass'
    BY <1>1, <2>1, <2>2 DEF Faithful, HashesTrue, Recorded, ContentsPass
  <2>4. Queue' /\ Untouched' /\ RecordRight'
    BY <1>1, <2>1, <2>2 DEF Faithful, Queue, Untouched, RecordRight
  <2> QED BY <1>1, <2>3, <2>4 DEF Faithful
<1> QED BY <1>1, <1>2, <1>3, <1>4, <1>5 DEF IndexInv, Reuse

-----------------------------------------------------------------------------
(* The steps that replace a file.                                          *)

\* Its old symbols go, and what is kept of their vectors goes by their texts.
LEMMA ReplaceKeeps ==
  ASSUME IndexInv, Replace
  PROVE  IndexInv' /\ db'.files = db.files
<1> DEFINE rec == Head(pass.recs)
           prev == Row(pass.existing, rec.path)
           fid == RowId(prev, rec.path)
           Effect(bad, all, old) ==
             /\ old \subseteq db.symbols /\ Failing(bad, all)
             /\ db' = IF prev = {} \/ "delete" \in bad THEN db ELSE DeleteSymbolsByFile(db, fid, TRUE).db
             /\ IsPass(pass') /\ pass'.at = "save" /\ pass'.walked = pass.walked
             /\ pass'.existing = pass.existing /\ pass'.recs = Tail(pass.recs)
             /\ pass'.rec = [path |-> rec.path, hash |-> rec.hash, content |-> disk[rec.path].sum, ids |-> <<>>]
             /\ pass'.seen = pass.seen /\ pass'.reuse = Reusable(old)
<1>1. PICK bad, all, old : Effect(bad, all, old)
  <2> DEFINE asks == (IF pass.loaded THEN {} ELSE {"names"})
                       \cup (IF prev = {} THEN {} ELSE {"list", "callers", "delete"})
             oldOf(bad) == IF "list" \in bad THEN {} ELSE {s \in db.symbols : s.file \in Ids(prev)}
             mapOf(bad) == IF pass.loaded THEN pass.names
                           ELSE NamesOf(IF "names" \in bad THEN {} ELSE db.symbols)
             depsOf(bad) == IF "callers" \in bad THEN pass.deps ELSE pass.deps \cup Callers(oldOf(bad))
  <2>1. PICK bad \in SUBSET asks :
          /\ Failing(bad, asks)
          /\ pass' = [pass EXCEPT !.at = "save", !.recs = Tail(pass.recs),
               !.rec = [path |-> rec.path, hash |-> rec.hash, content |-> disk[rec.path].sum, ids |-> <<>>],
               !.loaded = TRUE, !.names = RemoveNames(mapOf(bad), oldOf(bad)),
               !.reuse = Reusable(oldOf(bad)), !.deps = depsOf(bad)]
          /\ db' = IF prev = {} \/ "delete" \in bad THEN db ELSE DeleteSymbolsByFile(db, fid, TRUE).db
    BY Zenon DEF Replace
  <2>2. oldOf(bad) \subseteq db.symbols
    OBVIOUS
  <2> HIDE DEF asks, oldOf, mapOf, depsOf, prev, fid, rec
  <2>3. Effect(bad, asks, oldOf(bad))
    BY <2>1, <2>2 DEF IndexInv, TypeOK, IsPass
  <2> HIDE DEF Effect
  <2> QED BY <2>3
<1>2. /\ pass.at = "walk" /\ pass.recs # <<>> /\ disk[rec.path].sum # Gone
      /\ UNCHANGED <<disk, coming, cancelled, excused>>
  BY DEF Replace, Environment
<1>4. /\ rec \in Records /\ pass'.recs \in Seq(Records)
      /\ Read' \subseteq Read /\ rec.path \in Read /\ Read \subseteq Read' \cup {rec.path}
      /\ \E i \in DOMAIN pass.recs : rec = pass.recs[i]
      /\ \A i \in DOMAIN pass'.recs : \E j \in DOMAIN pass.recs : pass'.recs[i] = pass.recs[j]
      /\ Queue => /\ rec.path \notin Read'
                  /\ \A i, j \in DOMAIN pass'.recs : pass'.recs[i].path = pass'.recs[j].path => i = j
  BY <1>1, <1>2, RecordTaken DEF IndexInv
<1>5. fails' \in Nat /\ (fails' = 0 => fails = 0 /\ (cancelled \/ bad = {})) /\ clean' = (clean /\ bad = {})
  BY <1>1, Counted DEF IndexInv, TypeOK
<1> HIDE DEF fid
<1>6. /\ Sound(db') /\ db'.files = db.files
      /\ bad = {} => IF prev = {} THEN db' = db ELSE db'.symbols = db.symbols \ SymbolsOf(db, fid)
  BY <1>1, FileEmptied DEF IndexInv
<1>7. prev # {} => \E e \in pass.existing : e.path = rec.path /\ e.id = fid
  <2> SUFFICES ASSUME prev # {} PROVE \E e \in pass.existing : e.path = rec.path /\ e.id = fid
    OBVIOUS
  <2>1. Row(prev, rec.path) = prev
    BY DEF Row
  <2>2. PICK e : e = CHOOSE r \in prev : TRUE
    OBVIOUS
  <2>3. e \in prev /\ e.id = fid
    BY <2>1, <2>2 DEF fid, RowId
  <2> QED BY <2>3 DEF Row
<1> HIDE DEF rec
<1>8. TypeOK'
  <2>1. IsRec(pass'.rec)
    <3>1. rec.path \in Files /\ rec.hash \in Hashes
      BY <1>4 DEF Records
    <3>2. disk[rec.path].sum \in Contents
      BY <1>2, <3>1 DEF IndexInv, TypeOK
    <3> QED BY <1>1, <3>1, <3>2 DEF IsRec
  <2> QED BY <1>1, <1>2, <1>4, <1>5, <2>1 DEF IndexInv, TypeOK
<1>9. Reuse'
  <2>1. \A r \in Reusable(old) : r.vec = r.text
    <3>1. old \subseteq db.symbols /\ \A s \in db.symbols, v \in db.vecs : v.id = s.id => v.text = s.text
      BY <1>1 DEF IndexInv, Sound, VectorsOwn
    <3> QED BY <3>1 DEF Reusable
  <2> QED BY <1>1, <2>1 DEF Reuse
<1>10. /\ Working = {} /\ Working' = {rec.path} /\ Ahead' = Ahead /\ Waiting = Ahead \cup Read
       /\ Waiting' = Ahead \cup Read' /\ ~Refreshing /\ Refreshing' /\ Consuming
       /\ pass'.rec.path = rec.path /\ pass'.rec.hash = rec.hash
       /\ pass'.rec.content = disk[rec.path].sum
  BY <1>1, <1>2 DEF Working, Busy, Ahead, Waiting, Consuming, Refreshing
<1>11. SameFiles /\ SameFiles' /\ Covered'
  BY <1>1, <1>2, <1>4, <1>6, <1>10 DEF IndexInv, FilesInv, SameFiles, Covered
<1>12. ASSUME Simple PROVE Faithful'
  <2>1. Faithful
    BY <1>12 DEF IndexInv
  <2>2. HashesTrue'
    <3>1. /\ \A i \in DOMAIN pass'.recs : Recorded(pass'.recs[i].path, pass'.recs[i].hash)
          /\ \A r \in db'.files : Recorded(r.path, r.hash)
          /\ \A r \in pass'.existing : Recorded(r.path, r.hash)
          /\ Recorded(pass'.rec.path, pass'.rec.hash)
      BY <1>1, <1>4, <1>6, <1>10, <2>1 DEF Faithful, HashesTrue
    <3> QED BY <1>2, <3>1 DEF HashesTrue, Recorded
  <2>3. Queue'
    BY <1>1, <1>2, <1>4, <1>10, <2>1 DEF Faithful, Queue
  <2>4. Untouched'
    BY <1>1, <1>2, <1>4, <1>6, <1>10, <2>1 DEF Faithful, Untouched
  <2>6. RecordRight'
    BY <1>1, <1>2, <1>10 DEF RecordRight
  <2>7. ASSUME clean' PROVE CleanPass' /\ ~cancelled'
    <3>1. CleanPass /\ ~cancelled
      BY <1>2, <1>5, <2>1, <2>7 DEF Faithful
    <3>2. /\ \A i \in DOMAIN pass'.recs : pass'.recs[i].hash.stamp = disk[pass'.recs[i].path].stamp
          /\ rec.hash.stamp = disk[rec.path].stamp
      BY <1>4, <3>1 DEF CleanPass
    <3>3. RowsFor(pass.seen)'
      BY <1>1, <1>2, <1>6, <3>1 DEF CleanPass, RowsFor
    <3>4. PresentIn(Waiting \cup Working \cup pass.seen)'
      BY <1>1, <1>2, <1>4, <1>10, <3>1 DEF CleanPass, PresentIn
    <3>5. Accounted'
      BY <1>1, <1>6, <1>10, <3>1 DEF CleanPass, Accounted
    <3> QED BY <1>1, <1>2, <1>10, <3>1, <3>2, <3>3, <3>4, <3>5 DEF CleanPass
  <2>8. ContentsPass'
    BY <1>2, <2>1 DEF Faithful, ContentsPass
  <2> QED BY <1>1, <1>2, <2>1, <2>2, <2>3, <2>4, <2>6, <2>7, <2>8 DEF Faithful
<1>13. ASSUME Simple, fails' = 0 PROVE Unfailed'
  <2>1. Faithful /\ Unfailed /\ bad = {}
    BY <1>5, <1>13 DEF IndexInv, Unfailed
  <2>2. ASSUME NEW r \in db.files, r.path = rec.path PROVE SymbolsOf(db', r.id) = {}
    <3>1. r \in pass.existing
      BY <1>4, <1>10, <2>1, <2>2 DEF Faithful, Untouched
    <3>2. r.id = fid /\ prev # {}
      BY <1>7, <1>11, <2>2, <3>1 DEF SameFiles, PathsUnique, Row
    <3> QED BY <1>6, <2>1, <3>2 DEF SymbolsOf
  <2>3. ASSUME NEW r \in db.files, r.path # rec.path PROVE SymbolsOf(db', r.id) = SymbolsOf(db, r.id)
    <3>1. prev # {} => r.id # fid
      BY <1>7, <1>11, <2>3 DEF SameFiles
    <3> QED BY <1>6, <2>1, <3>1 DEF SymbolsOf
  <2>4. SymbolsRight'
    BY <1>2, <1>6, <1>10, <2>1, <2>2, <2>3 DEF Unfailed, SymbolsRight, Holds
  <2> QED BY <1>2, <2>1, <2>4 DEF Unfailed
<1> QED BY <1>1, <1>6, <1>8, <1>9, <1>11, <1>12, <1>13 DEF IndexInv, FilesInv

\* A file that is given up in the middle is excused.
LEMMA GiveUpKeeps ==
  ASSUME IndexInv, Refreshing, GiveUp, UNCHANGED <<disk, coming, db, cancelled>>,
         fails' \in Nat, Simple => fails' # 0, clean' = FALSE
  PROVE  IndexInv'
<1>1. /\ IsPass(pass') /\ pass'.at = "walk" /\ pass'.walked = pass.walked
      /\ pass'.existing = pass.existing /\ pass'.recs = pass.recs
      /\ pass'.seen = pass.seen /\ pass'.reuse = pass.reuse
      /\ excused' = excused \cup {pass.rec.path}
  BY DEF GiveUp, IndexInv, TypeOK, IsPass
<1>2. TypeOK'
  BY <1>1 DEF IndexInv, TypeOK, Busy
<1>3. Waiting' = Waiting /\ Working = {pass.rec.path} /\ pass.at \notin {"idle", "delete"}
  BY <1>1 DEF Waiting, Ahead, Read, Consuming, Working, Busy, Refreshing
<1>4. SameFiles' /\ Covered'
  BY <1>1, <1>3 DEF IndexInv, FilesInv, SameFiles, Covered
<1>5. ASSUME Simple PROVE Faithful'
  <2>1. Faithful
    BY <1>5 DEF IndexInv
  <2>2. /\ Read' = Read /\ Ahead' = Ahead /\ Working' = {} /\ Consuming /\ ~Refreshing'
    BY <1>1 DEF Read, Ahead, Working, Busy, Consuming, Refreshing
  <2>3. HashesTrue' /\ ContentsPass'
    BY <1>1, <2>1, <2>2 DEF Faithful, HashesTrue, Recorded, ContentsPass
  <2>4. Queue' /\ Untouched' /\ RecordRight'
    BY <1>1, <1>3, <2>1, <2>2 DEF Faithful, Queue, Untouched, RecordRight
  <2> QED BY <2>3, <2>4 DEF Faithful
<1> QED BY <1>1, <1>2, <1>4, <1>5 DEF IndexInv, FilesInv, Reuse

\* Its row gets the hash of the record.
LEMMA SaveFileRowKeeps ==
  ASSUME IndexInv, SaveFileRow
  PROVE  IndexInv' /\ \A r \in db.files : Row(db'.files, r.path) # {}
<1> DEFINE p == pass.rec.path
           saved == SaveFile(db, p, pass.rec.hash)
           row == [id |-> saved.id, path |-> p, hash |-> pass.rec.hash]
<1>1. PICK bad \in SUBSET {"savefile"} :
        /\ Failing(bad, {"savefile"}) /\ db' = After(saved, bad)
        /\ \/ bad # {} /\ GiveUp
           \/ bad = {} /\ UNCHANGED excused
              /\ pass' = [pass EXCEPT !.at = "symbols", !.redone = pass.redone \cup {saved.id}]
  BY DEF SaveFileRow
<1>2. pass.at = "save" /\ UNCHANGED <<disk, coming, cancelled>>
  BY DEF SaveFileRow, Environment
<1>3. Busy /\ Refreshing /\ Consuming /\ Working = {p} /\ p \in Files /\ pass.rec.hash \in Hashes
  BY <1>2 DEF Busy, Refreshing, Consuming, Working, IndexInv, TypeOK, IsRec
<1>4. fails' \in Nat /\ (fails' = 0 => fails = 0 /\ (cancelled \/ bad = {})) /\ clean' = (clean /\ bad = {})
  BY <1>1, Counted DEF IndexInv, TypeOK
<1>5. CASE bad # {}
  <2>1. db' = db /\ GiveUp
    BY <1>1, <1>5 DEF After
  <2>2. Simple => fails' # 0
    BY <1>4, <1>5 DEF IndexInv, Unfailed
  <2>3. clean' = FALSE
    BY <1>4, <1>5
  <2>4. IndexInv'
    BY <1>2, <1>3, <1>4, <2>1, <2>2, <2>3, GiveUpKeeps
  <2> QED BY <2>1, <2>4 DEF Row
<1>6. CASE bad = {}
  <2>1. /\ IsPass(pass') /\ pass'.at = "symbols" /\ pass'.walked = pass.walked
        /\ pass'.existing = pass.existing /\ pass'.recs = pass.recs /\ pass'.rec = pass.rec
        /\ pass'.seen = pass.seen /\ pass'.reuse = pass.reuse /\ excused' = excused
    BY <1>1, <1>6 DEF IndexInv, TypeOK, IsPass
  <2>2. /\ Sound(db') /\ db'.files = (db.files \ Row(db.files, p)) \cup {row}
        /\ db'.symbols = db.symbols
        /\ \A r \in Row(db.files, p) : r.id = saved.id
        /\ \A r \in db.files : r.path # p => r.id # saved.id
        /\ Row(db.files, p) = {} => saved.id \notin Ids(db.files)
    BY <1>1, <1>3, <1>6, FileSaved DEF After, IndexInv
  <2>3. row.id = saved.id /\ row.path = p /\ row.hash = pass.rec.hash
    OBVIOUS
  <2>4. \A r \in db.files : IF r.path = p THEN r.id = row.id ELSE r.id # row.id
    BY <2>2, <2>3 DEF Row
  <2>5. /\ row \in db'.files
        /\ \A r \in db.files : r.path # p => r \in db'.files
        /\ \A r \in db'.files : r = row \/ (r \in db.files /\ r.path # p)
    BY <2>2 DEF Row
  <2>6. (\A r \in db.files : r.path # p) => row.id \notin Ids(db.files)
    BY <2>2, <2>3 DEF Row
  <2> HIDE DEF row, saved
  <2>7. TypeOK'
    BY <1>2, <1>3, <1>4, <2>1 DEF IndexInv, TypeOK, Busy
  <2>8. /\ Refreshing' /\ Working' = {p} /\ Consuming' /\ Waiting' = Waiting
        /\ Read' = Read /\ Ahead' = Ahead
    BY <1>3, <2>1 DEF Refreshing, Working, Busy, Consuming, Waiting, Read, Ahead
  <2>9. SameFiles'
    <3>1. SameFiles /\ pass.at # "delete" /\ pass'.at # "delete"
      BY <1>2, <2>1 DEF IndexInv, FilesInv
    <3>2. Ids(db.files) \subseteq Ids(db'.files)
      <4>1. \A r \in db.files : \E q \in db'.files : q.id = r.id
        BY <2>4, <2>5
      <4> QED BY <4>1 DEF Ids
    <3>3. ASSUME NEW r \in pass.existing, NEW q \in db'.files, r.id = q.id PROVE r.path = q.path
      <4>1. PICK o \in db.files : o.id = r.id /\ o.path = r.path
        <5>1. r.id \in Ids(db.files)
          BY <3>1 DEF SameFiles, Ids
        <5> QED BY <3>1, <5>1 DEF SameFiles, Ids
      <4>2. CASE q = row
        BY <2>3, <2>4, <3>3, <4>1, <4>2
      <4>3. CASE q \in db.files
        BY <3>1, <3>3, <4>3 DEF SameFiles
      <4> QED BY <2>5, <4>2, <4>3
    <3> QED BY <2>1, <3>1, <3>2, <3>3 DEF SameFiles
  <2>10. Covered'
    BY <1>2, <1>3, <2>1, <2>8 DEF IndexInv, FilesInv, Covered
  <2>11. Reuse'
    BY <2>1 DEF IndexInv, Reuse
  <2>12. \A r \in db.files : Row(db'.files, r.path) # {}
    BY <2>3, <2>5 DEF Row
  <2>13. ASSUME Simple PROVE Faithful'
    <3>1. Faithful
      BY <2>13 DEF IndexInv
    <3>2. HashesTrue'
      <4>1. /\ \A i \in DOMAIN pass'.recs : Recorded(pass'.recs[i].path, pass'.recs[i].hash)
            /\ \A r \in db'.files : Recorded(r.path, r.hash)
            /\ \A r \in pass'.existing : Recorded(r.path, r.hash)
            /\ Recorded(pass'.rec.path, pass'.rec.hash)
        BY <1>3, <2>1, <2>3, <2>5, <3>1 DEF Faithful, HashesTrue
      <4> QED BY <1>2, <4>1 DEF HashesTrue, Recorded
    <3>3. Queue'
      BY <1>3, <2>1, <2>8, <3>1 DEF Faithful, Queue
    <3>4. p \notin Waiting
      BY <1>3, <3>1 DEF Faithful, Queue
    <3>5. Untouched'
      BY <1>2, <1>3, <2>1, <2>3, <2>5, <2>8, <3>1, <3>4 DEF Faithful, Untouched
    <3>7. RecordRight'
      BY <1>2, <1>3, <2>1, <2>3, <2>5, <3>1 DEF Faithful, RecordRight
    <3>8. ASSUME clean' PROVE CleanPass' /\ ~cancelled'
      <4>1. CleanPass /\ ~cancelled
        BY <1>2, <1>4, <3>1, <3>8 DEF Faithful
      <4>2. RowsFor(pass.seen)'
        BY <1>2, <1>3, <2>1, <2>3, <2>5, <4>1 DEF CleanPass, RowsFor
      <4>3. PresentIn(Waiting \cup Working \cup pass.seen)'
        BY <1>2, <1>3, <2>1, <2>8, <4>1 DEF CleanPass, PresentIn
      <4>4. Accounted'
        BY <1>3, <2>1, <2>3, <2>5, <2>8, <4>1 DEF CleanPass, Accounted
      <4> QED BY <1>2, <1>3, <2>1, <4>1, <4>2, <4>3, <4>4 DEF CleanPass
    <3>9. ContentsPass'
      BY <1>2, <3>1 DEF Faithful, ContentsPass
    <3> QED BY <1>2, <2>1, <3>1, <3>2, <3>3, <3>5, <3>7, <3>8, <3>9 DEF Faithful
  <2>14. ASSUME Simple, fails' = 0 PROVE Unfailed'
    <3>1. Unfailed
      BY <1>4, <2>14 DEF IndexInv
    <3>2. SymbolsOf(db, row.id) = {}
      <4>1. CASE \A r \in db.files : r.path # p
        BY <2>6, <4>1 DEF IndexInv, Sound, SymbolsHaveFile, SymbolsOf
      <4>2. CASE \E r \in db.files : r.path = p
        BY <1>3, <2>4, <3>1, <4>2 DEF Unfailed, SymbolsRight
      <4> QED BY <4>1, <4>2
    <3>3. \A id : SymbolsOf(db', id) = SymbolsOf(db, id)
      BY <2>2 DEF SymbolsOf
    <3> QED BY <1>2, <1>3, <2>1, <2>3, <2>5, <2>8, <3>1, <3>2, <3>3 DEF Unfailed, SymbolsRight, Holds
  <2> QED BY <2>1, <2>2, <2>7, <2>9, <2>10, <2>11, <2>12, <2>13, <2>14 DEF IndexInv, FilesInv
<1> QED BY <1>5, <1>6

\* The file gets the symbols of the content that was parsed.
LEMMA SaveSymbolsKeeps ==
  ASSUME IndexInv, SaveSymbols
  PROVE  IndexInv' /\ db'.files = db.files
<1> DEFINE c == pass.rec.content
           p == pass.rec.path
           fid == RowId(db.files, p)
           saved == SaveSymbolBatch(db, fid, Parsed(c), TRUE)
           new == saved.db.symbols \ db.symbols
           rec == [path |-> p, hash |-> pass.rec.hash, content |-> c, ids |-> new]
           Effect(bad, all) ==
             /\ Failing(bad, all) /\ db' = After(saved, bad)
             /\ \/ bad # {} /\ GiveUp
                \/ /\ bad = {} /\ excused' = excused
                   /\ IsPass(pass') /\ pass'.at = "embed" /\ pass'.walked = pass.walked
                   /\ pass'.existing = pass.existing /\ pass'.recs = pass.recs
                   /\ pass'.rec = rec /\ pass'.seen = pass.seen /\ pass'.reuse = pass.reuse
<1>1. pass.at = "symbols" /\ UNCHANGED <<disk, coming, cancelled>>
  BY DEF SaveSymbols, Environment
<1>2. /\ Busy /\ Refreshing /\ Consuming /\ Working = {p}
      /\ p \in Files /\ pass.rec.hash \in Hashes /\ c \in Contents
      /\ pass.rec = [path |-> p, hash |-> pass.rec.hash, content |-> c, ids |-> pass.rec.ids]
  BY <1>1 DEF Busy, Refreshing, Consuming, Working, IndexInv, TypeOK, IsRec
<1>3. PICK bad, all : Effect(bad, all)
  <2> DEFINE asks == IF Defs[c] = <<>> THEN {} ELSE {"symbols"}
             names == [n \in Names |-> pass.names[n] \cup NamesOf(new)[n]]
             work == Append(pass.work, [content |-> c, local |-> LocalNames(new)])
  <2>1. PICK bad \in SUBSET {"symbols"} :
          /\ Failing(bad, asks) /\ db' = After(saved, bad)
          /\ \/ bad # {} /\ GiveUp
             \/ /\ bad = {} /\ UNCHANGED excused
                /\ pass' = [pass EXCEPT !.at = "embed", !.rec.ids = new, !.names = names, !.work = work]
    BY Zenon DEF SaveSymbols, Parsed
  <2> HIDE DEF asks, names, work, saved, new
  <2>2. [pass.rec EXCEPT !.ids = new] = rec
    BY <1>2
  <2> HIDE DEF rec
  <2>3. Effect(bad, asks)
    BY <2>1, <2>2 DEF IndexInv, TypeOK, IsPass
  <2> HIDE DEF Effect
  <2> QED BY <2>3
<1> HIDE DEF saved, new
<1>4. fails' \in Nat /\ (fails' = 0 => fails = 0 /\ (cancelled \/ bad = {})) /\ clean' = (clean /\ bad = {})
  BY <1>3, Counted DEF IndexInv, TypeOK
<1>5. CASE bad # {}
  <2>1. db' = db /\ GiveUp
    BY <1>3, <1>5 DEF After
  <2>2. Simple => fails' # 0
    BY <1>4, <1>5 DEF IndexInv, Unfailed
  <2>3. clean' = FALSE
    BY <1>4, <1>5
  <2> QED BY <1>1, <1>2, <1>4, <2>1, <2>2, <2>3, GiveUpKeeps
<1>6. CASE bad = {}
  <2>1. /\ IsPass(pass') /\ pass'.at = "embed" /\ pass'.walked = pass.walked
        /\ pass'.existing = pass.existing /\ pass'.recs = pass.recs
        /\ pass'.rec = rec /\ pass'.seen = pass.seen /\ pass'.reuse = pass.reuse
        /\ excused' = excused /\ db' = saved.db
    BY <1>3, <1>6 DEF After
  <2>2. /\ pass'.rec.path = p /\ pass'.rec.hash = pass.rec.hash /\ pass'.rec.ids = db'.symbols \ db.symbols
        /\ IsRec(pass'.rec)
    BY <1>2, <2>1 DEF IsRec, new
  <2> HIDE DEF rec
  <2>3. /\ Sound(db') /\ db'.files = db.files
        /\ fid \in Ids(db.files) => \E base \in Nat :
             /\ db'.symbols = db.symbols \cup SymbolRows(fid, c, base)
             /\ SymbolRows(fid, c, base) \cap db.symbols = {}
    <3>1. CASE fid \in Ids(db.files)
      <4>1. saved = SaveSymbolBatch(db, fid, Parsed(c), TRUE) /\ Sound(db)
        BY DEF saved, IndexInv
      <4> HIDE DEF fid, c
      <4>2. c \in Contents
        BY <1>2
      <4>3. LET res == SaveSymbolBatch(db, fid, Parsed(c), TRUE)
            IN /\ Sound(res.db) /\ res.db.files = db.files
               /\ \E base \in Nat :
                    /\ res.db.symbols = db.symbols \cup SymbolRows(fid, c, base)
                    /\ SymbolRows(fid, c, base) \cap db.symbols = {}
        BY Zenon, <3>1, <4>1, <4>2, SymbolsSaved
      <4> QED BY <2>1, <4>1, <4>3
    <3>2. CASE fid \notin Ids(db.files)
      <4>1. saved = Failed(db)
        BY <3>2 DEF saved, SaveSymbolBatch
      <4> QED BY <2>1, <3>2, <4>1 DEF Failed, IndexInv
    <3> QED BY <3>1, <3>2
  <2> HIDE DEF fid, c
  <2>4. TypeOK'
    BY <1>1, <1>4, <2>1, <2>2 DEF IndexInv, TypeOK
  <2>5. Reuse'
    BY <2>1, <2>2 DEF IndexInv, Reuse
  <2>6. /\ ~Refreshing' /\ Working' = {p} /\ Consuming' /\ Waiting' = Waiting
        /\ Read' = Read /\ Ahead' = Ahead
    BY <1>2, <2>1, <2>2 DEF Refreshing, Working, Busy, Consuming, Waiting, Read, Ahead
  <2>7. SameFiles' /\ Covered'
    BY <1>1, <1>2, <2>1, <2>3, <2>6 DEF IndexInv, FilesInv, SameFiles, Covered
  <2>8. ASSUME Simple PROVE Faithful' /\ (SymbolsRight => SymbolsRight')
    <3>1. Faithful
      BY <2>8 DEF IndexInv
    <3>2. PICK r0 \in db.files : r0.path = p /\ r0.hash = pass.rec.hash /\ r0.id = fid
      <4>1. PICK r0 \in db.files : r0.path = p /\ r0.hash = pass.rec.hash
        BY <1>1, <1>2, <3>1 DEF Faithful, RecordRight
      <4>2. Row(db.files, p) # {}
        BY <4>1 DEF Row
      <4>3. PICK q : q = CHOOSE r \in Row(db.files, p) : TRUE
        OBVIOUS
      <4>4. q \in db.files /\ q.path = p /\ fid = q.id
        BY <4>2, <4>3 DEF Row, fid, RowId
      <4>5. q = r0
        BY <4>1, <4>4 DEF IndexInv, Sound, PathsUnique
      <4> QED BY <4>1, <4>4, <4>5
    <3>3. PICK base \in Nat : db'.symbols = db.symbols \cup SymbolRows(fid, c, base)
      BY <2>3, <3>2 DEF Ids
    <3>4. \A s \in SymbolRows(fid, c, base) : s.file = fid
      BY DEF SymbolRows
    <3>5. SymbolsRight => SymbolsOf(db', fid) = SymbolRows(fid, c, base)
      <4>1. SymbolsRight => SymbolsOf(db, fid) = {}
        BY <1>2, <3>2 DEF SymbolsRight
      <4> QED BY <3>3, <3>4, <4>1 DEF SymbolsOf
    <3>6. \A id : id # fid => SymbolsOf(db', id) = SymbolsOf(db, id)
      BY <3>3, <3>4 DEF SymbolsOf
    <3>7. HashesTrue'
      <4>1. /\ \A i \in DOMAIN pass'.recs : Recorded(pass'.recs[i].path, pass'.recs[i].hash)
            /\ \A r \in db'.files : Recorded(r.path, r.hash)
            /\ \A r \in pass'.existing : Recorded(r.path, r.hash)
        BY <2>1, <2>3, <3>1 DEF Faithful, HashesTrue
      <4> QED BY <1>1, <2>6, <4>1 DEF HashesTrue, Recorded
    <3>8. Queue'
      BY <1>2, <2>1, <2>6, <3>1 DEF Faithful, Queue
    <3>9. Untouched'
      BY <1>1, <1>2, <2>1, <2>3, <2>6, <3>1 DEF Faithful, Untouched
    <3>10. SymbolsRight => SymbolsRight'
      <4> SUFFICES ASSUME SymbolsRight, NEW r \in db.files, r.hash.stamp = disk[r.path].stamp
                   PROVE  \E b \in Nat : SymbolsOf(db', r.id) = SymbolRows(r.id, disk[r.path].sum, b)
        BY <1>1, <2>3, <2>6 DEF SymbolsRight, Holds
      <4>1. CASE r.path = p
        <5>1. r = r0
          BY <3>2, <4>1 DEF IndexInv, Sound, PathsUnique
        <5>2. c = disk[p].sum
          BY <1>2, <3>1, <3>2, <4>1, <5>1 DEF Faithful, RecordRight, c
        <5> QED BY <3>2, <3>5, <4>1, <5>1, <5>2
      <4>2. CASE r.path # p
        <5>1. r.id # fid
          BY <3>2, <4>2 DEF IndexInv, Sound, IdsUnique
        <5>2. Holds(r.id, disk[r.path].sum)
          BY <4>2 DEF SymbolsRight
        <5> QED BY <3>6, <5>1, <5>2 DEF Holds
      <4> QED BY <4>1, <4>2
    <3>11. RecordRight'
      BY <2>6 DEF RecordRight
    <3>12. ASSUME clean' PROVE CleanPass' /\ ~cancelled'
      <4>1. CleanPass /\ ~cancelled
        BY <1>1, <1>4, <3>1, <3>12 DEF Faithful
      <4>2. RowsFor(pass.seen)'
        BY <1>1, <2>1, <2>3, <4>1 DEF CleanPass, RowsFor
      <4>3. RowsFor(Working)'
        BY <1>1, <1>2, <2>3, <2>6, <3>2, <4>1 DEF CleanPass, RowsFor
      <4>4. PresentIn(Waiting \cup Working \cup pass.seen)'
        BY <1>1, <1>2, <2>1, <2>6, <4>1 DEF CleanPass, PresentIn
      <4>5. Accounted'
        BY <1>2, <2>1, <2>3, <2>6, <4>1 DEF CleanPass, Accounted
      <4> QED BY <1>1, <2>1, <2>6, <4>1, <4>2, <4>3, <4>4, <4>5 DEF CleanPass
    <3>13. ContentsPass'
      BY <1>1, <3>1 DEF Faithful, ContentsPass
    <3> QED BY <1>1, <2>1, <3>1, <3>7, <3>8, <3>9, <3>10, <3>11, <3>12, <3>13 DEF Faithful
  <2>9. ASSUME Simple, fails' = 0 PROVE Unfailed'
    BY <1>1, <1>4, <2>8, <2>9 DEF IndexInv, Unfailed
  <2> QED BY <2>1, <2>3, <2>4, <2>5, <2>7, <2>8, <2>9 DEF IndexInv, FilesInv
<1> QED BY <1>5, <1>6

\* A vector that is stored, reused or new, is that of the symbol's text.
LEMMA EmbedSymbolsKeeps ==
  ASSUME IndexInv, EmbedSymbols
  PROVE  IndexInv' /\ db'.files = db.files /\ db'.symbols = db.symbols
<1> DEFINE p == pass.rec.path
           Effect(bad, all, rows) ==
             /\ Failing(bad, all)
             /\ \A r \in rows : \E s \in db.symbols : r.id = s.id /\ r.text = s.text
             /\ db' = IF "embed" \in bad THEN db ELSE UpsertEmbeddingBatch(db, rows).db
<1>1. /\ pass.at = "embed" /\ UNCHANGED <<disk, coming, cancelled, excused>>
      /\ pass' = [pass EXCEPT !.at = "walk", !.rec = <<>>, !.reuse = {}, !.seen = pass.seen \cup {p}]
  BY DEF EmbedSymbols, Environment
<1>2. PICK bad, all, rows : Effect(bad, all, rows)
  <2> DEFINE old(s) == {r \in pass.reuse : r.name = s.name /\ r.text = s.text}
             reused == {s \in pass.rec.ids : old(s) # {}}
             new(bad) == IF "embedder" \in bad THEN {} ELSE pass.rec.ids \ reused
             kept == {[id |-> s.id, text |-> (CHOOSE r \in old(s) : TRUE).vec] : s \in reused}
             made(bad) == {[id |-> s.id, text |-> s.text] : s \in new(bad)}
             asks(bad) == (IF reused = pass.rec.ids THEN {} ELSE {"embedder"})
                            \cup (IF kept \cup made(bad) = {} THEN {} ELSE {"embed"})
  <2>1. PICK bad \in SUBSET {"embedder", "embed"} :
          /\ Failing(bad, asks(bad))
          /\ db' = IF "embed" \in bad THEN db ELSE UpsertEmbeddingBatch(db, kept \cup made(bad)).db
    BY Zenon DEF EmbedSymbols
  <2>2. pass.rec.ids \subseteq db.symbols /\ \A r \in pass.reuse : r.vec = r.text
    BY <1>1 DEF IndexInv, Reuse
  <2>3. ASSUME NEW r \in kept PROVE \E s \in db.symbols : r.id = s.id /\ r.text = s.text
    <3>1. PICK s \in pass.rec.ids :
            old(s) # {} /\ r = [id |-> s.id, text |-> (CHOOSE q \in old(s) : TRUE).vec]
      OBVIOUS
    <3>2. PICK q : q = CHOOSE v \in old(s) : TRUE
      OBVIOUS
    <3>3. q \in pass.reuse /\ q.text = s.text
      BY <3>1, <3>2
    <3> HIDE DEF old
    <3>4. r.id = s.id /\ r.text = q.vec
      BY <3>1, <3>2
    <3> QED BY <2>2, <3>3, <3>4
  <2>4. ASSUME NEW r \in made(bad) PROVE \E s \in db.symbols : r.id = s.id /\ r.text = s.text
    BY <2>2
  <2> HIDE DEF asks, kept, made
  <2>5. Effect(bad, asks(bad), kept \cup made(bad))
    BY <2>1, <2>3, <2>4
  <2> HIDE DEF Effect
  <2> QED BY <2>5
<1>3. /\ IsPass(pass') /\ pass'.at = "walk" /\ pass'.walked = pass.walked
      /\ pass'.existing = pass.existing /\ pass'.recs = pass.recs
      /\ pass'.seen = pass.seen \cup {p} /\ pass'.reuse = {}
  BY <1>1 DEF IndexInv, TypeOK, IsPass
<1>4. fails' \in Nat /\ (fails' = 0 => fails = 0) /\ clean' = (clean /\ bad = {})
  BY <1>2, Counted DEF IndexInv, TypeOK
<1>5. Sound(db') /\ db'.files = db.files /\ db'.symbols = db.symbols
  BY <1>2, VectorsSaved DEF IndexInv
<1>6. TypeOK'
  BY <1>1, <1>3, <1>4 DEF IndexInv, TypeOK, Busy
<1>7. /\ Working = {p} /\ Working' = {} /\ Consuming /\ Consuming' /\ Waiting' = Waiting
      /\ Read' = Read /\ Ahead' = Ahead /\ ~Refreshing /\ ~Refreshing'
  BY <1>1, <1>3 DEF Working, Busy, Consuming, Waiting, Read, Ahead, Refreshing
<1>8. SameFiles' /\ Covered'
  BY <1>1, <1>3, <1>5, <1>7 DEF IndexInv, FilesInv, SameFiles, Covered
<1>9. ASSUME Simple PROVE Faithful'
  <2>1. Faithful
    BY <1>9 DEF IndexInv
  <2>2. HashesTrue'
    <3>1. /\ \A i \in DOMAIN pass'.recs : Recorded(pass'.recs[i].path, pass'.recs[i].hash)
          /\ \A r \in db'.files : Recorded(r.path, r.hash)
          /\ \A r \in pass'.existing : Recorded(r.path, r.hash)
      BY <1>3, <1>5, <2>1 DEF Faithful, HashesTrue
    <3> QED BY <1>1, <1>7, <3>1 DEF HashesTrue, Recorded
  <2>3. Queue' /\ Untouched'
    BY <1>1, <1>3, <1>5, <1>7, <2>1 DEF Faithful, Queue, Untouched
  <2>4. RecordRight' /\ ContentsPass'
    BY <1>1, <1>7, <2>1 DEF Faithful, RecordRight, ContentsPass
  <2>5. ASSUME clean' PROVE CleanPass' /\ ~cancelled'
    <3>1. CleanPass /\ ~cancelled
      BY <1>1, <1>4, <2>1, <2>5 DEF Faithful
    <3>2. RowsFor(pass.seen)'
      BY <1>1, <1>3, <1>5, <1>7, <3>1 DEF CleanPass, RowsFor
    <3>3. PresentIn(Waiting \cup Working \cup pass.seen)'
      BY <1>1, <1>3, <1>7, <3>1 DEF CleanPass, PresentIn
    <3>4. Accounted'
      BY <1>3, <1>5, <1>7, <3>1 DEF CleanPass, Accounted
    <3> QED BY <1>1, <1>3, <1>7, <3>1, <3>2, <3>3, <3>4 DEF CleanPass
  <2> QED BY <1>1, <1>3, <2>1, <2>2, <2>3, <2>4, <2>5 DEF Faithful
<1>10. ASSUME Simple, fails' = 0 PROVE Unfailed'
  BY <1>1, <1>4, <1>5, <1>7, <1>10 DEF IndexInv, Unfailed, SymbolsRight, SymbolsOf, Holds
<1> QED BY <1>3, <1>5, <1>6, <1>8, <1>9, <1>10 DEF IndexInv, FilesInv, Reuse

-----------------------------------------------------------------------------
(* The invariant holds.                                                    *)

\* An empty index is sound, and the histories give files that have not changed yet.
LEMMA InitKeeps == Init => IndexInv
<1> SUFFICES ASSUME Init PROVE IndexInv
  OBVIOUS
<1>1. PICK h \in Histories : /\ disk = [f \in Files |-> [sum |-> Head(h[f]), stamp |-> 0]]
                             /\ coming = [f \in Files |-> Tail(h[f])]
  BY DEF Init
<1>2. /\ pass = Idle /\ db = EmptyDB /\ fails = 0 /\ cancelled = FALSE /\ clean = FALSE
  BY DEF Init
<1>3. /\ IsPass(pass) /\ pass.at = "idle" /\ pass.existing = {} /\ pass.walked = 0
      /\ pass.recs = <<>> /\ pass.reuse = {} /\ pass.seen = {}
  BY <1>2 DEF Idle, IsPass
<1>4. \A f \in Files :
        /\ h[f] \in Seq(Contents \cup {Gone}) /\ h[f] # <<>>
        /\ Head(h[f]) = h[f][1] /\ 1 \in DOMAIN h[f] /\ Head(h[f]) \in Contents \cup {Gone}
        /\ Tail(h[f]) \in Seq(Contents \cup {Gone})
        /\ \A i \in DOMAIN Tail(h[f]) : /\ i \in Nat /\ i + 1 # 1 /\ i + 1 \in DOMAIN h[f]
                                        /\ Tail(h[f])[i] = h[f][i + 1]
  <2> SUFFICES ASSUME NEW f \in Files
               PROVE  /\ h[f] \in Seq(Contents \cup {Gone}) /\ h[f] # <<>>
                      /\ Head(h[f]) = h[f][1] /\ 1 \in DOMAIN h[f] /\ Head(h[f]) \in Contents \cup {Gone}
                      /\ Tail(h[f]) \in Seq(Contents \cup {Gone})
                      /\ \A i \in DOMAIN Tail(h[f]) : /\ i \in Nat /\ i + 1 # 1 /\ i + 1 \in DOMAIN h[f]
                                                      /\ Tail(h[f])[i] = h[f][i + 1]
    OBVIOUS
  <2>1. h[f] \in Seq(Contents \cup {Gone}) /\ h[f] # <<>>
    BY IndexerAssumption
  <2> QED BY <2>1, TailOf
<1>5. TypeOK
  <2>1. /\ disk \in [Files -> [sum : Contents \cup {Gone}, stamp : Nat]]
        /\ coming \in [Files -> Seq(Contents \cup {Gone})]
    BY <1>1, <1>4
  <2>2. <<>> \in Seq(Records) /\ 0 \in 0 .. Len(WalkOrder)
    BY IndexerAssumption
  <2> QED BY <1>2, <1>3, <2>1, <2>2 DEF TypeOK, Busy
<1>6. Sound(db)
  <2>1. /\ IsDB(db) /\ db.files = {} /\ db.symbols = {} /\ db.vecs = {}
    BY <1>2 DEF EmptyDB, IsDB
  <2>2. IdsBounded({})
    <3>1. Ids({}) = {} /\ 0 \in Nat
      BY DEF Ids
    <3> QED BY <3>1 DEF IdsBounded
  <2> QED BY <2>1, <2>2 DEF Sound, IdsUnique, PathsUnique, SymbolsHaveFile, VectorsHaveSymbol, VectorsOwn, Ids
<1>7. ASSUME Simple PROVE Faithful /\ Unfailed
  <2>1. ContentsPass
    <3> SUFFICES ASSUME NEW f \in Files
                 PROVE  /\ \A i \in DOMAIN coming[f] : coming[f][i] = disk[f].sum => disk[f].sum = Gone
                        /\ \A i, j \in DOMAIN coming[f] :
                             coming[f][i] = coming[f][j] /\ coming[f][i] # Gone => i = j
      BY DEF ContentsPass
    <3> DEFINE t == Tail(h[f])
    <3>1. \A i, j \in DOMAIN h[f] : h[f][i] = h[f][j] /\ h[f][i] # Gone => i = j
      BY <1>7 DEF Simple, NoReturns
    <3>2. disk[f].sum = h[f][1] /\ coming[f] = t
      BY <1>1, <1>4
    <3> HIDE DEF t
    <3>3. \A i \in DOMAIN t : t[i] = disk[f].sum => disk[f].sum = Gone
      BY <1>4, <3>1, <3>2 DEF t
    <3>4. ASSUME NEW i \in DOMAIN t, NEW j \in DOMAIN t, t[i] = t[j], t[i] # Gone PROVE i = j
      <4>1. i \in Nat /\ j \in Nat /\ i + 1 = j + 1
        BY <1>4, <3>1, <3>4 DEF t
      <4> QED BY <4>1
    <3> QED BY <3>2, <3>3, <3>4
  <2>2. db.files = {}
    BY <1>2 DEF EmptyDB
  <2>3. ~Refreshing /\ ~Consuming /\ DOMAIN pass.recs = {}
    BY <1>3 DEF Refreshing, Consuming
  <2>4. HashesTrue /\ Queue /\ Untouched
    BY <1>3, <2>2, <2>3 DEF HashesTrue, Queue, Untouched
  <2>5. SymbolsRight /\ RecordRight
    BY <2>2, <2>3 DEF SymbolsRight, RecordRight
  <2> QED BY <1>2, <2>1, <2>4, <2>5 DEF Faithful, Unfailed
<1> QED BY <1>3, <1>5, <1>6, <1>7 DEF IndexInv, Reuse, FilesInv

\* Every step keeps it, and only a pass's last phase takes a row away.
LEMMA NextKeeps ==
  ASSUME IndexInv, [Next]_vars
  PROVE  /\ IndexInv'
         /\ \A q \in db.files : Row(db'.files, q.path) = {} => q.path \in excused \cup Tests
<1> DEFINE OnlyGone == \A q \in db.files : Row(db'.files, q.path) = {} => q.path \in excused \cup Tests
<1>1. db'.files = db.files => OnlyGone
  BY DEF Row
<1>2. CASE UNCHANGED vars
  <2>1. UNCHANGED <<disk, coming, db, pass, cancelled, fails, clean, excused>>
    BY <1>2 DEF vars
  <2>2. TypeOK' /\ Sound(db') /\ Reuse'
    BY <2>1 DEF IndexInv, TypeOK, Busy, Reuse
  <2>3. SameFiles' = SameFiles /\ Covered' = Covered
    BY <2>1 DEF SameFiles, Covered, Waiting, Working, Ahead, Read, Consuming, Busy
  <2>4. ASSUME Faithful PROVE Faithful'
    <3>1. /\ Waiting' = Waiting /\ Working' = Working /\ Ahead' = Ahead /\ Read' = Read
          /\ Consuming' = Consuming /\ Refreshing' = Refreshing
      BY <2>1 DEF Waiting, Working, Ahead, Read, Consuming, Refreshing, Busy
    <3>2. ContentsPass' /\ HashesTrue'
      BY <2>1, <2>4, <3>1 DEF Faithful, ContentsPass, HashesTrue, Recorded
    <3>3. Queue' /\ Untouched'
      BY <2>1, <2>4, <3>1 DEF Faithful, Queue, Untouched
    <3>4. RecordRight'
      BY <2>1, <2>4, <3>1 DEF Faithful, RecordRight
    <3>5. clean /\ pass.at = "idle" => CleanTable'
      BY <2>1, <2>4 DEF Faithful, CleanTable, PresentIn
    <3>6. clean /\ pass.at # "idle" => CleanPass'
      BY <2>1, <2>4, <3>1 DEF Faithful, CleanPass, RowsFor, PresentIn, Accounted
    <3> QED BY <2>1, <2>4, <3>2, <3>3, <3>4, <3>5, <3>6 DEF Faithful
  <2>5. Unfailed => Unfailed'
    BY <2>1 DEF Unfailed, SymbolsRight, Refreshing, Holds
  <2> QED BY <1>1, <2>1, <2>2, <2>3, <2>4, <2>5 DEF IndexInv, FilesInv
<1>3. CASE \E f \in Files : Edit(f)
  BY <1>1, <1>3, EditKeeps DEF Edit
<1>4. CASE WalkFile
  BY <1>1, <1>4, WalkFileKeeps DEF WalkFile
<1>5. CASE WalkStops
  BY <1>1, <1>5, WalkStopsKeeps DEF WalkStops
<1>6. CASE StartPass
  BY <1>1, <1>6, StartKeeps DEF StartPass
<1>7. CASE Skip
  BY <1>1, <1>7, SkipKeeps DEF Skip
<1>8. CASE Unreadable
  BY <1>1, <1>8, UnreadableKeeps DEF Unreadable
<1>9. CASE Replace
  BY <1>1, <1>9, ReplaceKeeps
<1>10. CASE SaveFileRow
  BY <1>10, SaveFileRowKeeps
<1>11. CASE SaveSymbols
  BY <1>1, <1>11, SaveSymbolsKeeps
<1>12. CASE EmbedSymbols
  BY <1>1, <1>12, EmbedSymbolsKeeps
<1>13. CASE WalkEnds
  BY <1>1, <1>13, WalkEndsKeeps DEF WalkEnds
<1>14. CASE SaveEdges
  BY <1>1, <1>14, SaveEdgesKeeps
<1>15. CASE EdgesEnd
  BY <1>1, <1>15, EdgesEndKeeps DEF EdgesEnd
<1>16. CASE RepairEdges
  BY <1>1, <1>16, RepairEdgesKeeps
<1>17. CASE RepairEnds
  BY <1>1, <1>17, RepairEndsKeeps DEF RepairEnds
<1>18. CASE DeleteUnseen
  BY <1>18, DeleteUnseenKeeps
<1>19. CASE Finish
  BY <1>1, <1>19, FinishKeeps DEF Finish
<1>20. CASE Cancel
  BY <1>1, <1>20, CancelKeeps DEF Cancel
<1>21. CASE Crash
  BY <1>1, <1>21, CrashKeeps DEF Crash
<1> QED BY <1>2, <1>3, <1>4, <1>5, <1>6, <1>7, <1>8, <1>9, <1>10, <1>11, <1>12, <1>13, <1>14,
           <1>15, <1>16, <1>17, <1>18, <1>19, <1>20, <1>21 DEF Next, Walker, Consumer

\* The rows of a file with content c are one for each name it defines.
LEMMA RowsOfContent ==
  ASSUME NEW fid, NEW c \in Contents, NEW base \in Nat
  PROVE  LET rows == SymbolRows(fid, c, base)
         IN /\ Cardinality(rows) = Len(Defs[c])
            /\ {s.name : s \in rows} = {Defs[c][i] : i \in DOMAIN Defs[c]}
            /\ \A s \in rows : s.text = c
<1> DEFINE n == Len(Defs[c])
           rows == SymbolRows(fid, c, base)
           f == [i \in 1 .. n |-> [id |-> base + i - 1, file |-> fid, name |-> Defs[c][i], text |-> c]]
<1>1. Defs[c] \in Seq(STRING)
  BY IndexerAssumption
<1>2. n \in Nat /\ DOMAIN Defs[c] = 1 .. n
  BY <1>1
<1> HIDE DEF n
<1>3. /\ rows = {f[i] : i \in 1 .. n}
      /\ \A i \in 1 .. n : f[i].id = base + i - 1 /\ f[i].name = Defs[c][i] /\ f[i].text = c
  BY <1>2 DEF SymbolRows
<1>4. f \in [1 .. n -> rows]
  BY <1>3
<1> HIDE DEF f, rows
<1>5. {s.name : s \in rows} = {Defs[c][i] : i \in DOMAIN Defs[c]} /\ \A s \in rows : s.text = c
  <2>1. ASSUME NEW s \in rows PROVE s.text = c /\ \E i \in DOMAIN Defs[c] : s.name = Defs[c][i]
    BY <1>2, <1>3
  <2>2. ASSUME NEW i \in DOMAIN Defs[c] PROVE \E s \in rows : s.name = Defs[c][i]
    BY <1>2, <1>3
  <2> QED BY <2>1, <2>2
<1>6. ASSUME NEW i \in 1 .. n, NEW j \in 1 .. n, f[i] = f[j] PROVE i = j
  <2>1. base + i - 1 = base + j - 1
    BY <1>3, <1>6
  <2>2. i \in Nat /\ j \in Nat
    BY <1>2
  <2> QED BY <2>1, <2>2
<1>7. f \in Bijection(1 .. n, rows)
  BY <1>3, <1>4, <1>6 DEF Bijection, Injection, Surjection, IsInjective
<1>8. Cardinality(rows) = n
  BY <1>2, <1>7, FS_CountingElements DEF ExistsBijection
<1> QED BY <1>5, <1>8 DEF n, rows

\* When nothing failed or changed, the table and the symbols are those of the
\* files on disk.
LEMMA SettledMatches ==
  ASSUME IndexInv, Simple
  PROVE  UnfailedIndexMatches
<1> SUFFICES ASSUME fails = 0, Settled, NEW f \in Files
             PROVE  LET c == disk[f].sum
                        rows == Row(db.files, f)
                        syms == SymbolsOf(db, RowId(db.files, f))
                    IN IF c = Gone THEN rows = {}
                       ELSE /\ Cardinality(rows) = 1
                            /\ Cardinality(syms) = Len(Defs[c])
                            /\ {s.name : s \in syms} = {Defs[c][i] : i \in DOMAIN Defs[c]}
                            /\ \A s \in syms : s.text = c
  BY DEF UnfailedIndexMatches, IndexMatchesDisk
<1> DEFINE c == disk[f].sum
           rows == Row(db.files, f)
           syms == SymbolsOf(db, RowId(db.files, f))
<1>1. Faithful /\ CleanTable /\ SymbolsRight /\ ~Refreshing
  BY DEF IndexInv, Unfailed, Faithful, Settled, Refreshing
<1>2. c \in Contents \cup {Gone}
  BY DEF IndexInv, TypeOK
<1>3. \A r \in rows : /\ r \in db.files /\ r.path = f /\ r.hash.stamp = disk[f].stamp
                      /\ r.hash.sum \in Contents /\ r.hash.sum = c
  <2> SUFFICES ASSUME NEW r \in rows
               PROVE  /\ r \in db.files /\ r.path = f /\ r.hash.stamp = disk[f].stamp
                      /\ r.hash.sum \in Contents /\ r.hash.sum = c
    OBVIOUS
  <2>1. r \in db.files /\ r.path = f
    BY DEF Row
  <2>2. r.hash \in Hashes
    BY <2>1 DEF IndexInv, Sound, FileRows
  <2>3. r.hash.stamp = disk[f].stamp /\ Recorded(f, r.hash)
    BY <1>1, <2>1 DEF CleanTable, Faithful, HashesTrue
  <2> QED BY <2>1, <2>2, <2>3 DEF Recorded, Hashes
<1>4. CASE c = Gone
  <2>1. rows = {}
    BY <1>3, <1>4, IndexerAssumption
  <2> QED BY <1>4, <2>1
<1>5. CASE c # Gone
  <2>1. PICK r : r \in rows
    BY <1>1, <1>5 DEF CleanTable, PresentIn, Row
  <2>2. r \in db.files /\ r.path = f /\ r.hash.stamp = disk[f].stamp
    BY <1>3, <2>1
  <2>3. rows = {r}
    BY <2>1 DEF Row, IndexInv, Sound, PathsUnique
  <2>4. Cardinality(rows) = 1
    BY <2>3, FS_Singleton
  <2>5. RowId(db.files, f) = r.id
    <3>1. PICK q : q = CHOOSE v \in rows : TRUE
      OBVIOUS
    <3>2. q = r /\ RowId(db.files, f) = q.id
      BY <2>1, <2>3, <3>1 DEF RowId
    <3> QED BY <3>2
  <2>6. PICK base \in Nat : syms = SymbolRows(r.id, c, base)
    BY <1>1, <2>2, <2>5 DEF SymbolsRight, Holds
  <2>7. c \in Contents
    BY <1>2, <1>5
  <2> HIDE DEF c, rows, syms
  <2>8. /\ Cardinality(syms) = Len(Defs[c])
        /\ {s.name : s \in syms} = {Defs[c][i] : i \in DOMAIN Defs[c]}
        /\ \A s \in syms : s.text = c
    BY <2>6, <2>7, RowsOfContent
  <2> QED BY <1>5, <2>4, <2>8 DEF c, rows, syms
<1> QED BY <1>4, <1>5

-----------------------------------------------------------------------------
(* The call graph: what is added to the invariant.                         *)

NamesIn(c) == {Defs[c][i] : i \in DOMAIN Defs[c]}
ContentsOf(h, f) == {h[f][i] : i \in DOMAIN h[f]} \ {Gone}

\* A caller's name tells its file: no other file ever defines it, or every
\* content of its own file does and no file is left without its symbols.
CallersAtHome ==
  \A h \in Histories : \A f \in Files : \A c \in ContentsOf(h, f) : \A k \in Calls[c] :
    \/ \A g \in Files \ {f} : \A o \in ContentsOf(h, g) : Defs[c][k[1]] \notin NamesIn(o)
    \/ "savefile" \notin MayFail /\ \A o \in ContentsOf(h, f) : Defs[c][k[1]] \in NamesIn(o)

\* Besides, the symbols of a file to be replaced are listed and deleted: what is
\* said of them afterwards rests on it.
Orderly == Simple /\ CallersAtHome /\ MayFail \cap {"list", "delete"} = {}

\* A file has all symbols of a content, or none.
Complete == \A r \in db.files : SymbolsOf(db, r.id) = {} \/ \E c \in Contents : Holds(r.id, c)

\* Disk and symbols are those of one history.
Follows(h) ==
  /\ \A f \in Files : disk[f].sum \in ContentsOf(h, f) \cup {Gone}
  /\ \A f \in Files : \A i \in DOMAIN coming[f] : coming[f][i] \in ContentsOf(h, f) \cup {Gone}
  /\ \A r \in db.files : \A s \in SymbolsOf(db, r.id) : s.text \in ContentsOf(h, r.path)
  /\ Refreshing => pass.rec.content \in ContentsOf(h, pass.rec.path)

Chosen == \E h \in Histories : Follows(h)

\* A content that was parsed does not come again.
TextsPast ==
  /\ \A r \in db.files : \A s \in SymbolsOf(db, r.id) :
       \A i \in DOMAIN coming[r.path] : coming[r.path][i] # s.text
  /\ Refreshing => \A i \in DOMAIN coming[pass.rec.path] : coming[pass.rec.path][i] # pass.rec.content

\* A row of the present content has no symbols but those of that content,
SymbolsText ==
  \A r \in db.files : r.hash.stamp = disk[r.path].stamp =>
    \A s \in SymbolsOf(db, r.id) : s.text = disk[r.path].sum

\* for the old ones were deleted before it was written.
Emptied ==
  Refreshing /\ ~cancelled => \A r \in db.files : r.path = pass.rec.path => SymbolsOf(db, r.id) = {}

\* An edge from a symbol of the present content is a call of that content.
EdgesTrue ==
  \A r \in db.files : \A s \in SymbolsOf(db, r.id), t \in db.symbols :
    <<s.id, t.id>> \in db.edges /\ s.text = disk[r.path].sum =>
      \E k \in Calls[s.text] : Defs[s.text][k[1]] = s.name /\ k[2] = t.name

\* What the tables say of the files, whatever failed.
GraphTables ==
  /\ EdgesResolve(db) /\ Complete /\ Chosen /\ TextsPast /\ SymbolsText /\ Emptied /\ EdgesTrue

\* A name leads to symbols that have it.
NamesTrue ==
  /\ DOMAIN pass.names = Names
  /\ ~cancelled /\ pass.at \notin {"idle", "delete"} =>
       \A n \in Names : \A id \in pass.names[n] : \E s \in db.symbols : s.id = id /\ s.name = n

Entries == [content : Contents, local : UNION {[D -> Nat] : D \in SUBSET Names}]

\* The edges put off are those of files that are not replaced again.
WorkTrue ==
  /\ pass.work \in Seq(Entries)
  /\ pass.at \in {"idle", "repair", "delete"} => pass.work = <<>>
  /\ \A i \in DOMAIN pass.work :
       /\ DOMAIN pass.work[i].local = NamesIn(pass.work[i].content)
       /\ \A n \in NamesIn(pass.work[i].content) : \E s \in db.symbols :
            /\ s.id = pass.work[i].local[n] /\ s.name = n /\ s.text = pass.work[i].content
            /\ \E r \in db.files : r.id = s.file /\ r.path \notin Waiting

\* A caller to repair has its symbols.
DepsFull ==
  /\ "savefile" \notin MayFail /\ ~cancelled /\ pass.at \notin {"idle", "delete"} =>
       \A fid \in pass.deps \ pass.redone :
         \/ SymbolsOf(db, fid) # {}
         \/ pass.at = "save" /\ \E r \in db.files : r.id = fid /\ r.path = pass.rec.path
  /\ pass.at = "repair" => pass.deps \subseteq Ids(pass.existing) \ pass.redone

GraphPass == NamesTrue /\ WorkTrue /\ DepsFull

-----------------------------------------------------------------------------
(* Names and edges.                                                        *)

\* What a symbol tells of its file.
LEMMA SymbolOfContent ==
  ASSUME Complete, SymbolsHaveFile(db), NEW s \in db.symbols
  PROVE  /\ s.text \in Contents /\ s.name \in NamesIn(s.text) /\ s.name \in Names
         /\ \E r \in db.files : r.id = s.file
         /\ \A u \in SymbolsOf(db, s.file) : u.text = s.text
         /\ \A n \in NamesIn(s.text) : \E u \in SymbolsOf(db, s.file) : u.name = n
<1>1. PICK r \in db.files : r.id = s.file
  BY DEF SymbolsHaveFile, Ids
<1>2. s \in SymbolsOf(db, s.file)
  BY DEF SymbolsOf
<1>3. PICK c \in Contents, base \in Nat : SymbolsOf(db, s.file) = SymbolRows(s.file, c, base)
  BY <1>1, <1>2 DEF Complete, Holds
<1>4. \A u \in SymbolsOf(db, s.file) : u.text = c /\ u.name \in NamesIn(c)
  BY <1>3 DEF SymbolRows, NamesIn
<1>5. ASSUME NEW n \in NamesIn(c) PROVE \E u \in SymbolsOf(db, s.file) : u.name = n
  <2>1. PICK i \in DOMAIN Defs[c] : n = Defs[c][i]
    BY DEF NamesIn
  <2> DEFINE u == [id |-> base + i - 1, file |-> s.file, name |-> Defs[c][i], text |-> c]
  <2>2. u \in SymbolsOf(db, s.file) /\ u.name = n
    BY <1>3, <2>1 DEF SymbolRows
  <2> QED BY <2>2
<1>6. NamesIn(c) \subseteq Names
  BY DEF NamesIn, Names
<1> QED BY <1>1, <1>2, <1>4, <1>5, <1>6

\* The maximum of a bounded set of ids is one of them.
LEMMA MaxIn ==
  ASSUME NEW I \in SUBSET Nat, I # {}, NEW n \in Nat, \A i \in I : i <= n
  PROVE  Max(I) \in I
<1>1. PICK m \in I : \A i \in I : i <= m
  BY Largest
<1>2. \A i \in I : m >= i
  BY <1>1
<1>3. Max(I) = CHOOSE x \in I : \A y \in I : x >= y
  BY DEF Max
<1>4. \E x \in I : \A y \in I : x >= y
  BY <1>2
<1> QED BY <1>3, <1>4

LEMMA Few ==
  ASSUME NEW I, Cardinality(I) > 1
  PROVE  I # {} /\ \A x : I # {x}
<1>1. I # {}
  BY FS_EmptySet
<1>2. ASSUME NEW x, I = {x} PROVE FALSE
  <2>1. Cardinality({x}) = 1
    BY FS_Singleton
  <2> QED BY <1>2, <2>1
<1> QED BY <1>1, <1>2

\* A local name leads to a symbol of the file that has it.
LEMMA LocalNamesIn ==
  ASSUME NEW symbols, IdsBounded(symbols)
  PROVE  /\ DOMAIN LocalNames(symbols) = {s.name : s \in symbols}
         /\ \A n \in DOMAIN LocalNames(symbols) :
              \E s \in symbols : s.id = LocalNames(symbols)[n] /\ s.name = n
<1> DEFINE ids(n) == {s.id : s \in {t \in symbols : t.name = n}}
<1>1. LocalNames(symbols) = [n \in {s.name : s \in symbols} |-> Max(ids(n))]
  BY DEF LocalNames
<1>2. PICK m \in Nat : \A s \in symbols : s.id \in Nat /\ s.id <= m
  BY DEF IdsBounded, Ids
<1>3. ASSUME NEW n \in {s.name : s \in symbols} PROVE Max(ids(n)) \in ids(n)
  <2>1. ids(n) \in SUBSET Nat /\ ids(n) # {} /\ \A i \in ids(n) : i <= m
    BY <1>2
  <2> HIDE DEF ids
  <2> QED BY <2>1, MaxIn
<1>4. ASSUME NEW n \in {s.name : s \in symbols}
      PROVE  \E s \in symbols : s.id = LocalNames(symbols)[n] /\ s.name = n
  <2>1. LocalNames(symbols)[n] \in ids(n)
    <3> HIDE DEF ids
    <3> QED BY <1>1, <1>3
  <2> QED BY <2>1
<1>5. DOMAIN LocalNames(symbols) = {s.name : s \in symbols}
  BY <1>1
<1> QED BY <1>4, <1>5

\* After a repair a name leads where it did, or to a symbol of the file that has
\* it; a name the file has at most once leads where it did.
LEMMA RestoredIn ==
  ASSUME NEW names, NEW own, IdsBounded(own), NEW n \in Names
  PROVE  /\ DOMAIN Restored(names, own) = Names
         /\ \A id \in Restored(names, own)[n] :
              id \in names[n] \/ \E s \in own : s.id = id /\ s.name = n
         /\ (\A s, u \in own : s.name = n /\ u.name = n => s = u) => Restored(names, own)[n] = names[n]
<1> DEFINE ids == {s.id : s \in {t \in own : t.name = n}}
<1>1. /\ DOMAIN Restored(names, own) = Names
      /\ Restored(names, own)[n] = IF Cardinality(ids) > 1 THEN {Max(ids \ {Max(ids)})} ELSE names[n]
  BY DEF Restored
<1>2. PICK m \in Nat : \A s \in own : s.id \in Nat /\ s.id <= m
  BY DEF IdsBounded, Ids
<1>3. ids \in SUBSET Nat /\ \A i \in ids : i <= m
  BY <1>2
<1>4. ASSUME Cardinality(ids) > 1 PROVE Max(ids \ {Max(ids)}) \in ids
  <2> HIDE DEF ids
  <2>1. ids # {} /\ \A x : ids # {x}
    BY <1>4, Few
  <2>2. ids \ {Max(ids)} # {}
    BY <2>1
  <2>3. ids \ {Max(ids)} \in SUBSET Nat /\ \A i \in ids \ {Max(ids)} : i <= m
    BY <1>3
  <2> DEFINE rest == ids \ {Max(ids)}
  <2> HIDE DEF rest
  <2>4. Max(rest) \in rest
    BY <2>2, <2>3, MaxIn DEF rest
  <2> QED BY <2>4 DEF rest
<1>5. ASSUME NEW id \in Restored(names, own)[n]
      PROVE  id \in names[n] \/ \E s \in own : s.id = id /\ s.name = n
  <2>1. id \in names[n] \/ id \in ids
    <3> HIDE DEF ids
    <3> QED BY <1>1, <1>4, <1>5
  <2> QED BY <2>1
<1>6. ASSUME \A s, u \in own : s.name = n /\ u.name = n => s = u
      PROVE  Restored(names, own)[n] = names[n]
  <2>1. ids = {} \/ \E x : ids = {x}
    <3>1. \A i, j \in ids : i = j
      BY <1>6
    <3> HIDE DEF ids
    <3> QED BY <3>1
  <2>2. ~(Cardinality(ids) > 1)
    <3> HIDE DEF ids
    <3> QED BY <2>1, Few
  <2> QED BY <1>1, <2>2
<1> QED BY <1>1, <1>5, <1>6

\* Where a name resolves to.
LEMMA Resolved ==
  ASSUME NEW n, NEW local, NEW names
  PROVE  /\ \A id \in Resolve(n, local, names) :
              IF n \in DOMAIN local THEN id = local[n] ELSE n \in DOMAIN names /\ id \in names[n]
         /\ n \in DOMAIN local => local[n] \in Resolve(n, local, names)
         /\ \A x : n \notin DOMAIN local /\ n \in DOMAIN names /\ names[n] = {x} => x \in Resolve(n, local, names)
<1>1. \A x : Cardinality({x}) = 1
  BY FS_Singleton
<1> QED BY <1>1 DEF Resolve

\* The edges of a content are its calls.
LEMMA EdgesAre ==
  ASSUME NEW c, NEW local, NEW names
  PROVE  /\ \A e \in Edges(c, local, names) : \E k \in Calls[c] :
              /\ e[1] \in Resolve(Defs[c][k[1]], local, names) /\ e[2] \in Resolve(k[2], local, names)
              /\ e = <<e[1], e[2]>>
         /\ \A k \in Calls[c] :
              \A i \in Resolve(Defs[c][k[1]], local, names), j \in Resolve(k[2], local, names) :
                <<i, j>> \in Edges(c, local, names)
BY DEF Edges

\* What the calls of the store do to the edges.
LEMMA DeletedEdges ==
  ASSUME NEW d, IsDB(d), NEW fid
  PROVE  LET left == {e \in d.edges : e[1] \notin Ids(SymbolsOf(d, fid)) /\ e[2] \notin Ids(SymbolsOf(d, fid))}
         IN /\ DeleteSymbolsByFile(d, fid, TRUE).db.edges = left
            /\ DeleteFile(d, fid, TRUE).db.edges = left
BY DEF DeleteSymbolsByFile, DeleteFile, Unindex, Cascade, Done, IsDB

LEMMA SavedFileEdges ==
  ASSUME NEW d, IsDB(d), NEW p, NEW h
  PROVE  SaveFile(d, p, h).db.edges = d.edges
BY DEF SaveFile, IsDB

LEMMA SavedSymbolsEdges ==
  ASSUME NEW d, IsDB(d), NEW fid, NEW syms
  PROVE  SaveSymbolBatch(d, fid, syms, TRUE).db.edges = d.edges
BY DEF SaveSymbolBatch, Done, Failed, IsDB

LEMMA SavedVectorsEdges ==
  ASSUME NEW d, IsDB(d), NEW rows
  PROVE  UpsertEmbeddingBatch(d, rows).db.edges = d.edges
BY DEF UpsertEmbeddingBatch, Done, IsDB

LEMMA SavedEdges ==
  ASSUME NEW d, IsDB(d), NEW new, \A e \in new : e[1] \in Ids(d.symbols) /\ e[2] \in Ids(d.symbols)
  PROVE  SaveEdgeBatch(d, new, TRUE).db.edges = d.edges \cup new
BY DEF SaveEdgeBatch, Done, Failed, IsDB

-----------------------------------------------------------------------------
(* What the steps do to symbols, edges and the locals that lead to them.   *)

\* The symbols of a file, by its path.
OfFile(f) == {s \in db.symbols : \E r \in db.files : r.id = s.file /\ r.path = f}

\* The edges that are left when some symbols go.
EdgesWithout(old) == {e \in db.edges : e[1] \notin Ids(old) /\ e[2] \notin Ids(old)}

Path == Head(pass.recs).path

\* The names a replaced file's are taken out of.
NamesAt(map) ==
  \/ pass.loaded /\ map = pass.names
  \/ ~pass.loaded /\ map = NamesOf(db.symbols)
  \/ ~pass.loaded /\ map = NamesOf({}) /\ ~clean'

\* The old symbols of the file go from table and names, and their callers are
\* noted; when the context is cancelled every call fails.
LEMMA ReplaceDid ==
  ASSUME IndexInv, Orderly, Replace
  PROVE  /\ pass.at = "walk" /\ UNCHANGED <<disk, coming, cancelled, before>>
         /\ pass'.at = "save" /\ pass'.rec.path = Path /\ pass'.rec.content = disk[Path].sum
         /\ Path \in Files /\ disk[Path].sum \in Contents /\ Path \in Waiting /\ Waiting' \subseteq Waiting
         /\ Path \notin Waiting'
         /\ pass'.loaded = TRUE /\ pass'.work = pass.work /\ pass'.redone = pass.redone
         /\ pass'.existing = pass.existing /\ db'.files = db.files
         /\ cancelled => db' = db /\ ~clean'
         /\ ~cancelled =>
              /\ db'.symbols = db.symbols \ OfFile(Path) /\ db'.edges = EdgesWithout(OfFile(Path))
              /\ \/ pass'.deps = pass.deps \cup Callers(OfFile(Path))
                 \/ pass'.deps = pass.deps /\ ~clean'
         /\ ~cancelled => \E map : NamesAt(map) /\ pass'.names = RemoveNames(map, OfFile(Path))
         /\ DOMAIN pass'.names = Names
         /\ clean' => clean
<1> DEFINE rec == Head(pass.recs)
           prev == Row(pass.existing, rec.path)
           fid == RowId(prev, rec.path)
           asks == (IF pass.loaded THEN {} ELSE {"names"})
                     \cup (IF prev = {} THEN {} ELSE {"list", "callers", "delete"})
           oldOf(bad) == IF "list" \in bad THEN {} ELSE {s \in db.symbols : s.file \in Ids(prev)}
           mapOf(bad) == IF pass.loaded THEN pass.names
                         ELSE NamesOf(IF "names" \in bad THEN {} ELSE db.symbols)
           depsOf(bad) == IF "callers" \in bad THEN pass.deps ELSE pass.deps \cup Callers(oldOf(bad))
<1>1. PICK bad \in SUBSET asks :
        /\ Failing(bad, asks)
        /\ pass' = [pass EXCEPT !.at = "save", !.recs = Tail(pass.recs),
             !.rec = [path |-> rec.path, hash |-> rec.hash, content |-> disk[rec.path].sum, ids |-> <<>>],
             !.loaded = TRUE, !.names = RemoveNames(mapOf(bad), oldOf(bad)),
             !.reuse = Reusable(oldOf(bad)), !.deps = depsOf(bad)]
        /\ db' = IF prev = {} \/ "delete" \in bad THEN db ELSE DeleteSymbolsByFile(db, fid, TRUE).db
  BY Zenon DEF Replace
<1>2. /\ pass.at = "walk" /\ pass.recs # <<>> /\ disk[rec.path].sum # Gone
      /\ UNCHANGED <<disk, coming, cancelled, before, excused>>
  BY DEF Replace, Environment
<1>3. /\ pass'.at = "save" /\ pass'.rec.path = rec.path /\ pass'.rec.content = disk[rec.path].sum
      /\ pass'.loaded = TRUE /\ pass'.work = pass.work /\ pass'.redone = pass.redone
      /\ pass'.existing = pass.existing /\ pass'.names = RemoveNames(mapOf(bad), oldOf(bad))
      /\ pass'.deps = depsOf(bad) /\ pass'.recs = Tail(pass.recs) /\ pass'.walked = pass.walked
  <2> HIDE DEF mapOf, oldOf, depsOf, rec
  <2> QED BY <1>1 DEF IndexInv, TypeOK, IsPass
<1>4. Faithful
  BY DEF IndexInv, Orderly
<1>5. /\ rec \in Records /\ rec.path \in Read /\ Read' \subseteq Read /\ rec.path \notin Read'
  BY <1>2, <1>3, <1>4, RecordTaken DEF IndexInv, Faithful
<1>6. /\ rec.path \in Waiting /\ Waiting' \subseteq Waiting /\ rec.path \notin Waiting'
      /\ Read \cap Ahead = {}
  <2>1. Consuming /\ Consuming' /\ Ahead' = Ahead
    BY <1>2, <1>3 DEF Consuming, Ahead
  <2> HIDE DEF rec
  <2> QED BY <1>4, <1>5, <2>1 DEF Waiting, Faithful, Queue
<1>7. rec.path \in Files /\ disk[rec.path].sum \in Contents
  BY <1>2, <1>5 DEF IndexInv, TypeOK, Records
<1> HIDE DEF fid
<1>8. prev # {} => \E e \in pass.existing : e.path = rec.path /\ e.id = fid /\ e \in db.files /\ prev = {e}
  <2> SUFFICES ASSUME prev # {}
               PROVE  \E e \in pass.existing : e.path = rec.path /\ e.id = fid /\ e \in db.files /\ prev = {e}
    OBVIOUS
  <2>1. Row(prev, rec.path) = prev
    BY DEF Row
  <2>2. PICK e : e = CHOOSE r \in prev : TRUE
    OBVIOUS
  <2>3. e \in prev /\ e.id = fid
    BY <2>1, <2>2 DEF fid, RowId
  <2>4. e \in pass.existing /\ e.path = rec.path
    BY <2>3 DEF Row
  <2>5. e \in db.files
    BY <1>4, <1>6, <2>4 DEF Faithful, Untouched
  <2>6. PathsUnique(pass.existing)
    BY <1>2 DEF IndexInv, FilesInv, SameFiles
  <2>7. prev = {e}
    BY <2>3, <2>6 DEF PathsUnique, Row
  <2> QED BY <2>3, <2>4, <2>5, <2>7
<1>9. OfFile(rec.path) = IF prev = {} THEN {} ELSE SymbolsOf(db, fid)
  <2>1. \A r \in db.files : r.path = rec.path => r \in prev
    BY <1>4, <1>6 DEF Faithful, Untouched, Row
  <2> HIDE DEF rec, prev
  <2>2. CASE prev = {}
    BY <2>1, <2>2 DEF OfFile
  <2>3. CASE prev # {}
    BY <1>8, <2>1, <2>3 DEF OfFile, SymbolsOf
  <2> QED BY <2>2, <2>3
<1>10. "list" \notin bad => oldOf(bad) = OfFile(rec.path)
  <2> SUFFICES ASSUME "list" \notin bad PROVE oldOf(bad) = OfFile(rec.path)
    OBVIOUS
  <2>1. CASE prev = {}
    BY <1>9, <2>1 DEF Ids
  <2>2. CASE prev # {}
    <3>1. Ids(prev) = {fid}
      <4> HIDE DEF prev, rec
      <4> QED BY <1>8, <2>2 DEF Ids
    <3> QED BY <1>9, <2>2, <3>1 DEF SymbolsOf
  <2> QED BY <2>1, <2>2
<1>11. CASE cancelled
  <2>1. bad = asks /\ clean' = (clean /\ bad = {}) /\ ~clean
    BY <1>1, <1>4, <1>11 DEF Failing, Faithful
  <2>2. db' = db
    BY <1>1, <2>1
  <2>4. DOMAIN pass'.names = Names
    BY <1>3 DEF RemoveNames
  <2> HIDE DEF rec, asks
  <2> QED BY <1>2, <1>3, <1>6, <1>7, <1>11, <2>1, <2>2, <2>4 DEF rec, Path
<1>12. CASE ~cancelled
  <2>1. bad \subseteq MayFail /\ "list" \notin bad /\ "delete" \notin bad /\ clean' = (clean /\ bad = {})
    BY <1>1, <1>12 DEF Failing, Orderly
  <2>2. /\ db'.files = db.files /\ db'.symbols = db.symbols \ OfFile(rec.path)
        /\ db'.edges = EdgesWithout(OfFile(rec.path))
    <3> HIDE DEF prev, rec
    <3>1. CASE prev = {}
      BY <1>1, <1>9, <3>1 DEF EdgesWithout, Ids
    <3>2. CASE prev # {}
      <4>1. db' = DeleteSymbolsByFile(db, fid, TRUE).db
        BY <1>1, <2>1, <3>2
      <4>2. db'.files = db.files /\ db'.symbols = db.symbols \ SymbolsOf(db, fid)
        BY <4>1, FileEmptied DEF IndexInv
      <4>3. db'.edges = {e \in db.edges : /\ e[1] \notin Ids(SymbolsOf(db, fid))
                                         /\ e[2] \notin Ids(SymbolsOf(db, fid))}
        BY <4>1, DeletedEdges DEF IndexInv, Sound
      <4> QED BY <1>9, <3>2, <4>2, <4>3 DEF EdgesWithout
    <3> QED BY <3>1, <3>2
  <2>3. pass'.deps = pass.deps \cup Callers(OfFile(rec.path)) \/ (pass'.deps = pass.deps /\ ~clean')
    BY <1>3, <1>10, <2>1
  <2>4. NamesAt(mapOf(bad)) /\ pass'.names = RemoveNames(mapOf(bad), OfFile(rec.path))
    <3>1. "names" \in bad => ~clean'
      BY <2>1
    <3>2. pass'.names = RemoveNames(mapOf(bad), OfFile(rec.path))
      <4> HIDE DEF mapOf, oldOf, rec
      <4> QED BY <1>3, <1>10, <2>1
    <3>3. NamesAt(mapOf(bad))
      BY <3>1 DEF NamesAt
    <3> QED BY <3>2, <3>3
  <2>5. DOMAIN pass'.names = Names
    BY <2>4 DEF RemoveNames
  <2> HIDE DEF rec, mapOf
  <2> QED BY <1>2, <1>3, <1>6, <1>7, <1>12, <2>1, <2>2, <2>3, <2>4, <2>5 DEF rec, Path
<1> QED BY <1>11, <1>12

\* The row keeps its id, or is new and has no symbols.
LEMMA SaveFileDid ==
  ASSUME IndexInv, SaveFileRow
  PROVE  LET p == pass.rec.path
             failed == pass'.at = "walk" /\ db' = db /\ ~clean' /\ (cancelled \/ "savefile" \in MayFail)
                         /\ pass'.redone = pass.redone
             done == /\ pass'.at = "symbols" /\ pass'.rec = pass.rec /\ ~cancelled
                     /\ db'.symbols = db.symbols /\ db'.edges = db.edges
                     /\ \E row \in db'.files :
                          /\ row.path = p /\ row.hash = pass.rec.hash
                          /\ pass'.redone = pass.redone \cup {row.id}
                          /\ \A r \in db.files : IF r.path = p THEN r.id = row.id ELSE r.id # row.id /\ r \in db'.files
                          /\ \A r \in db'.files : r = row \/ (r \in db.files /\ r.path # p)
                          /\ row.id \in Ids(db.files) => \E r \in db.files : r.path = p
         IN /\ pass.at = "save" /\ UNCHANGED <<disk, coming, cancelled, before>>
            /\ pass'.names = pass.names /\ pass'.work = pass.work /\ pass'.deps = pass.deps
            /\ pass'.loaded = pass.loaded /\ pass'.existing = pass.existing /\ Waiting' = Waiting
            /\ clean' => clean
            /\ failed \/ done
<1> DEFINE p == pass.rec.path
           saved == SaveFile(db, p, pass.rec.hash)
           row == [id |-> saved.id, path |-> p, hash |-> pass.rec.hash]
<1>1. PICK bad \in SUBSET {"savefile"} :
        /\ Failing(bad, {"savefile"}) /\ db' = After(saved, bad)
        /\ \/ bad # {} /\ GiveUp
           \/ bad = {} /\ UNCHANGED excused
              /\ pass' = [pass EXCEPT !.at = "symbols", !.redone = pass.redone \cup {saved.id}]
  BY DEF SaveFileRow
<1>2. pass.at = "save" /\ UNCHANGED <<disk, coming, cancelled, before>>
  BY DEF SaveFileRow, Environment
<1>3. p \in Files /\ pass.rec.hash \in Hashes
  BY <1>2 DEF Busy, IndexInv, TypeOK, IsRec
<1>4. clean' = (clean /\ bad = {}) /\ IsPass(pass)
  BY <1>1 DEF Failing, IndexInv, TypeOK
<1>5. CASE bad # {}
  <2>1. /\ pass'.at = "walk" /\ pass'.names = pass.names /\ pass'.work = pass.work /\ pass'.deps = pass.deps
        /\ pass'.loaded = pass.loaded /\ pass'.existing = pass.existing /\ pass'.redone = pass.redone
        /\ pass'.walked = pass.walked /\ pass'.recs = pass.recs
    BY <1>1, <1>4, <1>5 DEF GiveUp, IsPass
  <2>2. db' = db
    BY <1>1, <1>5 DEF After
  <2>3. cancelled \/ "savefile" \in MayFail
    BY <1>1, <1>5 DEF Failing
  <2>4. Waiting' = Waiting
    BY <1>2, <2>1 DEF Waiting, Consuming, Ahead, Read
  <2> QED BY <1>2, <1>4, <1>5, <2>1, <2>2, <2>3, <2>4
<1>6. CASE bad = {}
  <2>1. /\ pass'.at = "symbols" /\ pass'.names = pass.names /\ pass'.work = pass.work /\ pass'.deps = pass.deps
        /\ pass'.loaded = pass.loaded /\ pass'.existing = pass.existing
        /\ pass'.redone = pass.redone \cup {saved.id}
        /\ pass'.walked = pass.walked /\ pass'.recs = pass.recs /\ pass'.rec = pass.rec
    <3> HIDE DEF saved
    <3> QED BY <1>1, <1>4, <1>6 DEF IsPass
  <2>2. /\ db'.files = (db.files \ Row(db.files, p)) \cup {row} /\ db'.symbols = db.symbols
        /\ \A r \in Row(db.files, p) : r.id = saved.id
        /\ \A r \in db.files : r.path # p => r.id # saved.id
        /\ Row(db.files, p) = {} => saved.id \notin Ids(db.files)
    BY <1>1, <1>3, <1>6, FileSaved DEF After, IndexInv
  <2>3. db'.edges = db.edges
    <3>1. saved.db.edges = db.edges
      BY SavedFileEdges DEF IndexInv, Sound
    <3> HIDE DEF saved
    <3> QED BY <1>1, <1>6, <3>1 DEF After
  <2>4. ~cancelled
    BY <1>1, <1>6 DEF Failing
  <2>5. Waiting' = Waiting
    BY <1>2, <2>1 DEF Waiting, Consuming, Ahead, Read
  <2>6. row.id = saved.id /\ row.path = p /\ row.hash = pass.rec.hash
    OBVIOUS
  <2> HIDE DEF row, saved
  <2>7. /\ row \in db'.files
        /\ \A r \in db.files : IF r.path = p THEN r.id = row.id ELSE r.id # row.id /\ r \in db'.files
        /\ \A r \in db'.files : r = row \/ (r \in db.files /\ r.path # p)
        /\ row.id \in Ids(db.files) => \E r \in db.files : r.path = p
    BY <2>2, <2>6 DEF Row
  <2> QED BY <1>2, <1>4, <1>6, <2>1, <2>2, <2>3, <2>4, <2>5, <2>6, <2>7
<1> QED BY <1>5, <1>6

\* Files, symbols and edges stay as they are.
SameGraph == db'.files = db.files /\ db'.symbols = db.symbols /\ db'.edges = db.edges

\* So do the locals that lead to them.
SameLocals ==
  /\ pass'.names = pass.names /\ pass'.work = pass.work /\ pass'.deps = pass.deps
  /\ pass'.redone = pass.redone /\ pass'.loaded = pass.loaded /\ pass'.existing = pass.existing

\* The symbols of the content that was parsed are added, under new ids.
LEMMA SaveSymbolsDid ==
  ASSUME IndexInv, Orderly, SaveSymbols
  PROVE  LET p == pass.rec.path
             c == pass.rec.content
         IN /\ pass.at = "symbols" /\ UNCHANGED <<disk, coming, cancelled, before>>
            /\ c \in Contents /\ p \in Files /\ Waiting' = Waiting /\ p \notin Waiting
            /\ pass'.deps = pass.deps /\ pass'.redone = pass.redone
            /\ pass'.loaded = pass.loaded /\ pass'.existing = pass.existing
            /\ db'.files = db.files /\ db'.edges = db.edges
            /\ clean' => clean
            /\ \/ /\ pass'.at = "walk" /\ db' = db /\ ~clean'
                  /\ pass'.names = pass.names /\ pass'.work = pass.work
               \/ \E r \in db.files, base \in Nat :
                    /\ pass'.at = "embed" /\ r.path = p /\ r.hash = pass.rec.hash
                    /\ db'.symbols = db.symbols \cup SymbolRows(r.id, c, base)
                    /\ SymbolRows(r.id, c, base) \cap db.symbols = {}
                    /\ cancelled => SymbolRows(r.id, c, base) = {}
                    /\ pass'.names = [n \in Names |-> pass.names[n] \cup NamesOf(SymbolRows(r.id, c, base))[n]]
                    /\ pass'.work = Append(pass.work,
                                      [content |-> c, local |-> LocalNames(SymbolRows(r.id, c, base))])
<1> DEFINE c == pass.rec.content
           p == pass.rec.path
           fid == RowId(db.files, p)
           saved == SaveSymbolBatch(db, fid, Parsed(c), TRUE)
           new == saved.db.symbols \ db.symbols
           asks == IF Defs[c] = <<>> THEN {} ELSE {"symbols"}
           names == [n \in Names |-> pass.names[n] \cup NamesOf(new)[n]]
           work == Append(pass.work, [content |-> c, local |-> LocalNames(new)])
<1>1. PICK bad \in SUBSET {"symbols"} :
        /\ Failing(bad, asks) /\ db' = After(saved, bad)
        /\ \/ bad # {} /\ GiveUp
           \/ /\ bad = {} /\ UNCHANGED excused
              /\ pass' = [pass EXCEPT !.at = "embed", !.rec.ids = new, !.names = names, !.work = work]
  BY Zenon DEF SaveSymbols, Parsed
<1>2. pass.at = "symbols" /\ UNCHANGED <<disk, coming, cancelled, before>>
  BY DEF SaveSymbols, Environment
<1>3. Busy /\ Refreshing /\ Consuming /\ Working = {p} /\ p \in Files /\ c \in Contents
  BY <1>2 DEF Busy, Refreshing, Consuming, Working, IndexInv, TypeOK, IsRec
<1>4. Faithful /\ IsPass(pass) /\ Sound(db) /\ clean' = (clean /\ bad = {})
  BY <1>1 DEF Failing, IndexInv, Orderly, TypeOK
<1>5. p \notin Waiting
  BY <1>3, <1>4 DEF Faithful, Queue
<1>6. PICK r \in db.files : r.path = p /\ r.hash = pass.rec.hash
  BY <1>2, <1>3, <1>4 DEF Faithful, RecordRight
<1>7. fid = r.id
  <2>1. Row(db.files, p) = {r}
    BY <1>4, <1>6 DEF Row, Sound, PathsUnique
  <2>2. PICK q : q = CHOOSE v \in Row(db.files, p) : TRUE
    OBVIOUS
  <2>3. q = r /\ RowId(db.files, p) = q.id
    BY <2>1, <2>2 DEF RowId
  <2> QED BY <2>3
<1>8. PICK base \in Nat :
        /\ saved.db.files = db.files
        /\ saved.db.symbols = db.symbols \cup SymbolRows(r.id, c, base)
        /\ SymbolRows(r.id, c, base) \cap db.symbols = {}
  <2>1. r.id \in Ids(db.files)
    BY DEF Ids
  <2> HIDE DEF c
  <2>2. LET res == SaveSymbolBatch(db, r.id, Parsed(c), TRUE)
        IN /\ res.db.files = db.files
           /\ \E base \in Nat : /\ res.db.symbols = db.symbols \cup SymbolRows(r.id, c, base)
                                /\ SymbolRows(r.id, c, base) \cap db.symbols = {}
    BY <1>3, <1>4, <2>1, SymbolsSaved
  <2> QED BY <1>7, <2>2
<1>9. saved.db.edges = db.edges
  BY <1>4, SavedSymbolsEdges DEF Sound
<1>10. CASE bad # {}
  <2>1. /\ pass'.at = "walk" /\ pass'.names = pass.names /\ pass'.work = pass.work /\ pass'.deps = pass.deps
        /\ pass'.loaded = pass.loaded /\ pass'.existing = pass.existing /\ pass'.redone = pass.redone
        /\ pass'.walked = pass.walked /\ pass'.recs = pass.recs
    BY <1>1, <1>4, <1>10 DEF GiveUp, IsPass
  <2>2. db' = db
    BY <1>1, <1>10 DEF After
  <2>3. Waiting' = Waiting
    BY <1>2, <2>1 DEF Waiting, Consuming, Ahead, Read
  <2> QED BY <1>2, <1>3, <1>4, <1>5, <1>10, <2>1, <2>2, <2>3
<1>11. CASE bad = {}
  <2>1. new = SymbolRows(r.id, c, base)
    BY <1>8
  <2>2. names = [n \in Names |-> pass.names[n] \cup NamesOf(SymbolRows(r.id, c, base))[n]]
    BY <2>1
  <2>3. work = Append(pass.work, [content |-> c, local |-> LocalNames(SymbolRows(r.id, c, base))])
    BY <2>1
  <2> HIDE DEF new, saved, names, work
  <2>4. /\ pass'.at = "embed" /\ pass'.names = names /\ pass'.work = work /\ pass'.deps = pass.deps
        /\ pass'.loaded = pass.loaded /\ pass'.existing = pass.existing /\ pass'.redone = pass.redone
        /\ pass'.walked = pass.walked /\ pass'.recs = pass.recs
    BY <1>1, <1>4, <1>11 DEF IsPass
  <2>5. /\ db'.files = db.files /\ db'.edges = db.edges
        /\ db'.symbols = db.symbols \cup SymbolRows(r.id, c, base)
    BY <1>1, <1>8, <1>9, <1>11 DEF After
  <2>6. Waiting' = Waiting
    BY <1>2, <2>4 DEF Waiting, Consuming, Ahead, Read
  <2>7. cancelled => SymbolRows(r.id, c, base) = {}
    <3>1. cancelled => Defs[c] = <<>>
      BY <1>1, <1>11 DEF Failing
    <3> QED BY <3>1 DEF SymbolRows
  <2> HIDE DEF c, p
  <2>8. \E q \in db.files, b \in Nat :
          /\ pass'.at = "embed" /\ q.path = p /\ q.hash = pass.rec.hash
          /\ db'.symbols = db.symbols \cup SymbolRows(q.id, c, b)
          /\ SymbolRows(q.id, c, b) \cap db.symbols = {}
          /\ cancelled => SymbolRows(q.id, c, b) = {}
          /\ pass'.names = [n \in Names |-> pass.names[n] \cup NamesOf(SymbolRows(q.id, c, b))[n]]
          /\ pass'.work = Append(pass.work, [content |-> c, local |-> LocalNames(SymbolRows(q.id, c, b))])
    BY <1>6, <1>8, <2>2, <2>3, <2>4, <2>5, <2>7
  <2>9. /\ c \in Contents /\ p \in Files /\ p \notin Waiting /\ (clean' => clean)
    BY <1>3, <1>4, <1>5
  <2> QED BY <1>2, <2>4, <2>5, <2>6, <2>8, <2>9 DEF c, p
<1> QED BY <1>10, <1>11

LEMMA EmbedDid ==
  ASSUME IndexInv, EmbedSymbols
  PROVE  /\ pass.at = "embed" /\ pass'.at = "walk" /\ UNCHANGED <<disk, coming, cancelled, before>>
         /\ SameGraph /\ SameLocals /\ Waiting' = Waiting /\ (clean' => clean)
<1>1. /\ pass.at = "embed" /\ UNCHANGED <<disk, coming, cancelled, before>>
      /\ pass' = [pass EXCEPT !.at = "walk", !.rec = <<>>, !.reuse = {}, !.seen = pass.seen \cup {pass.rec.path}]
  BY DEF EmbedSymbols, Environment
<1>2. /\ pass'.at = "walk" /\ SameLocals /\ pass'.walked = pass.walked /\ pass'.recs = pass.recs
  BY <1>1 DEF IndexInv, TypeOK, IsPass, SameLocals
<1>3. Waiting' = Waiting
  BY <1>1, <1>2 DEF Waiting, Consuming, Ahead, Read
<1>4. db'.files = db.files /\ db'.symbols = db.symbols
  BY EmbedSymbolsKeeps
<1>5. db'.edges = db.edges /\ (clean' => clean)
  <2>1. PICK bad, all, rows :
          /\ Failing(bad, all)
          /\ db' = IF "embed" \in bad THEN db ELSE UpsertEmbeddingBatch(db, rows).db
    BY DEF EmbedSymbols
  <2> QED BY <2>1, SavedVectorsEdges DEF Failing, IndexInv, Sound
<1> QED BY <1>1, <1>2, <1>3, <1>4, <1>5 DEF SameGraph

\* Edges are added, all or none.
Valid(edges) == \A e \in edges : e[1] \in Ids(db.symbols) /\ e[2] \in Ids(db.symbols)

EdgesMade(edges) ==
  /\ db'.files = db.files /\ db'.symbols = db.symbols
  /\ db'.edges = db.edges \/ (~cancelled /\ Valid(edges) /\ db'.edges = db.edges \cup edges)
  /\ clean' /\ Valid(edges) => db'.edges = db.edges \cup edges

LEMMA MadeBy ==
  ASSUME Sound(db), NEW edges, NEW bad, NEW all, NEW failed, Failing(bad, all),
         edges # {} => "edges" \in all, failed = bad \cap {"edges"},
         db' = After(SaveEdgeBatch(db, edges, TRUE), failed)
  PROVE  EdgesMade(edges)
<1>1. /\ db'.files = db.files /\ db'.symbols = db.symbols
  BY EdgesSaved DEF After
<1>2. CASE failed # {}
  BY <1>1, <1>2 DEF After, Failing, EdgesMade
<1>3. CASE failed = {}
  <2>1. Valid(edges) => db'.edges = db.edges \cup edges
    BY <1>3, SavedEdges DEF Valid, After, Sound
  <2>2. ~Valid(edges) => db' = db
    BY <1>3 DEF Valid, After, SaveEdgeBatch, Failed
  <2>3. cancelled => edges = {}
    BY <1>3 DEF Failing
  <2> QED BY <1>1, <2>1, <2>2, <2>3 DEF EdgesMade
<1> QED BY <1>2, <1>3

LEMMA SaveEdgesDid ==
  ASSUME IndexInv, SaveEdges
  PROVE  /\ pass.at = "edges" /\ pass'.at = "edges" /\ pass.work # <<>>
         /\ UNCHANGED <<disk, coming, cancelled, before>> /\ (clean' => clean)
         /\ EdgesMade(Edges(Head(pass.work).content, Head(pass.work).local, pass.names))
         /\ pass'.work = Tail(pass.work) /\ pass'.names = pass.names /\ pass'.deps = pass.deps
         /\ pass'.redone = pass.redone /\ pass'.loaded = pass.loaded /\ pass'.existing = pass.existing
<1> DEFINE edges == Edges(Head(pass.work).content, Head(pass.work).local, pass.names)
           asks == IF edges = {} THEN {} ELSE {"edges"}
<1>1. PICK bad \in SUBSET {"edges"} :
        Failing(bad, asks) /\ db' = After(SaveEdgeBatch(db, edges, TRUE), bad)
  BY DEF SaveEdges
<1>2. /\ pass.at = "edges" /\ pass.work # <<>> /\ UNCHANGED <<disk, coming, cancelled, before>>
      /\ pass' = [pass EXCEPT !.work = Tail(pass.work)]
  BY DEF SaveEdges, Environment
<1>3. /\ pass'.at = "edges" /\ pass'.work = Tail(pass.work) /\ pass'.names = pass.names
      /\ pass'.deps = pass.deps /\ pass'.redone = pass.redone /\ pass'.loaded = pass.loaded
      /\ pass'.existing = pass.existing
  BY <1>2 DEF IndexInv, TypeOK, IsPass
<1>4. edges # {} => "edges" \in asks
  OBVIOUS
<1> HIDE DEF edges, asks
<1>5. EdgesMade(edges) /\ (clean' => clean)
  <2>1. bad = bad \cap {"edges"}
    OBVIOUS
  <2> QED BY <1>1, <1>4, <2>1, MadeBy DEF IndexInv, Failing
<1> QED BY <1>2, <1>3, <1>5 DEF edges

LEMMA DeleteDid ==
  ASSUME IndexInv, DeleteUnseen
  PROVE  /\ pass.at = "delete" /\ pass'.at = "delete" /\ UNCHANGED <<disk, coming, cancelled, before>>
         /\ clean' => clean
         /\ pass'.names = pass.names /\ pass'.work = pass.work /\ pass'.deps = pass.deps
         /\ pass'.redone = pass.redone /\ pass'.loaded = pass.loaded
         /\ \E r \in pass.existing :
              /\ r.path \notin pass.seen
              /\ SameGraph \/ /\ db'.files = {q \in db.files : q.id # r.id}
                              /\ db'.symbols = db.symbols \ SymbolsOf(db, r.id)
                              /\ db'.edges = EdgesWithout(SymbolsOf(db, r.id))
<1>1. PICK r \in pass.existing, bad \in SUBSET {"deletefile"} :
        /\ Failing(bad, {"deletefile"}) /\ db' = After(DeleteFile(db, r.id, TRUE), bad)
        /\ pass' = [pass EXCEPT !.existing = pass.existing \ {r}]
  BY DEF DeleteUnseen
<1>2. pass.at = "delete" /\ UNCHANGED <<disk, coming, cancelled, before>> /\ (clean' => clean)
  BY <1>1 DEF DeleteUnseen, Environment, Failing
<1>3. /\ pass'.at = "delete" /\ pass'.names = pass.names /\ pass'.work = pass.work /\ pass'.deps = pass.deps
      /\ pass'.redone = pass.redone /\ pass'.loaded = pass.loaded
  BY <1>1, <1>2 DEF IndexInv, TypeOK, IsPass
<1>4. r.path \notin pass.seen
  BY <1>2 DEF IndexInv, FilesInv, Covered
<1>5. CASE bad # {}
  BY <1>1, <1>2, <1>3, <1>4, <1>5 DEF After, SameGraph
<1>6. CASE bad = {}
  <2>1. /\ db'.files = {q \in db.files : q.id # r.id} /\ db'.symbols = db.symbols \ SymbolsOf(db, r.id)
    BY <1>1, <1>6, FileDeleted DEF After, IndexInv
  <2>2. DeleteFile(db, r.id, TRUE).db.edges = EdgesWithout(SymbolsOf(db, r.id))
    <3>1. IsDB(db)
      BY DEF IndexInv, Sound
    <3>2. PICK fid : fid = r.id
      OBVIOUS
    <3>3. DeleteFile(db, fid, TRUE).db.edges
            = {e \in db.edges : e[1] \notin Ids(SymbolsOf(db, fid)) /\ e[2] \notin Ids(SymbolsOf(db, fid))}
      BY <3>1, DeletedEdges
    <3> QED BY <3>2, <3>3 DEF EdgesWithout
  <2> QED BY <1>1, <1>2, <1>3, <1>4, <1>6, <2>1, <2>2 DEF After
<1> QED BY <1>5, <1>6

-----------------------------------------------------------------------------
(* What the tables say of the files is kept.                               *)

\* Whole files lose their symbols, and edges go.
LEMMA TablesShrink ==
  ASSUME GraphTables, UNCHANGED <<disk, coming>>,
         \A r \in db'.files :
           \/ SymbolsOf(db', r.id) = {}
           \/ SymbolsOf(db', r.id) = SymbolsOf(db, r.id) /\ \E q \in db.files : q.id = r.id /\ q.path = r.path,
         db'.symbols \subseteq db.symbols, db'.edges \subseteq db.edges, EdgesResolve(db'),
         Refreshing' =>
           \/ Refreshing /\ pass'.rec.path = pass.rec.path /\ pass'.rec.content = pass.rec.content
           \/ /\ pass'.rec.path \in Files /\ pass'.rec.content = disk[pass'.rec.path].sum
              /\ pass'.rec.content \in Contents /\ ContentsPass,
         SymbolsText', Emptied'
  PROVE  GraphTables'
<1>1. Complete'
  <2> SUFFICES ASSUME NEW r \in db'.files, SymbolsOf(db', r.id) # {}
               PROVE  \E c \in Contents : Holds(r.id, c)'
    BY DEF Complete
  <2>1. PICK q \in db.files : q.id = r.id /\ SymbolsOf(db', r.id) = SymbolsOf(db, r.id)
    OBVIOUS
  <2>2. PICK c \in Contents : Holds(q.id, c)
    BY <2>1 DEF GraphTables, Complete
  <2> QED BY <2>1, <2>2 DEF Holds
<1>2. \A r \in db'.files : \A s \in SymbolsOf(db', r.id) :
        \E q \in db.files : q.id = r.id /\ q.path = r.path /\ s \in SymbolsOf(db, q.id)
  OBVIOUS
<1>3. Chosen'
  <2>1. PICK h \in Histories : Follows(h)
    BY DEF GraphTables, Chosen
  <2>2. \A r \in db'.files : \A s \in SymbolsOf(db', r.id) : s.text \in ContentsOf(h, r.path)
    BY <1>2, <2>1 DEF Follows
  <2>3. Refreshing' => pass'.rec.content \in ContentsOf(h, pass'.rec.path)
    BY <2>1, IndexerAssumption DEF Follows
  <2> QED BY <2>1, <2>2, <2>3 DEF Follows, Chosen
<1>4. TextsPast'
  <2>1. \A r \in db'.files : \A s \in SymbolsOf(db', r.id) :
          \A i \in DOMAIN coming[r.path] : coming[r.path][i] # s.text
    BY <1>2 DEF GraphTables, TextsPast
  <2>2. Refreshing' => \A i \in DOMAIN coming[pass'.rec.path] : coming[pass'.rec.path][i] # pass'.rec.content
    BY IndexerAssumption DEF GraphTables, TextsPast, ContentsPass
  <2> QED BY <2>1, <2>2 DEF TextsPast
<1>5. EdgesTrue'
  BY <1>2 DEF GraphTables, EdgesTrue
<1> QED BY <1>1, <1>3, <1>4, <1>5 DEF GraphTables

\* The tables stay as they are.
LEMMA TablesQuiet ==
  ASSUME GraphTables, UNCHANGED <<disk, coming>>, SameGraph,
         Refreshing' => Refreshing /\ pass'.rec = pass.rec,
         Refreshing' /\ ~cancelled' => ~cancelled
  PROVE  GraphTables'
<1>1. \A id : SymbolsOf(db', id) = SymbolsOf(db, id)
  BY DEF SameGraph, SymbolsOf
<1>2. SymbolsText' /\ Emptied'
  BY <1>1 DEF GraphTables, SymbolsText, Emptied, SameGraph
<1>3. EdgesResolve(db')
  BY DEF GraphTables, EdgesResolve, SameGraph
<1> QED BY <1>1, <1>2, <1>3, TablesShrink DEF SameGraph

\* The content of a file is new when it is edited: neither its row nor its
\* symbols are of that content.
LEMMA TablesEdit ==
  ASSUME IndexInv, Simple, GraphTables, NEW f \in Files, Edit(f)
  PROVE  GraphTables'
<1>1. /\ coming[f] # <<>> /\ coming' = [coming EXCEPT ![f] = Tail(coming[f])]
      /\ UNCHANGED <<db, pass, cancelled>>
  BY DEF Edit
<1>2. disk' = [disk EXCEPT ![f] = [sum |-> Head(coming[f]), stamp |-> disk[f].stamp + 1]]
  BY DEF Edit, Simple
<1>3. /\ disk[f].stamp \in Nat
      /\ disk'[f].sum = Head(coming[f]) /\ disk'[f].stamp = disk[f].stamp + 1 /\ coming'[f] = Tail(coming[f])
      /\ \A g \in Files \ {f} : disk'[g] = disk[g] /\ coming'[g] = coming[g]
  BY <1>1, <1>2 DEF IndexInv, TypeOK
<1>4. /\ Head(coming[f]) = coming[f][1] /\ 1 \in DOMAIN coming[f]
      /\ \A i \in DOMAIN Tail(coming[f]) : i + 1 \in DOMAIN coming[f] /\ Tail(coming[f])[i] = coming[f][i + 1]
  <2>1. coming[f] \in Seq(Contents \cup {Gone})
    BY DEF IndexInv, TypeOK
  <2> QED BY <1>1, <2>1, TailOf
<1>5. \A g \in Files : \A i \in DOMAIN coming'[g] : \E j \in DOMAIN coming[g] : coming'[g][i] = coming[g][j]
  <2> SUFFICES ASSUME NEW g \in Files, NEW i \in DOMAIN coming'[g]
               PROVE  \E j \in DOMAIN coming[g] : coming'[g][i] = coming[g][j]
    OBVIOUS
  <2>1. CASE g = f
    BY <1>3, <1>4, <2>1
  <2>2. CASE g # f
    BY <1>3, <2>2
  <2> QED BY <2>1, <2>2
<1>6. \A r \in db.files : r.path \in Files
  BY DEF IndexInv, Sound, FileRows
<1>7. Refreshing => pass.rec.path \in Files
  BY DEF IndexInv, TypeOK, Busy, Refreshing, IsRec
<1>8. EdgesResolve(db') /\ Complete' /\ Emptied'
  BY <1>1 DEF GraphTables, Complete, Holds, Emptied, Refreshing
<1>9. Chosen'
  <2>1. PICK h \in Histories : Follows(h)
    BY DEF GraphTables, Chosen
  <2>2. \A g \in Files : disk'[g].sum \in ContentsOf(h, g) \cup {Gone}
    <3> SUFFICES ASSUME NEW g \in Files PROVE disk'[g].sum \in ContentsOf(h, g) \cup {Gone}
      OBVIOUS
    <3>1. CASE g = f
      BY <1>3, <1>4, <2>1, <3>1 DEF Follows
    <3>2. CASE g # f
      BY <1>3, <2>1, <3>2 DEF Follows
    <3> QED BY <3>1, <3>2
  <2>3. \A g \in Files : \A i \in DOMAIN coming'[g] : coming'[g][i] \in ContentsOf(h, g) \cup {Gone}
    BY <1>5, <2>1 DEF Follows
  <2> QED BY <1>1, <2>1, <2>2, <2>3 DEF Follows, Chosen, Refreshing
<1>10. TextsPast'
  <2>1. ASSUME NEW g \in Files, NEW c, \A j \in DOMAIN coming[g] : coming[g][j] # c
        PROVE  \A i \in DOMAIN coming'[g] : coming'[g][i] # c
    BY <1>5, <2>1
  <2>2. \A r \in db.files : \A s \in SymbolsOf(db, r.id) :
          \A i \in DOMAIN coming'[r.path] : coming'[r.path][i] # s.text
    BY <1>6, <2>1 DEF GraphTables, TextsPast
  <2>3. Refreshing => \A i \in DOMAIN coming'[pass.rec.path] : coming'[pass.rec.path][i] # pass.rec.content
    BY <1>7, <2>1 DEF GraphTables, TextsPast
  <2> QED BY <1>1, <2>2, <2>3 DEF TextsPast, Refreshing
<1>11. \A r \in db.files : r.hash.stamp = disk'[r.path].stamp => disk'[r.path] = disk[r.path]
  <2> SUFFICES ASSUME NEW r \in db.files, r.hash.stamp = disk'[r.path].stamp
               PROVE  disk'[r.path] = disk[r.path]
    OBVIOUS
  <2>1. CASE r.path = f
    <3>1. r.hash.stamp <= disk[f].stamp
      BY <2>1 DEF IndexInv, Faithful, HashesTrue, Recorded
    <3> QED BY <1>3, <2>1, <3>1
  <2>2. CASE r.path # f
    BY <1>3, <1>6, <2>2
  <2> QED BY <2>1, <2>2
<1>12. SymbolsText'
  BY <1>1, <1>11 DEF GraphTables, SymbolsText
<1>13. EdgesTrue'
  <2> SUFFICES ASSUME NEW r \in db.files, NEW s \in SymbolsOf(db, r.id), NEW t \in db.symbols,
                      <<s.id, t.id>> \in db.edges, s.text = disk'[r.path].sum
               PROVE  \E k \in Calls[s.text] : Defs[s.text][k[1]] = s.name /\ k[2] = t.name
    BY <1>1 DEF EdgesTrue
  <2>1. r.path # f
    BY <1>3, <1>4 DEF GraphTables, TextsPast
  <2> QED BY <1>3, <1>6, <2>1 DEF GraphTables, EdgesTrue
<1> QED BY <1>8, <1>9, <1>10, <1>12, <1>13 DEF GraphTables

\* A file loses its symbols.
LEMMA TablesReplace ==
  ASSUME IndexInv, IndexInv', Orderly, GraphTables, Replace
  PROVE  GraphTables'
<1>1. /\ pass.at = "walk" /\ UNCHANGED <<disk, coming, cancelled>>
      /\ pass'.at = "save" /\ pass'.rec.path = Path /\ pass'.rec.content = disk[Path].sum
      /\ Path \in Files /\ disk[Path].sum \in Contents /\ db'.files = db.files
      /\ cancelled => db' = db
      /\ ~cancelled => db'.symbols = db.symbols \ OfFile(Path) /\ db'.edges = EdgesWithout(OfFile(Path))
  BY ReplaceDid
<1>2. ContentsPass /\ Refreshing' /\ ~Refreshing
  BY <1>1 DEF IndexInv, Orderly, Faithful, Refreshing
<1>3. ASSUME NEW r \in db.files
      PROVE  IF ~cancelled /\ r.path = Path THEN SymbolsOf(db', r.id) = {}
             ELSE SymbolsOf(db', r.id) = SymbolsOf(db, r.id)
  <2>1. CASE cancelled
    BY <1>1, <2>1
  <2>2. CASE ~cancelled /\ r.path = Path
    BY <1>1, <2>2 DEF SymbolsOf, OfFile
  <2>3. CASE ~cancelled /\ r.path # Path
    <3>1. \A q \in db.files : q.id = r.id => q = r
      BY DEF IndexInv, Sound, IdsUnique
    <3> QED BY <1>1, <2>3, <3>1 DEF SymbolsOf, OfFile
  <2> QED BY <2>1, <2>2, <2>3
<1>4. db'.symbols \subseteq db.symbols /\ db'.edges \subseteq db.edges
  BY <1>1 DEF EdgesWithout
<1>5. EdgesResolve(db')
  BY <1>1 DEF GraphTables, EdgesResolve, EdgesWithout, Ids
<1>6. SymbolsText' /\ Emptied'
  BY <1>1, <1>3 DEF GraphTables, SymbolsText, Emptied
<1>7. \A r \in db'.files :
        \/ SymbolsOf(db', r.id) = {}
        \/ SymbolsOf(db', r.id) = SymbolsOf(db, r.id) /\ \E q \in db.files : q.id = r.id /\ q.path = r.path
  BY <1>1, <1>3
<1> HIDE DEF Path
<1> QED BY <1>1, <1>2, <1>4, <1>5, <1>6, <1>7, TablesShrink

\* Its row is written when it has none.
LEMMA TablesSaveFile ==
  ASSUME IndexInv, GraphTables, SaveFileRow
  PROVE  GraphTables'
<1> DEFINE p == pass.rec.path
<1>1. pass.at = "save" /\ UNCHANGED <<disk, coming, cancelled>>
  BY SaveFileDid
<1>2. CASE pass'.at = "walk" /\ db' = db
  BY <1>1, <1>2, TablesQuiet DEF SameGraph, Refreshing
<1>3. ASSUME pass'.at = "symbols", pass'.rec = pass.rec, ~cancelled,
             db'.symbols = db.symbols, db'.edges = db.edges,
             NEW row \in db'.files, row.path = p,
             \A r \in db.files : r.path = p => r.id = row.id,
             \A r \in db'.files : r = row \/ (r \in db.files /\ r.path # p),
             row.id \in Ids(db.files) => \E r \in db.files : r.path = p
      PROVE  GraphTables'
  <2>1. Refreshing /\ Refreshing'
    BY <1>1, <1>3 DEF Refreshing
  <2>2. \A id : SymbolsOf(db', id) = SymbolsOf(db, id)
    BY <1>3 DEF SymbolsOf
  <2>3. SymbolsOf(db, row.id) = {}
    <3>1. CASE \E r \in db.files : r.path = p
      BY <1>3, <2>1, <3>1 DEF GraphTables, Emptied
    <3>2. CASE ~\E r \in db.files : r.path = p
      BY <1>3, <3>2 DEF SymbolsOf, IndexInv, Sound, SymbolsHaveFile
    <3> QED BY <3>1, <3>2
  <2>4. \A r \in db'.files :
          \/ SymbolsOf(db', r.id) = {}
          \/ /\ SymbolsOf(db', r.id) = SymbolsOf(db, r.id) /\ r \in db.files
             /\ \E q \in db.files : q.id = r.id /\ q.path = r.path
    BY <1>3, <2>2, <2>3
  <2>5. SymbolsText'
    BY <1>1, <2>4 DEF GraphTables, SymbolsText
  <2>6. Emptied'
    BY <1>3, <2>2, <2>3 DEF Emptied
  <2>7. EdgesResolve(db')
    BY <1>3 DEF GraphTables, EdgesResolve
  <2> QED BY <1>1, <1>3, <2>1, <2>4, <2>5, <2>6, <2>7, TablesShrink
<1> HIDE DEF p
<1> QED BY <1>2, <1>3, SaveFileDid DEF p

\* The new symbols are those of the content that was parsed, under new ids.
LEMMA TablesSaveSymbols ==
  ASSUME IndexInv, IndexInv', Orderly, GraphTables, SaveSymbols
  PROVE  GraphTables'
<1> DEFINE p == pass.rec.path
           c == pass.rec.content
<1>1. /\ pass.at = "symbols" /\ UNCHANGED <<disk, coming, cancelled>> /\ Refreshing
      /\ c \in Contents /\ p \in Files /\ db'.files = db.files /\ db'.edges = db.edges
  BY SaveSymbolsDid DEF Refreshing
<1>2. CASE pass'.at = "walk" /\ db' = db
  BY <1>1, <1>2, TablesQuiet DEF SameGraph, Refreshing
<1>3. ASSUME pass'.at = "embed", NEW r \in db.files, NEW base \in Nat, r.path = p, r.hash = pass.rec.hash,
             db'.symbols = db.symbols \cup SymbolRows(r.id, c, base),
             cancelled => SymbolRows(r.id, c, base) = {}
      PROVE  GraphTables'
  <2> DEFINE new == SymbolRows(r.id, c, base)
  <2>1. ~Refreshing'
    BY <1>3 DEF Refreshing
  <2>2. \A s \in new : s.file = r.id /\ s.text = c
    BY DEF SymbolRows
  <2> HIDE DEF new
  <2>3. \A q \in db.files : q.id = r.id => q = r
    BY DEF IndexInv, Sound, IdsUnique
  <2>4. ~cancelled => SymbolsOf(db, r.id) = {}
    BY <1>1, <1>3 DEF GraphTables, Emptied
  <2>5. db'.symbols = db.symbols \cup new /\ (cancelled => new = {})
    BY <1>3 DEF new
  <2>6. SymbolsOf(db', r.id) = SymbolsOf(db, r.id) \cup new
    BY <2>2, <2>5 DEF SymbolsOf
  <2>7. \A q \in db.files :
          \/ SymbolsOf(db', q.id) = SymbolsOf(db, q.id)
          \/ q = r /\ SymbolsOf(db', q.id) = new
    <3> SUFFICES ASSUME NEW q \in db.files
                 PROVE  \/ SymbolsOf(db', q.id) = SymbolsOf(db, q.id)
                        \/ q = r /\ SymbolsOf(db', q.id) = new
      OBVIOUS
    <3>1. CASE q = r
      BY <2>4, <2>5, <2>6, <3>1
    <3>2. CASE q # r
      <4>1. q.id # r.id
        BY <2>3, <3>2
      <4> QED BY <2>2, <2>5, <4>1 DEF SymbolsOf
    <3> QED BY <3>1, <3>2
  <2>8. Complete'
    <3>1. new = SymbolRows(r.id, c, base)
      BY DEF new
    <3> HIDE DEF c
    <3> SUFFICES ASSUME NEW q \in db.files, SymbolsOf(db', q.id) # {}
                 PROVE  \E o \in Contents : \E b \in Nat : SymbolsOf(db', q.id) = SymbolRows(q.id, o, b)
      BY <1>1 DEF Complete, Holds
    <3>2. CASE SymbolsOf(db', q.id) = SymbolsOf(db, q.id)
      BY <3>2 DEF GraphTables, Complete, Holds
    <3>3. CASE q = r /\ SymbolsOf(db', q.id) = new
      BY <1>1, <3>1, <3>3
    <3> QED BY <2>7, <3>2, <3>3
  <2>9. Chosen'
    <3>1. PICK h \in Histories : Follows(h)
      BY DEF GraphTables, Chosen
    <3>2. c \in ContentsOf(h, p)
      BY <1>1, <3>1 DEF Follows
    <3>3. \A q \in db'.files : \A s \in SymbolsOf(db', q.id) : s.text \in ContentsOf(h, q.path)
      BY <1>1, <1>3, <2>2, <2>7, <3>1, <3>2 DEF Follows
    <3> QED BY <1>1, <2>1, <3>1, <3>3 DEF Follows, Chosen
  <2>10. TextsPast'
    <3>1. \A i \in DOMAIN coming[p] : coming[p][i] # c
      BY <1>1 DEF GraphTables, TextsPast
    <3>2. \A q \in db'.files : \A s \in SymbolsOf(db', q.id) :
            \A i \in DOMAIN coming[q.path] : coming[q.path][i] # s.text
      <4> SUFFICES ASSUME NEW q \in db.files, NEW s \in SymbolsOf(db', q.id)
                   PROVE  \A i \in DOMAIN coming[q.path] : coming[q.path][i] # s.text
        BY <1>1
      <4>1. CASE SymbolsOf(db', q.id) = SymbolsOf(db, q.id)
        BY <4>1 DEF GraphTables, TextsPast
      <4>2. CASE q = r /\ SymbolsOf(db', q.id) = new
        BY <1>3, <2>2, <3>1, <4>2
      <4> QED BY <2>7, <4>1, <4>2
    <3> QED BY <1>1, <2>1, <3>2 DEF TextsPast
  <2>11. SymbolsText'
    <3>1. r.hash.stamp = disk[r.path].stamp => c = disk[r.path].sum
      BY <1>1, <1>3 DEF IndexInv, Orderly, Faithful, RecordRight
    <3> SUFFICES ASSUME NEW q \in db.files, q.hash.stamp = disk[q.path].stamp, NEW s \in SymbolsOf(db', q.id)
                 PROVE  s.text = disk[q.path].sum
      BY <1>1 DEF SymbolsText
    <3>2. CASE SymbolsOf(db', q.id) = SymbolsOf(db, q.id)
      BY <3>2 DEF GraphTables, SymbolsText
    <3>3. CASE q = r /\ SymbolsOf(db', q.id) = new
      BY <2>2, <3>1, <3>3
    <3> QED BY <2>7, <3>2, <3>3
  <2>12. EdgesTrue'
    <3>1. \A s \in db'.symbols : s.id \in Ids(db.symbols) => s \in db.symbols
      <4>1. IdsUnique(db'.symbols)
        BY DEF IndexInv, Sound
      <4> QED BY <2>5, <4>1 DEF IdsUnique, Ids
    <3>2. \A s, t \in db'.symbols : <<s.id, t.id>> \in db.edges => s \in db.symbols /\ t \in db.symbols
      BY <3>1 DEF GraphTables, EdgesResolve
    <3>3. \A q \in db.files : \A s \in SymbolsOf(db', q.id), t \in db'.symbols :
            <<s.id, t.id>> \in db.edges => s \in SymbolsOf(db, q.id) /\ t \in db.symbols
      BY <3>2 DEF SymbolsOf
    <3> QED BY <1>1, <3>3 DEF GraphTables, EdgesTrue
  <2>13. EdgesResolve(db') /\ Emptied'
    BY <1>1, <2>1, <2>5 DEF GraphTables, EdgesResolve, Emptied, Ids
  <2> QED BY <2>8, <2>9, <2>10, <2>11, <2>12, <2>13 DEF GraphTables
<1> HIDE DEF p, c
<1> QED BY <1>2, <1>3, SaveSymbolsDid DEF p, c

\* The edges that are added are calls.
LEMMA TablesEdges ==
  ASSUME GraphTables, UNCHANGED <<disk, coming>>, ~Refreshing', NEW edges, EdgesMade(edges),
         ~cancelled => \A r \in db.files : \A s \in SymbolsOf(db, r.id), t \in db.symbols :
           <<s.id, t.id>> \in edges /\ s.text = disk[r.path].sum =>
             \E k \in Calls[s.text] : Defs[s.text][k[1]] = s.name /\ k[2] = t.name
  PROVE  GraphTables'
<1>1. db'.files = db.files /\ db'.symbols = db.symbols
  BY DEF EdgesMade
<1>2. \A id : SymbolsOf(db', id) = SymbolsOf(db, id)
  BY <1>1 DEF SymbolsOf
<1>3. Complete' /\ SymbolsText' /\ Emptied' /\ TextsPast'
  <2>1. Complete'
    BY <1>1, <1>2 DEF GraphTables, Complete, Holds
  <2>2. SymbolsText' /\ Emptied'
    BY <1>1, <1>2 DEF GraphTables, SymbolsText, Emptied
  <2>3. TextsPast'
    BY <1>1, <1>2 DEF GraphTables, TextsPast
  <2> QED BY <2>1, <2>2, <2>3
<1>4. Chosen'
  BY <1>1, <1>2 DEF GraphTables, Chosen, Follows
<1>5. EdgesResolve(db')
  BY <1>1 DEF GraphTables, EdgesResolve, EdgesMade, Valid
<1>6. EdgesTrue'
  <2>1. \A e \in db'.edges : e \in db.edges \/ (~cancelled /\ e \in edges)
    BY DEF EdgesMade
  <2> QED BY <1>1, <1>2, <2>1 DEF GraphTables, EdgesTrue
<1> QED BY <1>3, <1>4, <1>5, <1>6 DEF GraphTables

LEMMA TablesSaveEdges ==
  ASSUME IndexInv, GraphTables, GraphPass, SaveEdges
  PROVE  GraphTables'
<1> DEFINE w == Head(pass.work)
           edges == Edges(w.content, w.local, pass.names)
<1>1. /\ pass.at = "edges" /\ pass'.at = "edges" /\ pass.work # <<>> /\ UNCHANGED <<disk, coming>>
      /\ EdgesMade(edges)
  BY SaveEdgesDid
<1>2. /\ w.content \in Contents /\ DOMAIN w.local = NamesIn(w.content)
      /\ \A n \in NamesIn(w.content) : \E s \in db.symbols :
           s.id = w.local[n] /\ s.name = n /\ s.text = w.content
  <2>1. w = pass.work[1] /\ 1 \in DOMAIN pass.work /\ w \in Entries
    BY <1>1, TailOf DEF GraphPass, WorkTrue
  <2> HIDE DEF w
  <2> QED BY <2>1 DEF GraphPass, WorkTrue, Entries
<1> HIDE DEF w
<1>3. ASSUME ~cancelled, NEW s \in db.symbols, NEW t \in db.symbols, <<s.id, t.id>> \in edges
      PROVE  \E k \in Calls[s.text] : Defs[s.text][k[1]] = s.name /\ k[2] = t.name
  <2>1. PICK k \in Calls[w.content] :
          /\ s.id \in Resolve(Defs[w.content][k[1]], w.local, pass.names)
          /\ t.id \in Resolve(k[2], w.local, pass.names)
    BY <1>3, EdgesAre
  <2>2. k[1] \in DOMAIN Defs[w.content]
    BY <1>2, IndexerAssumption
  <2>3. Defs[w.content][k[1]] \in NamesIn(w.content)
    BY <2>2 DEF NamesIn
  <2>4. IdsUnique(db.symbols)
    BY DEF IndexInv, Sound
  <2>5. s.name = Defs[w.content][k[1]] /\ s.text = w.content
    <3> DEFINE n == Defs[w.content][k[1]]
    <3> HIDE DEF n
    <3>1. s.id = w.local[n] /\ n \in NamesIn(w.content)
      BY <1>2, <2>1, <2>3, Resolved DEF n
    <3>2. s.name = n /\ s.text = w.content
      BY <1>2, <2>4, <3>1 DEF IdsUnique
    <3> QED BY <3>2 DEF n
  <2>6. t.name = k[2]
    <3>1. PICK n : n = k[2]
      OBVIOUS
    <3>2. CASE n \in DOMAIN w.local
      <4>1. t.id = w.local[n]
        BY <2>1, <3>1, <3>2, Resolved
      <4> QED BY <1>2, <2>4, <3>1, <3>2, <4>1 DEF IdsUnique
    <3>3. CASE n \notin DOMAIN w.local
      <4>1. n \in Names /\ t.id \in pass.names[n]
        BY <2>1, <3>1, <3>3, Resolved DEF GraphPass, NamesTrue
      <4> QED BY <1>1, <1>3, <2>4, <3>1, <4>1 DEF GraphPass, NamesTrue, IdsUnique
    <3> QED BY <3>2, <3>3
  <2> QED BY <2>5, <2>6
<1> HIDE DEF edges
<1>4. \A r \in db.files : \A s \in SymbolsOf(db, r.id) : s \in db.symbols
  BY DEF SymbolsOf
<1>5. ~Refreshing'
  BY <1>1 DEF Refreshing
<1> QED BY <1>1, <1>3, <1>4, <1>5, TablesEdges

\* In the repair of a file a name of its own text leads to its own symbol: it has
\* its symbols, or no other file has the name.
LEMMA TablesRepairEdges ==
  ASSUME IndexInv, Orderly, GraphTables, GraphPass, RepairEdges
  PROVE  GraphTables'
<1>1. PICK fid, bad, all, names, edges : RepairStep(fid, bad, all, names, edges)
  BY RepairTaken DEF IndexInv, TypeOK
<1>2. pass.at = "repair" /\ UNCHANGED <<disk, coming, cancelled>>
  BY DEF RepairEdges, Environment
<1>3. pass'.at = "repair"
  BY <1>1, <1>2 DEF RepairStep, IndexInv, TypeOK, IsPass
<1>4. EdgesMade(edges)
  <2>1. PICK failed : failed = bad \cap {"edges"}
    OBVIOUS
  <2>2. /\ Failing(bad, all) /\ (edges # {} => "edges" \in all)
        /\ db' = After(SaveEdgeBatch(db, edges, TRUE), failed)
    BY <1>1, <2>1 DEF RepairStep
  <2> QED BY <2>1, <2>2, MadeBy DEF IndexInv
<1> DEFINE own == SymbolsOf(db, fid)
           path == PathOf(pass.existing, fid)
           c == disk[path].sum
<1>5. PICK r \in db.files : r.id = fid /\ r.path = path
  <2>1. fid \in pass.deps /\ fid \in Ids(pass.existing)
    BY <1>1, <1>2 DEF RepairStep, GraphPass, DepsFull
  <2>2. PICK e : e = CHOOSE q \in pass.existing : q.id = fid
    OBVIOUS
  <2>3. e \in pass.existing /\ e.id = fid
    BY <2>1, <2>2 DEF Ids
  <2>4. path = e.path
    BY <2>2 DEF PathOf
  <2>5. \E q \in db.files : q.id = fid
    BY <1>2, <2>1 DEF IndexInv, FilesInv, SameFiles, Ids
  <2>6. \A q \in db.files : q.id = fid => q.path = e.path
    BY <1>2, <2>3 DEF IndexInv, FilesInv, SameFiles
  <2> QED BY <2>4, <2>5, <2>6
<1>6. ASSUME ~cancelled, NEW e \in edges
      PROVE  c \in Contents /\ edges = Edges(c, LocalNames(own), names)
  <2>1. edges = (IF (IF "read" \in bad THEN Gone ELSE c) = Gone \/ "list" \in bad THEN {}
                ELSE Edges(IF "read" \in bad THEN Gone ELSE c, LocalNames(own), names))
    BY <1>1 DEF RepairStep
  <2>2. path \in Files
    BY <1>5 DEF IndexInv, Sound, FileRows
  <2>3. c \in Contents \cup {Gone}
    BY <2>2 DEF IndexInv, TypeOK
  <2> HIDE DEF c
  <2> QED BY <1>6, <2>1, <2>3
<1>7. \A n \in DOMAIN LocalNames(own) : \E u \in own : u.id = LocalNames(own)[n] /\ u.name = n
  <2>1. IdsBounded(own)
    BY DEF IndexInv, Sound, IdsBounded, SymbolsOf, Ids
  <2> HIDE DEF own
  <2> QED BY <2>1, LocalNamesIn
<1>8. DOMAIN LocalNames(own) = {s.name : s \in own}
  BY DEF LocalNames
<1>9. ~cancelled => \A n \in DOMAIN names : \A id \in names[n] : \E s \in db.symbols : s.id = id /\ s.name = n
  <2>1. CASE pass.loaded
    BY <1>1, <1>2, <2>1 DEF RepairStep, GraphPass, NamesTrue
  <2>2. CASE ~pass.loaded
    BY <1>1, <2>2 DEF RepairStep, NamesOf
  <2> QED BY <2>1, <2>2
<1>10. IdsUnique(db.symbols) /\ PathsUnique(db.files) /\ SymbolsHaveFile(db)
  BY DEF IndexInv, Sound
<1>11. PICK h \in Histories : Follows(h)
  BY DEF GraphTables, Chosen
<1>12. ASSUME ~cancelled, NEW q \in db.files, NEW s \in SymbolsOf(db, q.id), NEW t \in db.symbols,
              <<s.id, t.id>> \in edges, s.text = disk[q.path].sum
       PROVE  \E k \in Calls[s.text] : Defs[s.text][k[1]] = s.name /\ k[2] = t.name
  <2>1. c \in Contents /\ edges = Edges(c, LocalNames(own), names)
    BY <1>6, <1>12
  <2>2. PICK o : o = c
    OBVIOUS
  <2> DEFINE local == LocalNames(own)
  <2>3. /\ DOMAIN local = {u.name : u \in own}
        /\ \A n \in DOMAIN local : \E u \in own : u.id = local[n] /\ u.name = n
    BY <1>7, <1>8
  <2>4. o \in Contents /\ edges = Edges(o, local, names)
    BY <2>1, <2>2
  <2> HIDE DEF local
  <2>5. PICK k \in Calls[o] : /\ s.id \in Resolve(Defs[o][k[1]], local, names)
                              /\ t.id \in Resolve(k[2], local, names)
    BY <1>12, <2>4, EdgesAre
  <2>6. s \in db.symbols /\ s.file = q.id /\ own \subseteq db.symbols
    BY DEF SymbolsOf
  <2>7. ASSUME NEW n, NEW u \in db.symbols, u.id \in Resolve(n, local, names)
        PROVE  u.name = n /\ (n \in DOMAIN local => u \in own)
    <3>1. CASE n \in DOMAIN local
      <4>1. u.id = local[n]
        BY <2>7, <3>1, Resolved
      <4> HIDE DEF own
      <4> QED BY <1>10, <2>3, <2>6, <3>1, <4>1 DEF IdsUnique
    <3>2. CASE n \notin DOMAIN local
      <4>1. n \in DOMAIN names /\ u.id \in names[n]
        BY <2>7, <3>2, Resolved
      <4> QED BY <1>9, <1>10, <1>12, <3>2, <4>1 DEF IdsUnique
    <3> QED BY <3>1, <3>2
  <2>8. t.name = k[2]
    <3>1. PICK n : n = k[2]
      OBVIOUS
    <3> QED BY <2>5, <2>7, <3>1
  <2>9. PICK n : n = Defs[o][k[1]]
    OBVIOUS
  <2>10. s.name = n /\ (n \in DOMAIN local => s \in own)
    BY <2>5, <2>6, <2>7, <2>9
  <2>11. CASE n \in DOMAIN local
    <3>1. q = r
      <4>1. q.id = r.id
        BY <1>5, <2>10, <2>11 DEF SymbolsOf
      <4> QED BY <4>1 DEF IndexInv, Sound, IdsUnique
    <3>2. s.text = o
      BY <1>5, <1>12, <2>2, <3>1
    <3> QED BY <2>5, <2>8, <2>9, <2>10, <3>2
  <2>12. CASE n \notin DOMAIN local
    <3>1. q.id # fid /\ q.path # path
      <4>1. q.id # fid
        BY <2>3, <2>10, <2>12 DEF SymbolsOf
      <4> QED BY <1>5, <1>10, <4>1 DEF PathsUnique
    <3>2. s.name \in NamesIn(s.text) /\ s.text \in ContentsOf(h, q.path)
      <4>1. s.name \in NamesIn(s.text)
        BY <1>10, <2>6, SymbolOfContent DEF GraphTables
      <4>2. s.text \in ContentsOf(h, q.path)
        BY <1>11 DEF Follows
      <4> QED BY <4>1, <4>2
    <3>3. path \in Files /\ q.path \in Files
      BY <1>5 DEF IndexInv, Sound, FileRows
    <3>4. o \in ContentsOf(h, path)
      BY <1>11, <2>2, <2>4, <3>3, IndexerAssumption DEF Follows
    <3>5. \/ \A g \in Files \ {path} : \A x \in ContentsOf(h, g) : n \notin NamesIn(x)
          \/ "savefile" \notin MayFail /\ \A x \in ContentsOf(h, path) : n \in NamesIn(x)
      BY <2>5, <2>9, <3>3, <3>4 DEF Orderly, CallersAtHome
    <3>6. PICK u : u \in own
      <4>1. "savefile" \notin MayFail
        BY <2>10, <3>1, <3>2, <3>3, <3>5
      <4>2. fid \in pass.deps \ pass.redone
        BY <1>1, <1>2 DEF RepairStep, GraphPass, DepsFull
      <4> QED BY <1>2, <1>12, <4>1, <4>2 DEF GraphPass, DepsFull
    <3>7. u \in db.symbols /\ u.file = fid /\ u.text \in ContentsOf(h, path)
      <4>1. u \in SymbolsOf(db, r.id)
        BY <1>5, <3>6
      <4> QED BY <1>5, <1>11, <4>1 DEF Follows, SymbolsOf
    <3>8. n \in NamesIn(u.text)
      BY <2>10, <3>1, <3>2, <3>3, <3>5, <3>7
    <3>9. \E v \in SymbolsOf(db, u.file) : v.name = n
      BY <1>10, <3>7, <3>8, SymbolOfContent DEF GraphTables
    <3> QED BY <2>3, <2>12, <3>7, <3>9
  <2> QED BY <2>11, <2>12
<1>13. ~Refreshing'
  BY <1>3 DEF Refreshing
<1> QED BY <1>2, <1>4, <1>12, <1>13, TablesEdges

\* A file goes, with its symbols.
LEMMA TablesDelete ==
  ASSUME IndexInv, GraphTables, DeleteUnseen
  PROVE  GraphTables'
<1>1. /\ pass.at = "delete" /\ pass'.at = "delete" /\ UNCHANGED <<disk, coming, cancelled>>
  BY DeleteDid
<1>2. ~Refreshing'
  BY <1>1 DEF Refreshing
<1>3. CASE SameGraph
  BY <1>1, <1>2, <1>3, TablesQuiet
<1>4. ASSUME NEW r \in pass.existing, db'.files = {q \in db.files : q.id # r.id},
             db'.symbols = db.symbols \ SymbolsOf(db, r.id), db'.edges = EdgesWithout(SymbolsOf(db, r.id))
      PROVE  GraphTables'
  <2>1. \A q \in db'.files : q \in db.files /\ SymbolsOf(db', q.id) = SymbolsOf(db, q.id)
    BY <1>4 DEF SymbolsOf
  <2>2. SymbolsText' /\ Emptied'
    BY <1>1, <1>2, <2>1 DEF GraphTables, SymbolsText, Emptied
  <2>3. EdgesResolve(db')
    BY <1>4 DEF GraphTables, EdgesResolve, EdgesWithout, Ids
  <2>4. db'.symbols \subseteq db.symbols /\ db'.edges \subseteq db.edges
    BY <1>4 DEF EdgesWithout
  <2> QED BY <1>1, <1>2, <2>1, <2>2, <2>3, <2>4, TablesShrink
<1> QED BY <1>3, <1>4, DeleteDid

-----------------------------------------------------------------------------
(* The steps that leave tables and names alone.                            *)

Quiet ==
  \/ \E f \in Files : Edit(f)
  \/ WalkFile \/ WalkStops \/ Skip \/ Unreadable \/ WalkEnds \/ Cancel

LEMMA QuietDid ==
  ASSUME IndexInv, Quiet
  PROVE  /\ db' = db /\ before' = before /\ SameLocals /\ pass'.rec = pass.rec
         /\ pass'.at = pass.at \/ (pass.at = "walk" /\ pass'.at = "edges")
         /\ pass'.seen = pass.seen \/ pass.at = "walk"
         /\ Waiting' \subseteq Waiting
         /\ (clean' => clean) /\ (~cancelled' => ~cancelled)
         /\ clean' => UNCHANGED disk
<1>1. IsPass(pass)
  BY DEF IndexInv, TypeOK
<1>2. CASE (\E f \in Files : Edit(f)) \/ Cancel
  <2>1. UNCHANGED <<db, pass, before>> /\ (clean' => clean) /\ (~cancelled' => ~cancelled) /\ ~clean'
    BY <1>2 DEF Edit, Cancel
  <2>2. Waiting' = Waiting
    BY <2>1 DEF Waiting, Consuming, Ahead, Read
  <2> QED BY <2>1, <2>2 DEF SameLocals
<1>3. CASE WalkFile
  <2> DEFINE f == WalkOrder[pass.walked + 1]
  <2>1. /\ UNCHANGED <<disk, db, cancelled, before>> /\ Consuming /\ pass.walked < Len(WalkOrder)
        /\ clean' => clean
    BY <1>3 DEF WalkFile, Environment
  <2>2. PICK recs : /\ pass' = [pass EXCEPT !.walked = pass.walked + 1, !.recs = recs]
                    /\ recs = pass.recs \/ \E h : recs = Append(pass.recs, [path |-> f, hash |-> h])
    BY <1>3 DEF WalkFile
  <2>3. /\ SameLocals /\ pass'.rec = pass.rec /\ pass'.at = pass.at /\ pass'.seen = pass.seen
        /\ pass'.walked = pass.walked + 1 /\ pass'.recs = recs
    BY <1>1, <2>2 DEF IsPass, SameLocals
  <2>4. pass.walked \in Nat /\ Len(WalkOrder) \in Nat /\ pass'.recs \in Seq(Records)
        /\ pass.recs \in Seq(Records)
    BY Walked, WalkFileKeeps, <1>3 DEF IndexInv, TypeOK
  <2>5. Ahead' \subseteq Ahead /\ f \in Ahead
    BY <2>1, <2>3, <2>4 DEF Ahead
  <2>6. Read' \subseteq Read \cup {f}
    <3>1. CASE recs = pass.recs
      BY <2>3, <3>1 DEF Read
    <3>2. ASSUME NEW h, recs = Append(pass.recs, [path |-> f, hash |-> h]) PROVE Read' \subseteq Read \cup {f}
      <4> DEFINE e == [path |-> f, hash |-> h]
      <4>1. e.path = f
        OBVIOUS
      <4> HIDE DEF e
      <4>2. \A i \in DOMAIN Append(pass.recs, e) :
              Append(pass.recs, e)[i] = e \/ (i \in DOMAIN pass.recs /\ Append(pass.recs, e)[i] = pass.recs[i])
        BY <2>4
      <4>3. pass'.recs = Append(pass.recs, e)
        BY <2>3, <3>2 DEF e
      <4> QED BY <4>1, <4>2, <4>3 DEF Read
    <3> QED BY <2>2, <3>1, <3>2
  <2>7. Waiting' \subseteq Waiting
    <3> HIDE DEF f
    <3> QED BY <2>1, <2>3, <2>5, <2>6 DEF Waiting, Consuming
  <2> QED BY <2>1, <2>3, <2>7
<1>4. CASE WalkStops
  <2>1. /\ UNCHANGED <<disk, db, cancelled, before, clean>> /\ Consuming
        /\ pass' = [pass EXCEPT !.walked = Len(WalkOrder)]
    BY <1>4 DEF WalkStops, Environment
  <2>2. /\ SameLocals /\ pass'.rec = pass.rec /\ pass'.at = pass.at /\ pass'.seen = pass.seen
        /\ pass'.walked = Len(WalkOrder) /\ pass'.recs = pass.recs
    BY <1>1, <2>1 DEF IsPass, SameLocals
  <2>3. Ahead' = {}
    <3>1. Len(WalkOrder) \in Nat
      BY IndexerAssumption
    <3> QED BY <2>2, <3>1 DEF Ahead
  <2>4. Waiting' \subseteq Waiting
    BY <2>1, <2>2, <2>3 DEF Waiting, Consuming, Read
  <2> QED BY <2>1, <2>2, <2>4
<1>5. CASE Skip \/ Unreadable
  <2>1. /\ UNCHANGED <<disk, db, cancelled, before>> /\ pass.at = "walk" /\ pass.recs # <<>> /\ (clean' => clean)
        /\ \E seen : pass' = [pass EXCEPT !.recs = Tail(pass.recs), !.seen = seen]
    <3>1. CASE Skip
      BY <3>1 DEF Skip, Environment
    <3>2. CASE Unreadable
      <4>1. pass' = [pass EXCEPT !.recs = Tail(pass.recs)]
        BY <3>2 DEF Unreadable
      <4>2. pass' = [pass EXCEPT !.recs = Tail(pass.recs), !.seen = pass.seen]
        BY <1>1, <4>1 DEF IsPass
      <4> QED BY <3>2, <4>2 DEF Unreadable, Environment
    <3> QED BY <1>5, <3>1, <3>2
  <2>2. /\ SameLocals /\ pass'.rec = pass.rec /\ pass'.at = pass.at
        /\ pass'.walked = pass.walked /\ pass'.recs = Tail(pass.recs)
    BY <1>1, <2>1 DEF IsPass, SameLocals
  <2>3. Read' \subseteq Read
    BY <2>1, <2>2, RecordTaken DEF IndexInv
  <2>4. Waiting' \subseteq Waiting
    BY <2>1, <2>2, <2>3 DEF Waiting, Consuming, Ahead
  <2> QED BY <2>1, <2>2, <2>4
<1>6. CASE WalkEnds
  <2>1. /\ UNCHANGED <<disk, db, cancelled, before, clean>> /\ pass.at = "walk"
        /\ pass' = [pass EXCEPT !.at = "edges"]
    BY <1>6 DEF WalkEnds, Environment
  <2>2. SameLocals /\ pass'.rec = pass.rec /\ pass'.at = "edges" /\ pass'.seen = pass.seen
    BY <1>1, <2>1 DEF IsPass, SameLocals
  <2>3. Waiting' \subseteq Waiting
    BY <2>2 DEF Waiting, Consuming
  <2> QED BY <2>1, <2>2, <2>3
<1> QED BY <1>2, <1>3, <1>4, <1>5, <1>6 DEF Quiet

\* So do those that begin or end a pass, or a part of it.
LEMMA TablesKeep ==
  ASSUME IndexInv, IndexInv', Orderly, GraphTables, GraphPass, [Next]_vars
  PROVE  GraphTables'
<1>1. CASE UNCHANGED vars
  <2>1. UNCHANGED <<disk, coming, db, pass, cancelled>>
    BY <1>1 DEF vars
  <2> QED BY <2>1, TablesQuiet DEF SameGraph, Refreshing
<1>2. ASSUME NEW f \in Files, Edit(f) PROVE GraphTables'
  BY <1>2, TablesEdit DEF Orderly
<1>3. CASE Quiet /\ UNCHANGED <<disk, coming>>
  <2>1. /\ db' = db /\ pass'.rec = pass.rec /\ (~cancelled' => ~cancelled)
        /\ pass'.at = pass.at \/ (pass.at = "walk" /\ pass'.at = "edges")
    BY <1>3, QuietDid
  <2> QED BY <1>3, <2>1, TablesQuiet DEF SameGraph, Refreshing
<1>4. CASE StartPass \/ EdgesEnd \/ RepairEnds \/ Finish \/ Crash
  <2>1. UNCHANGED <<disk, coming, db>>
    BY <1>4 DEF StartPass, EdgesEnd, RepairEnds, Finish, Crash, Environment
  <2>2. pass'.at \in {"idle", "walk", "repair", "delete"}
    <3>1. CASE StartPass
      BY <3>1 DEF StartPass, Idle
    <3>2. CASE EdgesEnd \/ RepairEnds
      BY <3>2 DEF EdgesEnd, RepairEnds, IndexInv, TypeOK, IsPass
    <3>3. CASE Finish \/ Crash
      BY <3>3 DEF Finish, Crash, Idle
    <3> QED BY <1>4, <3>1, <3>2, <3>3
  <2>3. ~Refreshing'
    BY <2>2 DEF Refreshing
  <2> QED BY <2>1, <2>3, TablesQuiet DEF SameGraph
<1>5. CASE EmbedSymbols
  <2>1. /\ pass'.at = "walk" /\ UNCHANGED <<disk, cancelled>> /\ SameGraph
    BY <1>5, EmbedDid
  <2>2. UNCHANGED coming
    BY <1>5 DEF EmbedSymbols, Environment
  <2>3. ~Refreshing'
    BY <2>1 DEF Refreshing
  <2> QED BY <2>1, <2>2, <2>3, TablesQuiet
<1>6. CASE Replace
  BY <1>6, TablesReplace
<1>7. CASE SaveFileRow
  BY <1>7, TablesSaveFile
<1>8. CASE SaveSymbols
  BY <1>8, TablesSaveSymbols
<1>9. CASE SaveEdges
  BY <1>9, TablesSaveEdges
<1>10. CASE RepairEdges
  BY <1>10, TablesRepairEdges
<1>11. CASE DeleteUnseen
  BY <1>11, TablesDelete
<1>12. WalkFile \/ WalkStops \/ Skip \/ Unreadable \/ WalkEnds \/ Cancel => UNCHANGED <<disk, coming>>
  BY DEF WalkFile, WalkStops, Skip, Unreadable, WalkEnds, Cancel, Environment
<1> QED BY <1>1, <1>2, <1>3, <1>4, <1>5, <1>6, <1>7, <1>8, <1>9, <1>10, <1>11, <1>12
        DEF Next, Walker, Consumer, Quiet

-----------------------------------------------------------------------------
(* What the locals lead to.                                                *)

LEMMA PassQuiet ==
  ASSUME GraphPass, SameGraph, SameLocals, Waiting' \subseteq Waiting,
         pass'.rec = pass.rec \/ pass.at = "embed",
         \/ pass'.at = pass.at
         \/ pass.at = "walk" /\ pass'.at = "edges"
         \/ pass.at = "embed" /\ pass'.at = "walk",
         ~cancelled' => ~cancelled
  PROVE  GraphPass'
<1>1. \A id : SymbolsOf(db', id) = SymbolsOf(db, id)
  BY DEF SameGraph, SymbolsOf
<1>2. NamesTrue'
  BY DEF GraphPass, NamesTrue, SameGraph, SameLocals
<1>3. WorkTrue'
  BY DEF GraphPass, WorkTrue, SameGraph, SameLocals
<1>4. DepsFull'
  BY <1>1 DEF GraphPass, DepsFull, SameGraph, SameLocals
<1> QED BY <1>2, <1>3, <1>4 DEF GraphPass

\* None of it matters before and after a pass.
LEMMA PassIdle ==
  ASSUME pass'.at \in {"idle", "delete"}, pass'.work = <<>>, DOMAIN pass'.names = Names
  PROVE  GraphPass'
<1>1. NamesTrue' /\ DepsFull'
  BY DEF NamesTrue, DepsFull
<1>2. WorkTrue'
  BY DEF WorkTrue
<1> QED BY <1>1, <1>2 DEF GraphPass

LEMMA IdleNames ==
  /\ DOMAIN Idle.names = Names /\ Idle.work = <<>> /\ Idle.at = "idle" /\ Idle.deps = {}
  /\ \A n \in Names : Idle.names[n] = {}
  /\ Idle.loaded = FALSE
BY DEF Idle

LEMMA PassStart ==
  ASSUME StartPass
  PROVE  GraphPass'
<1>1. PICK forced, tests : pass' = [Idle EXCEPT !.at = "walk", !.force = forced \/ ~current,
                                     !.tests = tests, !.mark = forced \/ ~current \/ db.files = {},
                                     !.existing = db.files]
  BY DEF StartPass
<1>2. pass'.at = "walk" /\ pass'.names = Idle.names /\ pass'.work = Idle.work /\ pass'.deps = Idle.deps
  BY <1>1 DEF Idle
<1>3. NamesTrue' /\ DepsFull'
  BY <1>2, IdleNames DEF NamesTrue, DepsFull
<1>4. WorkTrue'
  BY <1>2, IdleNames DEF WorkTrue
<1> QED BY <1>3, <1>4 DEF GraphPass

\* The names of old symbols are taken out.
LEMMA NamesReplace ==
  ASSUME IndexInv, Orderly, GraphPass, Replace
  PROVE  NamesTrue'
<1>1. /\ pass.at = "walk" /\ pass'.at = "save" /\ cancelled' = cancelled /\ DOMAIN pass'.names = Names
      /\ ~cancelled => db'.symbols = db.symbols \ OfFile(Path)
      /\ ~cancelled => \E map : NamesAt(map) /\ pass'.names = RemoveNames(map, OfFile(Path))
  BY ReplaceDid
<1> DEFINE old == OfFile(Path)
<1> HIDE DEF old
<1>2. ASSUME ~cancelled, NEW n \in Names, NEW id \in pass'.names[n]
      PROVE  \E s \in db'.symbols : s.id = id /\ s.name = n
  <2>1. PICK map : NamesAt(map) /\ pass'.names = RemoveNames(map, old)
    BY <1>1, <1>2 DEF old
  <2>2. id \in map[n] /\ id \notin Ids(old)
    BY <1>2, <2>1 DEF RemoveNames
  <2>3. PICK s \in db.symbols : s.id = id /\ s.name = n
    <3>1. CASE pass.loaded /\ map = pass.names
      BY <1>1, <1>2, <2>2, <3>1 DEF GraphPass, NamesTrue
    <3>2. CASE map = NamesOf(db.symbols)
      BY <2>2, <3>2 DEF NamesOf
    <3>3. CASE map = NamesOf({})
      BY <2>2, <3>3 DEF NamesOf
    <3> QED BY <2>1, <3>1, <3>2, <3>3 DEF NamesAt
  <2>4. s \notin old
    BY <2>2, <2>3 DEF Ids
  <2> QED BY <1>1, <1>2, <2>3, <2>4 DEF old
<1> QED BY <1>1, <1>2 DEF NamesTrue

\* The entries are of other files.
LEMMA WorkReplace ==
  ASSUME IndexInv, Orderly, GraphPass, Replace
  PROVE  WorkTrue'
<1>1. /\ pass.at = "walk" /\ pass'.at = "save" /\ pass'.work = pass.work /\ db'.files = db.files
      /\ Waiting' \subseteq Waiting /\ Path \in Waiting
      /\ (cancelled => db' = db) /\ (~cancelled => db'.symbols = db.symbols \ OfFile(Path))
  BY ReplaceDid
<1>2. ASSUME NEW s \in db.symbols, NEW r \in db.files, r.id = s.file, r.path \notin Waiting
      PROVE  s \in db'.symbols /\ r \in db'.files /\ r.path \notin Waiting'
  <2>1. s \notin OfFile(Path)
    BY <1>1, <1>2 DEF OfFile, IndexInv, Sound, IdsUnique
  <2> QED BY <1>1, <1>2, <2>1
<1> HIDE DEF Path
<1>3. ASSUME NEW i \in DOMAIN pass'.work
      PROVE  /\ DOMAIN pass'.work[i].local = NamesIn(pass'.work[i].content)
             /\ \A n \in NamesIn(pass'.work[i].content) : \E s \in db'.symbols :
                  /\ s.id = pass'.work[i].local[n] /\ s.name = n /\ s.text = pass'.work[i].content
                  /\ \E r \in db'.files : r.id = s.file /\ r.path \notin Waiting'
  <2>1. DOMAIN pass.work[i].local = NamesIn(pass.work[i].content) /\ i \in DOMAIN pass.work
    BY <1>1, <1>3 DEF GraphPass, WorkTrue
  <2> SUFFICES ASSUME NEW n \in NamesIn(pass.work[i].content)
               PROVE  \E s \in db'.symbols :
                        /\ s.id = pass.work[i].local[n] /\ s.name = n /\ s.text = pass.work[i].content
                        /\ \E r \in db'.files : r.id = s.file /\ r.path \notin Waiting'
    BY <1>1, <2>1
  <2>2. PICK s \in db.symbols : /\ s.id = pass.work[i].local[n] /\ s.name = n /\ s.text = pass.work[i].content
                                /\ \E r \in db.files : r.id = s.file /\ r.path \notin Waiting
    BY <2>1 DEF GraphPass, WorkTrue
  <2> QED BY <1>2, <2>2
<1> QED BY <1>1, <1>3 DEF GraphPass, WorkTrue

\* A caller of a symbol of the file has symbols; the file itself may have lost
\* them.
LEMMA DepsReplace ==
  ASSUME IndexInv, Orderly, GraphPass, Replace
  PROVE  DepsFull'
<1> DEFINE old == OfFile(Path)
<1>1. /\ pass.at = "walk" /\ pass'.at = "save" /\ cancelled' = cancelled /\ pass'.rec.path = Path
      /\ pass'.redone = pass.redone /\ db'.files = db.files
      /\ ~cancelled => /\ db'.symbols = db.symbols \ old
                       /\ (pass'.deps = pass.deps \cup Callers(old) \/ pass'.deps = pass.deps)
  BY ReplaceDid
<1>2. ASSUME "savefile" \notin MayFail, ~cancelled, NEW fid \in pass'.deps \ pass'.redone
      PROVE  \/ SymbolsOf(db', fid) # {}
             \/ \E r \in db'.files : r.id = fid /\ r.path = Path
  <2>1. CASE fid \in pass.deps
    <3>1. PICK s : s \in SymbolsOf(db, fid)
      BY <1>1, <1>2, <2>1 DEF GraphPass, DepsFull
    <3>2. CASE s \in old
      <4>1. \E r \in db.files : r.id = fid /\ r.path = Path
        BY <3>1, <3>2 DEF OfFile, SymbolsOf
      <4> QED BY <1>1, <4>1
    <3>3. CASE s \notin old
      <4>1. s \in SymbolsOf(db', fid)
        BY <1>1, <1>2, <3>1, <3>3 DEF SymbolsOf
      <4> QED BY <4>1
    <3> QED BY <3>2, <3>3
  <2>2. CASE fid \in Callers(old)
    <3> HIDE DEF old
    <3>1. PICK t \in db.symbols : t.file = fid
      BY <2>2 DEF Callers
    <3>2. t \notin old
      BY <2>2, <3>1 DEF Callers
    <3>3. t \in SymbolsOf(db', fid)
      BY <1>1, <1>2, <3>1, <3>2 DEF SymbolsOf
    <3> QED BY <3>3
  <2> HIDE DEF old
  <2> QED BY <1>1, <1>2, <2>1, <2>2
<1> HIDE DEF old, Path
<1>3. pass'.at # "repair"
  BY <1>1
<1> QED BY <1>1, <1>2, <1>3 DEF DepsFull

\* A caller that gets a row is not repaired.
LEMMA PassSaveFile ==
  ASSUME IndexInv, GraphPass, SaveFileRow
  PROVE  GraphPass'
<1> DEFINE p == pass.rec.path
<1>1. /\ pass.at = "save" /\ cancelled' = cancelled /\ Waiting' = Waiting
      /\ pass'.names = pass.names /\ pass'.work = pass.work /\ pass'.deps = pass.deps
      /\ pass'.loaded = pass.loaded /\ pass'.existing = pass.existing
  BY SaveFileDid
<1>2. CASE pass'.at = "walk" /\ db' = db /\ (cancelled \/ "savefile" \in MayFail)
  <2>1. NamesTrue' /\ DepsFull'
    BY <1>1, <1>2 DEF GraphPass, NamesTrue, DepsFull
  <2>2. WorkTrue'
    BY <1>1, <1>2 DEF GraphPass, WorkTrue
  <2> QED BY <2>1, <2>2 DEF GraphPass
<1>3. ASSUME pass'.at = "symbols", ~cancelled, db'.symbols = db.symbols,
             NEW row \in db'.files, row.path = p, pass'.redone = pass.redone \cup {row.id},
             \A r \in db.files : IF r.path = p THEN r.id = row.id ELSE r.id # row.id /\ r \in db'.files
      PROVE  GraphPass'
  <2>1. NamesTrue'
    BY <1>1, <1>3 DEF GraphPass, NamesTrue
  <2>2. WorkTrue'
    <3>1. \A r \in db.files : \E q \in db'.files : q.id = r.id /\ q.path = r.path
      BY <1>3
    <3>2. ASSUME NEW s, \E r \in db.files : r.id = s.file /\ r.path \notin Waiting
          PROVE  \E r \in db'.files : r.id = s.file /\ r.path \notin Waiting'
      BY <1>1, <3>1, <3>2
    <3> HIDE DEF p
    <3>3. ASSUME NEW i \in DOMAIN pass.work, NEW n \in NamesIn(pass.work[i].content)
          PROVE  \E s \in db'.symbols :
                   /\ s.id = pass.work[i].local[n] /\ s.name = n /\ s.text = pass.work[i].content
                   /\ \E r \in db'.files : r.id = s.file /\ r.path \notin Waiting'
      <4>1. PICK s \in db.symbols : /\ s.id = pass.work[i].local[n] /\ s.name = n /\ s.text = pass.work[i].content
                                    /\ \E r \in db.files : r.id = s.file /\ r.path \notin Waiting
        BY <3>3 DEF GraphPass, WorkTrue
      <4> QED BY <1>3, <3>2, <4>1
    <3> QED BY <1>1, <1>3, <3>3 DEF GraphPass, WorkTrue
  <2>3. DepsFull'
    <3>1. \A id : SymbolsOf(db', id) = SymbolsOf(db, id)
      BY <1>3 DEF SymbolsOf
    <3> QED BY <1>1, <1>3, <3>1 DEF GraphPass, DepsFull
  <2> QED BY <2>1, <2>2, <2>3 DEF GraphPass
<1> HIDE DEF p
<1> QED BY <1>2, <1>3, SaveFileDid DEF p

\* The entry of a replaced file has a symbol for each name it defines.
LEMMA EntryMade ==
  ASSUME NEW r, NEW c \in Contents, NEW base \in Nat, NEW symbols, IdsBounded(symbols),
         SymbolRows(r, c, base) \subseteq symbols
  PROVE  LET local == LocalNames(SymbolRows(r, c, base))
         IN /\ [content |-> c, local |-> local] \in Entries
            /\ DOMAIN local = NamesIn(c)
            /\ \A n \in NamesIn(c) : \E s \in SymbolRows(r, c, base) : s.id = local[n] /\ s.name = n
<1> DEFINE new == SymbolRows(r, c, base)
           local == LocalNames(new)
<1>1. {s.name : s \in new} = NamesIn(c)
  <2>1. \A s \in new : s.name \in NamesIn(c)
    BY DEF SymbolRows, NamesIn
  <2>2. ASSUME NEW i \in DOMAIN Defs[c] PROVE \E s \in new : s.name = Defs[c][i]
    <3> DEFINE s == [id |-> base + i - 1, file |-> r, name |-> Defs[c][i], text |-> c]
    <3>1. s \in new /\ s.name = Defs[c][i]
      BY DEF SymbolRows
    <3> QED BY <3>1
  <2> HIDE DEF new
  <2> QED BY <2>1, <2>2 DEF NamesIn
<1>2. NamesIn(c) \subseteq Names
  BY DEF NamesIn, Names
<1> HIDE DEF new
<1>3. IdsBounded(new)
  BY DEF new, IdsBounded, Ids
<1>4. /\ DOMAIN local = NamesIn(c)
      /\ \A n \in NamesIn(c) : \E s \in new : s.id = local[n] /\ s.name = n
  BY <1>1, <1>3, LocalNamesIn
<1>5. local \in [NamesIn(c) -> Nat]
  <2>1. \A n \in NamesIn(c) : local[n] \in Nat
    BY <1>3, <1>4 DEF IdsBounded, Ids
  <2>2. local = [n \in NamesIn(c) |-> local[n]]
    BY <1>4 DEF LocalNames
  <2> HIDE DEF local
  <2> QED BY <2>1, <2>2
<1> HIDE DEF local
<1>6. [content |-> c, local |-> local] \in Entries
  BY <1>2, <1>5 DEF Entries
<1> QED BY <1>4, <1>6 DEF new, local

LEMMA PassSaveSymbols ==
  ASSUME IndexInv, IndexInv', Orderly, GraphPass, SaveSymbols
  PROVE  GraphPass'
<1> DEFINE p == pass.rec.path
           c == pass.rec.content
<1>1. /\ pass.at = "symbols" /\ UNCHANGED <<disk, coming, cancelled>>
      /\ c \in Contents /\ p \in Files /\ Waiting' = Waiting /\ p \notin Waiting
      /\ pass'.deps = pass.deps /\ pass'.redone = pass.redone
      /\ pass'.loaded = pass.loaded /\ pass'.existing = pass.existing
      /\ db'.files = db.files
  BY SaveSymbolsDid
<1>2. CASE pass'.at = "walk" /\ db' = db /\ pass'.names = pass.names /\ pass'.work = pass.work
  <2>1. NamesTrue' /\ DepsFull'
    BY <1>1, <1>2 DEF GraphPass, NamesTrue, DepsFull
  <2>2. WorkTrue'
    BY <1>1, <1>2 DEF GraphPass, WorkTrue
  <2> QED BY <2>1, <2>2 DEF GraphPass
<1>3. ASSUME pass'.at = "embed", NEW r \in db.files, NEW base \in Nat, r.path = p,
             db'.symbols = db.symbols \cup SymbolRows(r.id, c, base),
             pass'.names = [n \in Names |-> pass.names[n] \cup NamesOf(SymbolRows(r.id, c, base))[n]],
             pass'.work = Append(pass.work, [content |-> c, local |-> LocalNames(SymbolRows(r.id, c, base))])
      PROVE  GraphPass'
  <2> DEFINE new == SymbolRows(r.id, c, base)
             e == [content |-> c, local |-> LocalNames(new)]
  <2>1. \A s \in new : s.file = r.id /\ s.text = c
    BY DEF SymbolRows
  <2>2. /\ e \in Entries /\ DOMAIN e.local = NamesIn(c) /\ e.content = c
        /\ \A n \in NamesIn(c) : \E s \in new : s.id = e.local[n] /\ s.name = n
    <3>1. PICK fid : fid = r.id
      OBVIOUS
    <3>2. IdsBounded(db'.symbols)
      BY DEF IndexInv, Sound
    <3> DEFINE rows == SymbolRows(fid, c, base)
               local == LocalNames(rows)
    <3>3. rows \subseteq db'.symbols
      BY <1>3, <3>1
    <3>4. /\ [content |-> c, local |-> local] \in Entries /\ DOMAIN local = NamesIn(c)
          /\ \A n \in NamesIn(c) : \E s \in rows : s.id = local[n] /\ s.name = n
      <4> HIDE DEF c
      <4> QED BY <1>1, <3>2, <3>3, EntryMade
    <3>5. new = rows /\ e = [content |-> c, local |-> local]
      BY <3>1
    <3> HIDE DEF c, rows, local, new, e
    <3> QED BY <3>4, <3>5
  <2>3. /\ db'.symbols = db.symbols \cup new /\ pass'.work = Append(pass.work, e)
        /\ pass'.names = [n \in Names |-> pass.names[n] \cup NamesOf(new)[n]]
    BY <1>3
  <2> HIDE DEF new, e
  <2>4. NamesTrue'
    <3>1. ASSUME ~cancelled, NEW n \in Names, NEW id \in pass'.names[n]
          PROVE  \E s \in db'.symbols : s.id = id /\ s.name = n
      <4>1. CASE id \in pass.names[n]
        BY <1>1, <2>3, <3>1, <4>1 DEF GraphPass, NamesTrue
      <4>2. CASE id \in NamesOf(new)[n]
        BY <2>3, <4>2 DEF NamesOf
      <4> QED BY <2>3, <3>1, <4>1, <4>2
    <3> QED BY <1>1, <2>3, <3>1 DEF NamesTrue
  <2>5. WorkTrue'
    <3>1. pass.work \in Seq(Entries)
      BY DEF GraphPass, WorkTrue
    <3>2. /\ pass'.work \in Seq(Entries)
          /\ \A i \in DOMAIN pass'.work :
               pass'.work[i] = e \/ (i \in DOMAIN pass.work /\ pass'.work[i] = pass.work[i])
      BY <2>2, <2>3, <3>1, AppendTo
    <3>3. ASSUME NEW i \in DOMAIN pass'.work
          PROVE  /\ DOMAIN pass'.work[i].local = NamesIn(pass'.work[i].content)
                 /\ \A n \in NamesIn(pass'.work[i].content) : \E s \in db'.symbols :
                      /\ s.id = pass'.work[i].local[n] /\ s.name = n /\ s.text = pass'.work[i].content
                      /\ \E q \in db'.files : q.id = s.file /\ q.path \notin Waiting'
      <4>1. CASE pass'.work[i] = e
        <5> SUFFICES ASSUME NEW n \in NamesIn(c)
                     PROVE  \E s \in db'.symbols :
                              /\ s.id = e.local[n] /\ s.name = n /\ s.text = c
                              /\ \E q \in db'.files : q.id = s.file /\ q.path \notin Waiting'
          BY <2>2, <4>1
        <5>1. PICK s \in new : s.id = e.local[n] /\ s.name = n
          BY <2>2
        <5>2. s \in db'.symbols /\ s.text = c /\ r.id = s.file
          BY <2>1, <2>3
        <5> QED BY <1>1, <1>3, <5>1, <5>2
      <4>2. CASE i \in DOMAIN pass.work /\ pass'.work[i] = pass.work[i]
        BY <1>1, <2>3, <4>2 DEF GraphPass, WorkTrue
      <4> QED BY <3>2, <4>1, <4>2
    <3> QED BY <1>3, <3>2, <3>3 DEF WorkTrue
  <2>6. DepsFull'
    <3>1. \A id : SymbolsOf(db, id) \subseteq SymbolsOf(db', id)
      BY <2>3 DEF SymbolsOf
    <3> QED BY <1>1, <1>3, <3>1 DEF GraphPass, DepsFull
  <2> QED BY <2>4, <2>5, <2>6 DEF GraphPass
<1> HIDE DEF p, c
<1> QED BY <1>2, <1>3, SaveSymbolsDid DEF p, c

LEMMA PassSaveEdges ==
  ASSUME IndexInv, GraphPass, SaveEdges
  PROVE  GraphPass'
<1>1. /\ pass.at = "edges" /\ pass'.at = "edges" /\ pass.work # <<>> /\ cancelled' = cancelled
      /\ pass'.work = Tail(pass.work) /\ pass'.names = pass.names /\ pass'.deps = pass.deps
      /\ pass'.redone = pass.redone /\ pass'.existing = pass.existing
  BY SaveEdgesDid
<1>2. db'.files = db.files /\ db'.symbols = db.symbols
  BY SaveEdgesDid DEF EdgesMade
<1>3. \A id : SymbolsOf(db', id) = SymbolsOf(db, id)
  BY <1>2 DEF SymbolsOf
<1>4. NamesTrue' /\ DepsFull'
  BY <1>1, <1>2, <1>3 DEF GraphPass, NamesTrue, DepsFull
<1>5. WorkTrue'
  <2>1. pass.work \in Seq(Entries)
    BY DEF GraphPass, WorkTrue
  <2>2. /\ pass'.work \in Seq(Entries)
        /\ \A i \in DOMAIN pass'.work : i + 1 \in DOMAIN pass.work /\ pass'.work[i] = pass.work[i + 1]
    BY <1>1, <2>1, TailOf
  <2>3. Waiting = {} /\ Waiting' = {}
    BY <1>1 DEF Waiting, Consuming
  <2>4. ASSUME NEW i \in DOMAIN pass'.work
        PROVE  /\ DOMAIN pass'.work[i].local = NamesIn(pass'.work[i].content)
               /\ \A n \in NamesIn(pass'.work[i].content) : \E s \in db.symbols :
                    /\ s.id = pass'.work[i].local[n] /\ s.name = n /\ s.text = pass'.work[i].content
                    /\ \E q \in db.files : q.id = s.file /\ q.path \notin Waiting
    <3>1. PICK j \in DOMAIN pass.work : pass'.work[i] = pass.work[j]
      BY <2>2
    <3> QED BY <3>1 DEF GraphPass, WorkTrue
  <2> QED BY <1>1, <1>2, <2>2, <2>3, <2>4 DEF WorkTrue
<1> QED BY <1>4, <1>5 DEF GraphPass

LEMMA PassEdgesEnd ==
  ASSUME IndexInv, GraphPass, EdgesEnd
  PROVE  GraphPass'
<1>1. /\ pass.at = "edges" /\ pass.work = <<>> /\ UNCHANGED <<disk, db, cancelled, clean, before>>
      /\ pass' = [pass EXCEPT !.at = "repair", !.deps = (pass.deps \ pass.redone) \cap Ids(pass.existing),
                    !.loaded = FALSE, !.names = Idle.names]
  BY DEF EdgesEnd, Environment
<1>2. /\ pass'.at = "repair" /\ pass'.work = <<>> /\ pass'.names = Idle.names /\ pass'.redone = pass.redone
      /\ pass'.deps = (pass.deps \ pass.redone) \cap Ids(pass.existing) /\ pass'.existing = pass.existing
  BY <1>1 DEF IndexInv, TypeOK, IsPass
<1>3. NamesTrue'
  BY <1>2, IdleNames DEF NamesTrue
<1>4. WorkTrue'
  BY <1>2 DEF WorkTrue
<1>5. DepsFull'
  BY <1>1, <1>2 DEF GraphPass, DepsFull
<1> QED BY <1>3, <1>4, <1>5 DEF GraphPass

LEMMA PassRepairEdges ==
  ASSUME IndexInv, GraphPass, RepairEdges
  PROVE  GraphPass'
<1>1. PICK fid, bad, all, names, edges : RepairStep(fid, bad, all, names, edges)
  BY RepairTaken DEF IndexInv, TypeOK
<1>2. pass.at = "repair" /\ UNCHANGED <<disk, coming, cancelled>>
  BY DEF RepairEdges, Environment
<1> DEFINE own == SymbolsOf(db, fid)
<1>3. /\ pass'.at = "repair" /\ pass'.work = pass.work /\ pass'.redone = pass.redone
      /\ pass'.deps = pass.deps \ {fid} /\ pass'.existing = pass.existing
      /\ pass'.names \in {pass.names, names, Restored(names, own)}
  <2>1. PICK gone, new, load : /\ pass' = [pass EXCEPT !.deps = pass.deps \ {fid}, !.loaded = load, !.names = new]
                         /\ new = IF gone THEN pass.names ELSE IF "list" \in bad THEN names ELSE Restored(names, own)
    BY <1>1 DEF RepairStep
  <2> HIDE DEF own
  <2> QED BY <1>2, <2>1 DEF IndexInv, TypeOK, IsPass
<1>4. db'.files = db.files /\ db'.symbols = db.symbols
  BY <1>1, EdgesSaved DEF RepairStep, After, IndexInv
<1>5. DOMAIN names = Names /\
      (~cancelled => \A n \in Names : \A id \in names[n] : \E s \in db.symbols : s.id = id /\ s.name = n)
  <2>1. CASE pass.loaded
    BY <1>1, <1>2, <2>1 DEF RepairStep, GraphPass, NamesTrue
  <2>2. CASE ~pass.loaded
    BY <1>1, <2>2 DEF RepairStep, NamesOf
  <2> QED BY <2>1, <2>2
<1>6. NamesTrue'
  <2>1. own \subseteq db.symbols /\ IdsBounded(own)
    BY DEF IndexInv, Sound, IdsBounded, SymbolsOf, Ids
  <2>2. DOMAIN pass'.names = Names
    <3>1. DOMAIN Restored(names, own) = Names
      BY DEF Restored
    <3> QED BY <1>3, <1>5, <3>1 DEF GraphPass, NamesTrue
  <2> HIDE DEF own
  <2>3. ASSUME ~cancelled, NEW n \in Names, NEW id \in pass'.names[n]
        PROVE  \E s \in db.symbols : s.id = id /\ s.name = n
    <3>1. CASE pass'.names = pass.names
      BY <1>2, <2>3, <3>1 DEF GraphPass, NamesTrue
    <3>2. CASE pass'.names = names
      BY <1>5, <2>3, <3>2
    <3>3. CASE pass'.names = Restored(names, own)
      <4>1. id \in names[n] \/ \E s \in own : s.id = id /\ s.name = n
        BY <2>1, <2>3, <3>3, RestoredIn
      <4> QED BY <1>5, <2>1, <2>3, <4>1
    <3> QED BY <1>3, <3>1, <3>2, <3>3
  <2> QED BY <1>2, <1>4, <2>2, <2>3 DEF NamesTrue
<1>7. WorkTrue'
  BY <1>2, <1>3 DEF GraphPass, WorkTrue
<1>8. DepsFull'
  <2>1. \A id : SymbolsOf(db', id) = SymbolsOf(db, id)
    BY <1>4 DEF SymbolsOf
  <2> HIDE DEF own
  <2> QED BY <1>2, <1>3, <1>4, <2>1 DEF GraphPass, DepsFull
<1> QED BY <1>6, <1>7, <1>8 DEF GraphPass

LEMMA PassKeep ==
  ASSUME IndexInv, IndexInv', Orderly, GraphPass, [Next]_vars
  PROVE  GraphPass'
<1>1. CASE UNCHANGED vars
  <2>1. UNCHANGED <<disk, coming, db, pass, cancelled>>
    BY <1>1 DEF vars
  <2>2. Waiting' \subseteq Waiting
    BY <2>1 DEF Waiting, Consuming, Ahead, Read
  <2> QED BY <2>1, <2>2, PassQuiet DEF SameGraph, SameLocals
<1>2. CASE Quiet
  BY <1>2, QuietDid, PassQuiet DEF SameGraph
<1>3. CASE EmbedSymbols
  BY <1>3, EmbedDid, PassQuiet
<1>4. CASE Finish \/ Crash
  <2>1. pass' = Idle
    BY <1>4 DEF Finish, Crash
  <2> QED BY <2>1, IdleNames, PassIdle
<1>5. CASE RepairEnds
  <2>1. /\ pass.at = "repair"
        /\ pass' = [pass EXCEPT !.at = "delete", !.existing = {r \in pass.existing : r.path \notin pass.seen}]
    BY <1>5 DEF RepairEnds
  <2>2. pass'.at = "delete" /\ pass'.work = pass.work /\ pass'.names = pass.names
    BY <2>1 DEF IndexInv, TypeOK, IsPass
  <2>3. pass.work = <<>> /\ DOMAIN pass.names = Names
    BY <2>1 DEF GraphPass, WorkTrue, NamesTrue
  <2> QED BY <2>2, <2>3, PassIdle
<1>6. CASE DeleteUnseen
  <2>1. pass.at = "delete" /\ pass'.at = "delete" /\ pass'.work = pass.work /\ pass'.names = pass.names
    BY <1>6, DeleteDid
  <2>2. pass.work = <<>> /\ DOMAIN pass.names = Names
    BY <2>1 DEF GraphPass, WorkTrue, NamesTrue
  <2> QED BY <2>1, <2>2, PassIdle
<1>7. CASE Replace
  BY <1>7, NamesReplace, WorkReplace, DepsReplace DEF GraphPass
<1> QED BY <1>1, <1>2, <1>3, <1>4, <1>5, <1>6, <1>7, PassStart, PassSaveFile, PassSaveSymbols, PassSaveEdges,
           PassEdgesEnd, PassRepairEdges DEF Next, Walker, Consumer, Quiet

-----------------------------------------------------------------------------
(* A pass in which nothing changed or failed.                              *)

\* The names that are loaded are those of the table.
NamesFull ==
  /\ Refreshing \/ pass.work # <<>> => pass.loaded
  /\ (Consuming \/ pass.at = "edges") /\ pass.loaded => pass.names = NamesOf(db.symbols)
  /\ pass.at = "repair" /\ pass.loaded =>
       \A s \in db.symbols : (\A u \in db.symbols : u.name = s.name => u = s) => pass.names[s.name] = {s.id}

\* What CallsKept asks of the disk, of a call that was there before the pass.
Premise(r) == disk[r.from].sum = r.text /\ DefinedOnceIn(r.to, r.dst)

CallHeld(r) ==
  /\ r.from \in Files /\ r.to \in Files /\ r.text \in Contents
  /\ \E k \in Calls[r.text] : Defs[r.text][k[1]] = r.src /\ k[2] = r.dst

\* The name has one symbol, or none while its file is without.
OneDst(r) ==
  IF Refreshing /\ pass.rec.path = r.to THEN \A u \in db.symbols : u.name # r.dst
  ELSE \E t \in OfFile(r.to) : t.name = r.dst /\ \A u \in db.symbols : u.name = r.dst => u = t

\* The caller has the edge, or it is to be resolved: in the repair of its file,
\* among the edges put off, or with the symbols that are to come.
Caller(r) == {s \in OfFile(r.from) : s.name = r.src /\ s.text = r.text}
Linked(r, s) == \E t \in OfFile(r.to) : t.name = r.dst /\ <<s.id, t.id>> \in db.edges
ToRepair(s) == pass.at \notin {"idle", "delete"} /\ s.file \in pass.deps \ pass.redone
ToSave(r, s) ==
  \E i \in DOMAIN pass.work : pass.work[i].content = r.text /\ pass.work[i].local[r.src] = s.id

Kept(r) ==
  \/ \E s \in Caller(r) :
       \/ Linked(r, s) /\ (Consuming => s.file \notin pass.redone)
       \/ ToRepair(s) \/ ToSave(r, s)
  \/ Refreshing /\ pass.rec.path = r.from

Pending(r) ==
  /\ OneDst(r) /\ Kept(r)
  /\ pass.at \notin {"idle", "delete"} => \E q \in pass.existing : q.path = r.from

CallsPending == \A r \in before : Premise(r) => CallHeld(r) /\ Pending(r)

GraphClean == clean => NamesFull /\ CallsPending

\* The file of a symbol.
LEMMA InFile ==
  ASSUME Sound(db), NEW s \in db.symbols
  PROVE  \E q \in db.files :
           /\ q.id = s.file /\ q.path \in Files /\ PathOf(db.files, s.file) = q.path
           /\ s \in OfFile(q.path) /\ \A f : s \in OfFile(f) => f = q.path
<1>1. PICK q \in db.files : q.id = s.file
  BY DEF Sound, SymbolsHaveFile, Ids
<1>2. \A o \in db.files : o.id = s.file => o = q
  BY <1>1 DEF Sound, IdsUnique
<1>3. PICK o : o = CHOOSE v \in db.files : v.id = s.file
  OBVIOUS
<1>4. o = q /\ PathOf(db.files, s.file) = o.path
  BY <1>1, <1>2, <1>3 DEF PathOf
<1>5. s \in OfFile(q.path) /\ \A f : s \in OfFile(f) => f = q.path
  BY <1>1, <1>2 DEF OfFile
<1>6. q.path \in Files
  BY DEF Sound, FileRows
<1> QED BY <1>1, <1>4, <1>5, <1>6

\* In such a pass nothing is cancelled, and what is parsed is on disk.
LEMMA CleanMeans ==
  ASSUME IndexInv, Orderly, clean, pass.at # "idle"
  PROVE  /\ ~cancelled /\ PresentIn(Waiting \cup Working \cup pass.seen)
         /\ Refreshing => pass.rec.content = disk[pass.rec.path].sum
BY DEF IndexInv, Orderly, Faithful, CleanPass, RecordRight

LEMMA PremiseStays ==
  ASSUME UNCHANGED disk, NEW r
  PROVE  (Premise(r)' <=> Premise(r)) /\ (CallHeld(r)' <=> CallHeld(r))
BY DEF Premise, CallHeld, DefinedOnceIn, DefinitionsOf

-----------------------------------------------------------------------------
(* The names.                                                              *)

LEMMA NamesStay ==
  ASSUME NamesFull, SameGraph, SameLocals,
         \/ pass'.at = pass.at
         \/ pass.at = "walk" /\ pass'.at = "edges"
         \/ pass.at = "embed" /\ pass'.at = "walk"
         \/ pass.at = "save" /\ pass'.at = "symbols"
  PROVE  NamesFull'
BY DEF NamesFull, SameGraph, SameLocals, Refreshing, Consuming

LEMMA NamesFree ==
  ASSUME pass'.work = <<>>,
         pass'.at \in {"idle", "delete"} \/ (pass'.loaded = FALSE /\ pass'.at \in {"walk", "repair"})
  PROVE  NamesFull'
BY DEF NamesFull, Refreshing, Consuming

LEMMA FullReplace ==
  ASSUME IndexInv, Orderly, NamesFull, Replace, clean'
  PROVE  NamesFull'
<1> DEFINE old == OfFile(Path)
<1>1. /\ pass.at = "walk" /\ pass'.at = "save" /\ pass'.loaded = TRUE /\ clean
      /\ db'.symbols = db.symbols \ old
      /\ \E map : NamesAt(map) /\ pass'.names = RemoveNames(map, old)
  <2>1. clean /\ pass.at = "walk"
    BY ReplaceDid
  <2>2. ~cancelled
    BY <2>1, CleanMeans
  <2> QED BY <2>2, ReplaceDid
<1>2. pass'.names = RemoveNames(NamesOf(db.symbols), old)
  BY <1>1 DEF NamesAt, NamesFull, Consuming
<1>3. old \subseteq db.symbols /\ IdsUnique(db.symbols)
  BY DEF OfFile, IndexInv, Sound
<1> HIDE DEF old
<1>4. \A n \in Names : NamesOf(db.symbols)[n] \ Ids(old) = NamesOf(db'.symbols)[n]
  <2> SUFFICES ASSUME NEW n \in Names PROVE NamesOf(db.symbols)[n] \ Ids(old) = NamesOf(db'.symbols)[n]
    OBVIOUS
  <2>1. /\ NamesOf(db.symbols)[n] = {s.id : s \in {t \in db.symbols : t.name = n}}
        /\ NamesOf(db'.symbols)[n] = {s.id : s \in {t \in db'.symbols : t.name = n}}
    BY DEF NamesOf
  <2>2. \A s \in db.symbols : s.id \in Ids(old) <=> s \in old
    BY <1>3 DEF IdsUnique, Ids
  <2>3. {s.id : s \in {t \in db.symbols : t.name = n}} \ Ids(old)
          = {s.id : s \in {t \in db.symbols \ old : t.name = n}}
    BY <2>2
  <2> QED BY <1>1, <2>1, <2>3
<1>5. pass'.names = NamesOf(db'.symbols)
  <2>1. pass'.names = [n \in Names |-> NamesOf(db.symbols)[n] \ Ids(old)]
    BY <1>2 DEF RemoveNames
  <2>2. NamesOf(db'.symbols) = [n \in Names |-> NamesOf(db'.symbols)[n]]
    BY DEF NamesOf
  <2> QED BY <1>4, <2>1, <2>2
<1> QED BY <1>1, <1>5 DEF NamesFull

LEMMA FullSaveSymbols ==
  ASSUME IndexInv, Orderly, NamesFull, SaveSymbols, clean'
  PROVE  NamesFull'
<1>1. pass.at = "symbols" /\ pass'.loaded = pass.loaded
  BY SaveSymbolsDid
<1>2. PICK new : /\ pass'.at = "embed" /\ db'.symbols = db.symbols \cup new
                 /\ pass'.names = [n \in Names |-> pass.names[n] \cup NamesOf(new)[n]]
  BY SaveSymbolsDid
<1>3. pass.loaded /\ pass.names = NamesOf(db.symbols)
  BY <1>1 DEF NamesFull, Refreshing, Consuming
<1>4. \A n \in Names : NamesOf(db.symbols)[n] \cup NamesOf(new)[n] = NamesOf(db'.symbols)[n]
  <2> SUFFICES ASSUME NEW n \in Names
               PROVE NamesOf(db.symbols)[n] \cup NamesOf(new)[n] = NamesOf(db'.symbols)[n]
    OBVIOUS
  <2>1. /\ NamesOf(db.symbols)[n] = {s.id : s \in {t \in db.symbols : t.name = n}}
        /\ NamesOf(new)[n] = {s.id : s \in {t \in new : t.name = n}}
        /\ NamesOf(db'.symbols)[n] = {s.id : s \in {t \in db'.symbols : t.name = n}}
    BY DEF NamesOf
  <2> QED BY <1>2, <2>1
<1>5. pass'.names = NamesOf(db'.symbols)
  <2>1. NamesOf(db'.symbols) = [n \in Names |-> NamesOf(db'.symbols)[n]]
    BY DEF NamesOf
  <2> QED BY <1>2, <1>3, <1>4, <2>1
<1> QED BY <1>1, <1>2, <1>3, <1>5 DEF NamesFull

\* What a clean repair does.
LEMMA CleanRepair ==
  ASSUME IndexInv, Orderly, RepairEdges, clean'
  PROVE  \E fid \in pass.deps :
           LET c == disk[PathOf(pass.existing, fid)].sum
               own == SymbolsOf(db, fid)
               names == IF pass.loaded THEN pass.names ELSE NamesOf(db.symbols)
               edges == IF c = Gone THEN {} ELSE Edges(c, LocalNames(own), names)
           IN /\ pass.at = "repair" /\ pass'.at = "repair" /\ clean /\ UNCHANGED <<disk, before>>
              /\ EdgesMade(edges)
              /\ pass'.deps = pass.deps \ {fid} /\ pass'.redone = pass.redone
              /\ pass'.work = pass.work /\ pass'.existing = pass.existing
              /\ pass'.loaded = (pass.loaded \/ c # Gone)
              /\ pass'.names = IF c = Gone THEN pass.names ELSE Restored(names, own)
<1>1. PICK fid, bad, all, names, edges : RepairStep(fid, bad, all, names, edges)
  BY RepairTaken DEF IndexInv, TypeOK
<1>2. pass.at = "repair" /\ UNCHANGED <<disk, before, cancelled>>
  BY DEF RepairEdges, Environment
<1>3. clean /\ bad = {}
  BY <1>1 DEF RepairStep, Failing
<1> DEFINE c == disk[PathOf(pass.existing, fid)].sum
           own == SymbolsOf(db, fid)
           map == IF pass.loaded THEN pass.names ELSE NamesOf(db.symbols)
<1>4. /\ fid \in pass.deps /\ names = map
      /\ edges = (IF c = Gone THEN {} ELSE Edges(c, LocalNames(own), map))
      /\ (edges # {} => "edges" \in all) /\ Failing(bad, all)
      /\ db' = After(SaveEdgeBatch(db, edges, TRUE), bad \cap {"edges"})
      /\ pass' = [pass EXCEPT !.deps = pass.deps \ {fid}, !.loaded = pass.loaded \/ c # Gone,
                    !.names = IF c = Gone THEN pass.names ELSE Restored(map, own)]
  BY <1>1, <1>3 DEF RepairStep
<1>5. EdgesMade(edges)
  <2>1. PICK failed : failed = bad \cap {"edges"}
    OBVIOUS
  <2> HIDE DEF c, own, map
  <2> QED BY <1>4, <2>1, MadeBy DEF IndexInv
<1>6. /\ pass'.at = "repair" /\ pass'.deps = pass.deps \ {fid} /\ pass'.redone = pass.redone
      /\ pass'.work = pass.work /\ pass'.existing = pass.existing
      /\ pass'.loaded = (pass.loaded \/ c # Gone)
      /\ pass'.names = IF c = Gone THEN pass.names ELSE Restored(map, own)
  <2> HIDE DEF c, own, map
  <2> QED BY <1>2, <1>4 DEF IndexInv, TypeOK, IsPass
<1>7. EdgesMade(IF c = Gone THEN {} ELSE Edges(c, LocalNames(own), map))
  BY <1>4, <1>5
<1> QED BY <1>2, <1>3, <1>4, <1>6, <1>7

LEMMA FullRepair ==
  ASSUME IndexInv, Orderly, GraphTables, GraphPass, NamesFull, RepairEdges, clean'
  PROVE  NamesFull'
<1> DEFINE c(fid) == disk[PathOf(pass.existing, fid)].sum
           names == IF pass.loaded THEN pass.names ELSE NamesOf(db.symbols)
<1>1. PICK fid \in pass.deps :
        /\ pass.at = "repair" /\ pass'.at = "repair" /\ pass'.work = pass.work
        /\ pass'.loaded = (pass.loaded \/ c(fid) # Gone)
        /\ pass'.names = IF c(fid) = Gone THEN pass.names ELSE Restored(names, SymbolsOf(db, fid))
        /\ db'.symbols = db.symbols
  BY CleanRepair DEF EdgesMade
<1>2. pass'.work = <<>>
  BY <1>1 DEF GraphPass, WorkTrue
<1>3. ASSUME pass'.loaded, NEW s \in db.symbols, \A u \in db.symbols : u.name = s.name => u = s
      PROVE  pass'.names[s.name] = {s.id}
  <2>1. PICK n : n = s.name
    OBVIOUS
  <2>2. n \in Names
    BY <2>1, SymbolOfContent DEF GraphTables, IndexInv, Sound
  <2>3. names[n] = {s.id}
    <3>1. CASE pass.loaded
      BY <1>1, <1>3, <2>1, <3>1 DEF NamesFull
    <3>2. CASE ~pass.loaded
      <4>1. {u.id : u \in {t \in db.symbols : t.name = n}} = {s.id}
        BY <1>3, <2>1
      <4> QED BY <2>2, <3>2, <4>1 DEF NamesOf
    <3> QED BY <3>1, <3>2
  <2>4. CASE c(fid) = Gone
    BY <1>1, <1>3, <2>1, <2>3, <2>4
  <2>5. CASE c(fid) # Gone
    <3> DEFINE own == SymbolsOf(db, fid)
    <3>1. own \subseteq db.symbols /\ IdsBounded(own)
      BY DEF IndexInv, Sound, IdsBounded, SymbolsOf, Ids
    <3> HIDE DEF own, names
    <3>2. \A x, u \in own : x.name = n /\ u.name = n => x = u
      BY <1>3, <2>1, <3>1
    <3>3. Restored(names, own)[n] = names[n]
      BY <2>2, <3>1, <3>2, RestoredIn
    <3> QED BY <1>1, <2>1, <2>3, <2>5, <3>3 DEF own
  <2> QED BY <2>4, <2>5
<1> QED BY <1>1, <1>2, <1>3 DEF NamesFull, Refreshing, Consuming

-----------------------------------------------------------------------------
(* The calls that are to be kept.                                          *)

\* Where a name resolves to that has one symbol.
LEMMA OneName ==
  ASSUME NEW n, NEW t, t \in db.symbols, t.name = n, NEW local, NEW names,
         \A u \in db.symbols : u.name = n => u = t,
         \A m \in DOMAIN local : \E u \in db.symbols : u.id = local[m] /\ u.name = m,
         n \in DOMAIN local \/ (n \in DOMAIN names /\ names[n] = {t.id})
  PROVE  t.id \in Resolve(n, local, names)
<1>1. CASE n \in DOMAIN local
  <2>1. local[n] = t.id
    BY <1>1
  <2> QED BY <1>1, <2>1, Resolved
<1>2. CASE n \notin DOMAIN local
  BY <1>2, Resolved
<1> QED BY <1>1, <1>2

\* Edges of names that lead to symbols are edges of symbols.
LEMMA ValidEdges ==
  ASSUME NEW c, NEW local, NEW names,
         \A n \in DOMAIN local : \E u \in db.symbols : u.id = local[n] /\ u.name = n,
         \A n \in DOMAIN names : \A id \in names[n] : \E u \in db.symbols : u.id = id /\ u.name = n
  PROVE  Valid(Edges(c, local, names))
<1>1. \A n : \A id \in Resolve(n, local, names) : id \in Ids(db.symbols)
  <2> SUFFICES ASSUME NEW n, NEW id \in Resolve(n, local, names) PROVE id \in Ids(db.symbols)
    OBVIOUS
  <2>1. IF n \in DOMAIN local THEN id = local[n] ELSE n \in DOMAIN names /\ id \in names[n]
    BY Resolved
  <2> QED BY <2>1 DEF Ids
<1>2. \A e \in Edges(c, local, names) : \E k \in Calls[c] :
        /\ e[1] \in Resolve(Defs[c][k[1]], local, names) /\ e[2] \in Resolve(k[2], local, names)
  BY EdgesAre
<1> QED BY <1>1, <1>2 DEF Valid

\* A call the graph resolved when the pass begins.
LEMMA PendingStart ==
  ASSUME IndexInv, IndexInv', Orderly, GraphTables, StartPass, NEW r \in before', Premise(r)'
  PROVE  CallHeld(r)' /\ Pending(r)'
<1>1. /\ pass.at = "idle" /\ UNCHANGED <<disk, db, cancelled>>
      /\ before' = {v \in ResolvedCalls : OnlyOne(v.dst)}
  BY DEF StartPass
<1>2. PICK forced, tests : pass' = [Idle EXCEPT !.at = "walk", !.force = forced \/ ~current,
                                     !.tests = tests, !.mark = forced \/ ~current \/ db.files = {},
                                     !.existing = db.files]
  BY DEF StartPass
<1>3. /\ pass'.at = "walk" /\ pass'.existing = db.files
      /\ pass'.redone = {}
  BY <1>2 DEF Idle
<1>4. PICK s \in db.symbols, t \in db.symbols :
        /\ <<s.id, t.id>> \in db.edges
        /\ r = [from |-> PathOf(db.files, s.file), src |-> s.name, text |-> s.text,
                to |-> PathOf(db.files, t.file), dst |-> t.name]
  BY <1>1 DEF ResolvedCalls
<1>5. PICK q \in db.files : /\ q.id = s.file /\ q.path \in Files /\ PathOf(db.files, s.file) = q.path
                            /\ s \in OfFile(q.path)
  BY InFile DEF IndexInv
<1>6. PICK o \in db.files : /\ o.id = t.file /\ o.path \in Files /\ PathOf(db.files, t.file) = o.path
                            /\ t \in OfFile(o.path)
  BY InFile DEF IndexInv
<1>7. r.from = q.path /\ r.to = o.path /\ r.src = s.name /\ r.text = s.text /\ r.dst = t.name
  BY <1>4, <1>5, <1>6
<1>8. s.text \in Contents /\ t.name \in Names
  BY SymbolOfContent DEF GraphTables, IndexInv, Sound
<1>9. CallHeld(r)'
  <2>1. s.text = disk[q.path].sum
    BY <1>1, <1>7 DEF Premise
  <2>2. s \in SymbolsOf(db, q.id)
    BY <1>5 DEF SymbolsOf
  <2>3. \E k \in Calls[s.text] : Defs[s.text][k[1]] = s.name /\ k[2] = t.name
    BY <1>4, <2>1, <2>2 DEF GraphTables, EdgesTrue
  <2> QED BY <1>5, <1>6, <1>7, <1>8, <2>3 DEF CallHeld
<1>10. \A f : OfFile(f)' = OfFile(f)
  BY <1>1 DEF OfFile
<1>11. OneDst(r)'
  <2>1. OnlyOne(t.name)
    BY <1>1, <1>7
  <2> DEFINE ids == {u.id : u \in {v \in db.symbols : v.name = t.name}}
  <2>2. Cardinality(ids) = 1
    BY <1>8, <2>1 DEF OnlyOne, NamesOf
  <2>3. IsFiniteSet(ids)
    <3>1. PICK n \in Nat : \A i \in Ids(db.symbols) : i <= n
      BY DEF IndexInv, Sound, IdsBounded
    <3>2. ids \subseteq Ids(db.symbols) /\ Ids(db.symbols) \subseteq Nat
      BY DEF Ids, IndexInv, Sound, IdsBounded
    <3> HIDE DEF ids
    <3>3. ids \subseteq 0 .. n
      BY <3>1, <3>2
    <3>4. IsFiniteSet(0 .. n)
      BY FS_Interval
    <3> QED BY <3>3, <3>4, FS_Subset
  <2>4. t.id \in ids
    OBVIOUS
  <2>5. \A i \in ids : i = t.id
    <3> HIDE DEF ids
    <3>1. PICK x : ids = {x}
      BY <2>2, <2>3, FS_Singleton
    <3> QED BY <2>4, <3>1
  <2>6. \A u \in db.symbols : u.name = t.name => u = t
    <3>1. IdsUnique(db.symbols)
      BY DEF IndexInv, Sound
    <3>2. \A u \in db.symbols : u.name = t.name => u.id \in ids
      OBVIOUS
    <3> HIDE DEF ids
    <3> QED BY <2>5, <3>1, <3>2 DEF IdsUnique
  <2> QED BY <1>1, <1>3, <1>6, <1>7, <1>10, <2>6 DEF OneDst, Refreshing
<1>12. Kept(r)'
  <2>1. s \in Caller(r)'
    BY <1>5, <1>7, <1>10 DEF Caller
  <2>2. Linked(r, s)'
    BY <1>1, <1>4, <1>6, <1>7, <1>10 DEF Linked
  <2> QED BY <1>3, <2>1, <2>2 DEF Kept
<1> QED BY <1>3, <1>5, <1>7, <1>9, <1>11, <1>12 DEF Pending

\* A step that changes nothing of it.
LEMMA PendingStays ==
  ASSUME SameGraph, SameLocals, NEW r, Pending(r), Refreshing' <=> Refreshing,
         Refreshing => pass'.rec = pass.rec, Consuming' => Consuming,
         pass.at \in {"idle", "delete"} => pass'.at \in {"idle", "delete"},
         pass'.at \in {"idle", "delete"} => pass.at \in {"idle", "delete"}
  PROVE  Pending(r)'
<1>1. \A f : OfFile(f)' = OfFile(f)
  BY DEF OfFile, SameGraph
<1>2. OneDst(r)'
  BY <1>1 DEF Pending, OneDst, SameGraph
<1>3. \A s : /\ s \in Caller(r)' <=> s \in Caller(r)
             /\ Linked(r, s)' <=> Linked(r, s)
             /\ ToRepair(s) => ToRepair(s)'
             /\ ToSave(r, s)' <=> ToSave(r, s)
  BY <1>1 DEF Caller, Linked, ToRepair, ToSave, SameGraph, SameLocals
<1>4. Kept(r)'
  BY <1>3 DEF Pending, Kept, SameLocals
<1> QED BY <1>2, <1>4 DEF Pending, SameLocals

\* The callee's file is replaced, and the caller is to be repaired; or the
\* caller's is.
LEMMA PendingReplace ==
  ASSUME IndexInv, Orderly, GraphTables, GraphPass, Replace, clean', NEW r, Pending(r)
  PROVE  Pending(r)'
<1> DEFINE old == OfFile(Path)
<1>1. clean /\ pass.at = "walk"
  BY ReplaceDid
<1>2. ~cancelled
  BY <1>1, CleanMeans
<1>3. /\ pass'.at = "save" /\ pass'.rec.path = Path /\ Path \in Waiting
      /\ pass'.work = pass.work /\ pass'.redone = pass.redone /\ pass'.existing = pass.existing
      /\ db'.files = db.files /\ db'.symbols = db.symbols \ old /\ db'.edges = EdgesWithout(old)
      /\ pass'.deps = pass.deps \cup Callers(old)
  BY <1>2, ReplaceDid
<1>4. Refreshing' /\ ~Refreshing /\ Consuming
  BY <1>1, <1>3 DEF Refreshing, Consuming
<1>5. \A f : f # Path => OfFile(f)' = OfFile(f)
  <2> SUFFICES ASSUME NEW f, f # Path PROVE OfFile(f)' = OfFile(f)
    OBVIOUS
  <2>1. \A s \in OfFile(f) : s \notin old
    BY InFile DEF IndexInv, OfFile
  <2> HIDE DEF old
  <2> QED BY <1>3, <2>1 DEF OfFile
<1>6. IdsUnique(db.symbols) /\ old \subseteq db.symbols
  BY DEF IndexInv, Sound, OfFile
<1>7. \A s \in db.symbols : s.id \in Ids(old) => s \in old
  BY <1>6 DEF IdsUnique, Ids
<1>8. PICK t \in OfFile(r.to) : t.name = r.dst /\ \A u \in db.symbols : u.name = r.dst => u = t
  BY <1>4 DEF Pending, OneDst
<1>9. OneDst(r)'
  <2>1. CASE Path = r.to
    <3>1. \A u \in db'.symbols : u.name # r.dst
      BY <1>3, <1>8, <2>1
    <3> QED BY <1>3, <1>4, <2>1, <3>1 DEF OneDst
  <2>2. CASE Path # r.to
    <3> HIDE DEF old
    <3>1. t \in OfFile(r.to)'
      BY <1>5, <1>8, <2>2
    <3> QED BY <1>3, <1>8, <2>2, <3>1 DEF OneDst
  <2> QED BY <2>1, <2>2
<1>10. Kept(r)'
  <2>1. CASE Path = r.from
    BY <1>3, <1>4, <2>1 DEF Kept
  <2>2. CASE Path # r.from
    <3>1. PICK s \in Caller(r) : \/ Linked(r, s) /\ s.file \notin pass.redone
                                 \/ ToRepair(s) \/ ToSave(r, s)
      BY <1>4 DEF Pending, Kept
    <3>2. s \in Caller(r)' /\ s \in OfFile(r.from) /\ s \in db.symbols
      BY <1>5, <2>2, <3>1 DEF Caller, OfFile
    <3>3. s \notin old /\ \A u \in old : u.file # s.file
      BY <2>2, <3>2 DEF OfFile, IndexInv, Sound, IdsUnique
    <3>4. CASE ToRepair(s)
      <4>1. ToRepair(s)'
        BY <1>3, <3>4 DEF ToRepair
      <4> QED BY <3>2, <4>1 DEF Kept
    <3>5. CASE ToSave(r, s)
      <4>1. ToSave(r, s)'
        BY <1>3, <3>5 DEF ToSave
      <4> QED BY <3>2, <4>1 DEF Kept
    <3>6. CASE Linked(r, s) /\ s.file \notin pass.redone
      <4>1. PICK u \in OfFile(r.to) : u.name = r.dst /\ <<s.id, u.id>> \in db.edges
        BY <3>6 DEF Linked
      <4>2. u \in db.symbols
        BY DEF OfFile
      <4>3. CASE Path = r.to
        <5>1. u \in old
          BY <4>1, <4>3
        <5>2. u.id \in Ids(old) /\ s.file \notin {v.file : v \in old}
          BY <3>3, <5>1 DEF Ids
        <5> HIDE DEF old
        <5>3. s.file \in Callers(old)
          <6>1. PICK e : e = <<s.id, u.id>>
            OBVIOUS
          <6>2. e \in db.edges /\ e[1] = s.id /\ e[2] \in Ids(old)
            BY <4>1, <5>2, <6>1
          <6> QED BY <3>2, <5>2, <6>2 DEF Callers
        <5>4. ToRepair(s)'
          BY <1>3, <3>6, <5>3 DEF ToRepair
        <5> QED BY <3>2, <5>4 DEF Kept
      <4>4. CASE Path # r.to
        <5>1. u \in OfFile(r.to)'
          BY <1>5, <4>4
        <5>2. u \notin old
          BY <4>2, <4>4, InFile DEF IndexInv
        <5> HIDE DEF old
        <5>3. <<s.id, u.id>> \in db'.edges
          <6>1. s.id \notin Ids(old) /\ u.id \notin Ids(old)
            BY <1>7, <3>2, <3>3, <4>2, <5>2
          <6> QED BY <1>3, <4>1, <6>1 DEF EdgesWithout
        <5>4. Linked(r, s)'
          BY <4>1, <5>1, <5>3 DEF Linked
        <5> QED BY <1>3, <3>2, <3>6, <5>4 DEF Kept
      <4> QED BY <4>3, <4>4
    <3> QED BY <3>1, <3>4, <3>5, <3>6
  <2> QED BY <2>1, <2>2
<1> QED BY <1>1, <1>3, <1>9, <1>10 DEF Pending

\* The caller's row is written, or another one.
LEMMA PendingSaveFile ==
  ASSUME IndexInv, SaveFileRow, clean', NEW r, Pending(r)
  PROVE  Pending(r)'
<1> DEFINE p == pass.rec.path
<1>1. /\ pass.at = "save" /\ pass'.at = "symbols" /\ pass'.rec = pass.rec
      /\ pass'.work = pass.work /\ pass'.deps = pass.deps /\ pass'.existing = pass.existing
      /\ db'.symbols = db.symbols /\ db'.edges = db.edges
  BY SaveFileDid
<1>2. PICK row \in db'.files :
        /\ row.path = p /\ pass'.redone = pass.redone \cup {row.id}
        /\ \A q \in db.files : IF q.path = p THEN q.id = row.id ELSE q.id # row.id /\ q \in db'.files
  BY SaveFileDid
<1>3. Refreshing /\ Refreshing'
  BY <1>1 DEF Refreshing
<1>4. \A f : OfFile(f) \subseteq OfFile(f)'
  <2>1. \A q \in db.files : \E o \in db'.files : o.id = q.id /\ o.path = q.path
    BY <1>2
  <2> HIDE DEF p
  <2> QED BY <1>1, <2>1 DEF OfFile
<1>5. OneDst(r)'
  BY <1>1, <1>3, <1>4 DEF Pending, OneDst
<1>6. Kept(r)'
  <2>1. CASE p = r.from
    BY <1>1, <1>3, <2>1 DEF Kept
  <2>2. CASE p # r.from
    <3>1. PICK s \in Caller(r) : \/ Linked(r, s) /\ (Consuming => s.file \notin pass.redone)
                                 \/ ToRepair(s) \/ ToSave(r, s)
      BY <2>2 DEF Pending, Kept
    <3>2. s \in Caller(r)'
      BY <1>4, <3>1 DEF Caller
    <3>3. s.file # row.id
      <4>1. \E q \in db.files : q.id = s.file /\ q.path = r.from
        BY <3>1 DEF Caller, OfFile
      <4> QED BY <1>2, <2>2, <4>1
    <3> HIDE DEF p
    <3>4. /\ Linked(r, s) => Linked(r, s)'
          /\ ToRepair(s) => ToRepair(s)'
          /\ ToSave(r, s) => ToSave(r, s)'
      BY <1>1, <1>2, <1>4, <3>3 DEF Linked, ToRepair, ToSave
    <3>5. Consuming
      BY <1>1 DEF Consuming
    <3> QED BY <1>2, <3>1, <3>2, <3>3, <3>4, <3>5 DEF Kept
  <2> QED BY <2>1, <2>2
<1> QED BY <1>1, <1>5, <1>6 DEF Pending

\* The callee's symbols come, one of them of the name, or the caller's, with an
\* entry to resolve.
LEMMA PendingSaveSymbols ==
  ASSUME IndexInv, IndexInv', Orderly, GraphTables, GraphPass, SaveSymbols, clean',
         NEW r, Premise(r), CallHeld(r), Pending(r)
  PROVE  Pending(r)'
<1> DEFINE p == pass.rec.path
           c == pass.rec.content
<1>1. /\ pass.at = "symbols" /\ clean /\ p \in Files /\ c \in Contents
      /\ pass'.deps = pass.deps /\ pass'.redone = pass.redone /\ pass'.existing = pass.existing
      /\ db'.files = db.files /\ db'.edges = db.edges
  BY SaveSymbolsDid
<1>2. PICK o \in db.files, base \in Nat :
        /\ pass'.at = "embed" /\ o.path = p
        /\ db'.symbols = db.symbols \cup SymbolRows(o.id, c, base)
        /\ pass'.work = Append(pass.work, [content |-> c, local |-> LocalNames(SymbolRows(o.id, c, base))])
  BY SaveSymbolsDid
<1> DEFINE new == SymbolRows(o.id, c, base)
<1>3. Refreshing /\ ~Refreshing' /\ Consuming /\ pass.at # "idle"
  BY <1>1, <1>2 DEF Refreshing, Consuming
<1>4. c = disk[p].sum
  BY <1>1, <1>3, CleanMeans
<1>5. \A s \in new : s.file = o.id /\ s.text = c /\ s.name \in NamesIn(c)
  BY DEF SymbolRows, NamesIn
<1> DEFINE local == LocalNames(new)
           e == [content |-> c, local |-> local]
<1>6. /\ e \in Entries /\ \A n \in NamesIn(c) : \E s \in new : s.id = local[n] /\ s.name = n
  <2>1. PICK fid : fid = o.id
    OBVIOUS
  <2> DEFINE rows == SymbolRows(fid, c, base)
             names == LocalNames(rows)
  <2>2. IdsBounded(db'.symbols) /\ rows \subseteq db'.symbols
    BY <1>2, <2>1 DEF IndexInv, Sound
  <2>3. /\ [content |-> c, local |-> names] \in Entries
        /\ \A n \in NamesIn(c) : \E s \in rows : s.id = names[n] /\ s.name = n
    <3> HIDE DEF c
    <3> QED BY <1>1, <2>2, EntryMade
  <2>4. new = rows /\ local = names
    BY <2>1
  <2> HIDE DEF c, rows, names, new, local
  <2> QED BY <2>3, <2>4
<1>7. db'.symbols = db.symbols \cup new /\ pass'.work = Append(pass.work, e)
  BY <1>2
<1>8. /\ \A i \in DOMAIN pass.work : i \in DOMAIN pass'.work /\ pass'.work[i] = pass.work[i]
      /\ \E i \in DOMAIN pass'.work : pass'.work[i] = e
  <2>1. pass.work \in Seq(Entries)
    BY DEF GraphPass, WorkTrue
  <2> HIDE DEF e
  <2> QED BY <1>6, <1>7, <2>1, AppendTo
<1>9. e.content = c /\ e.local = local
  OBVIOUS
<1> HIDE DEF local, e
<1>10. \A f : OfFile(f) \subseteq OfFile(f)'
  <2> HIDE DEF new
  <2> QED BY <1>1, <1>7 DEF OfFile
<1>11. \A f : f = p => \A s \in new : s \in OfFile(f)'
  <2>1. \A s \in new : s \in db'.symbols /\ s.file = o.id
    BY <1>5, <1>7
  <2> HIDE DEF new
  <2> SUFFICES ASSUME NEW f, f = p, NEW s \in new PROVE s \in OfFile(f)'
    OBVIOUS
  <2>2. o \in db'.files /\ o.id = s.file /\ o.path = f
    BY <1>1, <1>2, <2>1
  <2> QED BY <2>1, <2>2 DEF OfFile
<1>12. PICK d \in DefinitionsOf(r.dst) : d[1] = r.to /\ DefinitionsOf(r.dst) = {d}
  BY DEF Premise, DefinedOnceIn
<1>13. \A i \in DOMAIN Defs[c] : Defs[c][i] = r.dst => <<p, i>> \in DefinitionsOf(r.dst)
  <2>1. disk[p].sum # Gone
    BY <1>1, <1>4, IndexerAssumption
  <2> SUFFICES ASSUME NEW i \in DOMAIN Defs[c], Defs[c][i] = r.dst PROVE <<p, i>> \in DefinitionsOf(r.dst)
    OBVIOUS
  <2>2. <<p, i>> \in {p} \X {j \in DOMAIN Defs[disk[p].sum] : Defs[disk[p].sum][j] = r.dst}
    BY <1>4
  <2>3. p \in {g \in Files : disk[g].sum # Gone}
    BY <1>1, <2>1
  <2> QED BY <2>2, <2>3 DEF DefinitionsOf
<1>14. OneDst(r)'
  <2>1. CASE p = r.to
    <3>1. \A u \in db.symbols : u.name # r.dst
      BY <1>3, <2>1 DEF Pending, OneDst
    <3>2. PICK i \in DOMAIN Defs[c] : Defs[c][i] = r.dst
      <4>1. PICK f \in {g \in Files : disk[g].sum # Gone} :
              d \in {f} \X {j \in DOMAIN Defs[disk[f].sum] : Defs[disk[f].sum][j] = r.dst}
        BY <1>12 DEF DefinitionsOf
      <4>2. f = p
        BY <1>12, <2>1, <4>1
      <4> QED BY <1>4, <4>1, <4>2
    <3> DEFINE t == [id |-> base + i - 1, file |-> o.id, name |-> Defs[c][i], text |-> c]
    <3>3. t \in new /\ t.name = r.dst
      BY <3>2 DEF SymbolRows
    <3>4. ASSUME NEW u \in new, u.name = r.dst PROVE u = t
      <4>1. PICK j \in DOMAIN Defs[c] :
              u = [id |-> base + j - 1, file |-> o.id, name |-> Defs[c][j], text |-> c]
        BY DEF SymbolRows
      <4>2. Defs[c][j] = r.dst
        BY <3>4, <4>1
      <4>3. <<p, i>> \in DefinitionsOf(r.dst) /\ <<p, j>> \in DefinitionsOf(r.dst)
        BY <1>13, <3>2, <4>2
      <4>4. i = j
        BY <1>12, <4>3
      <4> QED BY <4>1, <4>4
    <3> HIDE DEF new, t
    <3>5. t \in OfFile(r.to)'
      BY <1>11, <2>1, <3>3
    <3>6. \A u \in db'.symbols : u.name = r.dst => u = t
      BY <1>7, <3>1, <3>4
    <3> QED BY <1>3, <3>3, <3>5, <3>6 DEF OneDst
  <2>2. CASE p # r.to
    <3>1. PICK t \in OfFile(r.to) : t.name = r.dst /\ \A u \in db.symbols : u.name = r.dst => u = t
      BY <2>2 DEF Pending, OneDst
    <3>2. \A u \in new : u.name # r.dst
      <4>1. r.dst \notin NamesIn(c)
        BY <1>12, <1>13, <2>2 DEF NamesIn
      <4> HIDE DEF new
      <4> QED BY <1>5, <4>1
    <3> HIDE DEF new
    <3>3. t \in OfFile(r.to)' /\ \A u \in db'.symbols : u.name = r.dst => u = t
      BY <1>7, <1>10, <3>1, <3>2
    <3> QED BY <1>3, <3>1, <3>3 DEF OneDst
  <2> QED BY <2>1, <2>2
<1>15. Kept(r)'
  <2>1. CASE p = r.from
    <3>1. c = r.text
      BY <1>4, <2>1 DEF Premise
    <3>2. r.src \in NamesIn(c)
      <4>1. PICK k \in Calls[c] : Defs[c][k[1]] = r.src
        BY <3>1 DEF CallHeld
      <4>2. k[1] \in DOMAIN Defs[c]
        BY <1>1, <4>1, IndexerAssumption
      <4> QED BY <4>1, <4>2 DEF NamesIn
    <3>3. PICK s \in new : s.id = local[r.src] /\ s.name = r.src
      BY <1>6, <3>2
    <3> HIDE DEF new
    <3>4. s \in Caller(r)'
      BY <1>5, <1>11, <2>1, <3>1, <3>3 DEF Caller
    <3>5. ToSave(r, s)'
      BY <1>8, <1>9, <3>1, <3>3 DEF ToSave
    <3> QED BY <3>4, <3>5 DEF Kept
  <2>2. CASE p # r.from
    <3>1. PICK s \in Caller(r) : \/ Linked(r, s) /\ (Consuming => s.file \notin pass.redone)
                                 \/ ToRepair(s) \/ ToSave(r, s)
      BY <2>2 DEF Pending, Kept
    <3> HIDE DEF new, p
    <3>2. s \in Caller(r)'
      BY <1>10, <3>1 DEF Caller
    <3>3. Linked(r, s) => Linked(r, s)'
      BY <1>1, <1>10 DEF Linked
    <3>4. (ToRepair(s) => ToRepair(s)') /\ (ToSave(r, s) => ToSave(r, s)')
      BY <1>1, <1>2, <1>8 DEF ToRepair, ToSave
    <3> QED BY <1>1, <1>3, <3>1, <3>2, <3>3, <3>4 DEF Kept
  <2> QED BY <2>1, <2>2
<1> QED BY <1>1, <1>14, <1>15 DEF Pending

\* The edges of the entry are saved.
LEMMA PendingSaveEdges ==
  ASSUME IndexInv, Orderly, GraphTables, GraphPass, NamesFull, SaveEdges, clean',
         NEW r, CallHeld(r), Pending(r)
  PROVE  Pending(r)'
<1> DEFINE w == Head(pass.work)
           edges == Edges(w.content, w.local, pass.names)
<1>1. /\ pass.at = "edges" /\ pass'.at = "edges" /\ pass.work # <<>> /\ clean
      /\ EdgesMade(edges)
      /\ pass'.work = Tail(pass.work) /\ pass'.deps = pass.deps
      /\ pass'.redone = pass.redone /\ pass'.existing = pass.existing
  BY SaveEdgesDid
<1>2. ~cancelled /\ ~Refreshing /\ ~Refreshing' /\ ~Consuming /\ ~Consuming'
  BY <1>1, CleanMeans DEF Refreshing, Consuming
<1>3. pass.work \in Seq(Entries)
  BY DEF GraphPass, WorkTrue
<1>4. /\ w = pass.work[1] /\ 1 \in DOMAIN pass.work
      /\ \A i \in DOMAIN pass.work : i = 1 \/ (i - 1 \in DOMAIN pass'.work /\ pass'.work[i - 1] = pass.work[i])
  BY <1>1, <1>3, TailOf
<1>5. /\ DOMAIN w.local = NamesIn(w.content)
      /\ \A n \in DOMAIN w.local : \E u \in db.symbols : u.id = w.local[n] /\ u.name = n
  <2> HIDE DEF w
  <2> QED BY <1>4 DEF GraphPass, WorkTrue
<1>6. \A n \in DOMAIN pass.names : \A id \in pass.names[n] : \E u \in db.symbols : u.id = id /\ u.name = n
  BY <1>1, <1>2 DEF GraphPass, NamesTrue
<1>7. Valid(edges)
  <2> HIDE DEF w
  <2> QED BY <1>5, <1>6, ValidEdges
<1>8. db'.files = db.files /\ db'.symbols = db.symbols /\ db'.edges = db.edges \cup edges
  BY <1>1, <1>7 DEF EdgesMade
<1> HIDE DEF edges
<1>9. \A f : OfFile(f)' = OfFile(f)
  BY <1>8 DEF OfFile
<1>10. PICK t \in OfFile(r.to) : t.name = r.dst /\ \A u \in db.symbols : u.name = r.dst => u = t
  BY <1>2 DEF Pending, OneDst
<1>11. OneDst(r)'
  BY <1>2, <1>8, <1>9, <1>10 DEF OneDst
<1>12. PICK s \in Caller(r) : Linked(r, s) \/ ToRepair(s) \/ ToSave(r, s)
  BY <1>2 DEF Pending, Kept
<1>13. s \in Caller(r)'
  BY <1>9, <1>12 DEF Caller
<1>14. ASSUME Linked(r, s) PROVE Kept(r)'
  <2>1. Linked(r, s)'
    BY <1>8, <1>9, <1>14 DEF Linked
  <2> QED BY <1>2, <1>13, <2>1 DEF Kept
<1>15. ASSUME ToRepair(s) PROVE Kept(r)'
  <2>1. ToRepair(s)'
    BY <1>1, <1>15 DEF ToRepair
  <2> QED BY <1>13, <2>1 DEF Kept
<1>16. ASSUME ToSave(r, s) PROVE Kept(r)'
  <2>1. PICK i \in DOMAIN pass.work : pass.work[i].content = r.text /\ pass.work[i].local[r.src] = s.id
    BY <1>16 DEF ToSave
  <2>2. CASE i = 1
    <3>1. w.content = r.text /\ w.local[r.src] = s.id
      BY <1>4, <2>1, <2>2
    <3>2. PICK k \in Calls[r.text] : Defs[r.text][k[1]] = r.src /\ k[2] = r.dst
      BY DEF CallHeld
    <3>3. r.src \in DOMAIN w.local
      <4>1. k[1] \in DOMAIN Defs[r.text]
        BY <3>2, IndexerAssumption DEF CallHeld
      <4> QED BY <1>5, <3>1, <3>2, <4>1 DEF NamesIn
    <3> HIDE DEF w
    <3>4. s.id \in Resolve(r.src, w.local, pass.names)
      <4>1. PICK n : n = r.src
        OBVIOUS
      <4>2. w.local[n] \in Resolve(n, w.local, pass.names)
        BY <3>3, <4>1, Resolved
      <4> QED BY <3>1, <4>1, <4>2
    <3>5. t \in db.symbols
      BY DEF OfFile
    <3>6. r.dst \in DOMAIN pass.names /\ pass.names[r.dst] = {t.id}
      <4>1. pass.names = NamesOf(db.symbols)
        BY <1>1 DEF NamesFull
      <4>2. t.name \in Names
        BY <3>5, SymbolOfContent DEF GraphTables, IndexInv, Sound
      <4>3. {u.id : u \in {v \in db.symbols : v.name = t.name}} = {t.id}
        BY <1>10, <3>5
      <4> QED BY <1>10, <4>1, <4>2, <4>3 DEF NamesOf
    <3>7. t.id \in Resolve(r.dst, w.local, pass.names)
      <4>1. PICK n : n = r.dst
        OBVIOUS
      <4>2. t.id \in Resolve(n, w.local, pass.names)
        BY <1>5, <1>10, <3>5, <3>6, <4>1, OneName
      <4> QED BY <4>1, <4>2
    <3>8. <<s.id, t.id>> \in edges
      <4>1. PICK c : c = r.text
        OBVIOUS
      <4>2. edges = Edges(c, w.local, pass.names)
        BY <3>1, <4>1 DEF edges
      <4>3. k \in Calls[c] /\ Defs[c][k[1]] = r.src /\ k[2] = r.dst
        BY <3>2, <4>1
      <4>4. <<s.id, t.id>> \in Edges(c, w.local, pass.names)
        BY <3>4, <3>7, <4>3, EdgesAre
      <4> QED BY <4>2, <4>4
    <3>9. Linked(r, s)'
      BY <1>8, <1>9, <1>10, <3>8 DEF Linked
    <3> QED BY <1>2, <1>13, <3>9 DEF Kept
  <2>3. CASE i # 1
    <3>1. ToSave(r, s)'
      BY <1>4, <2>1, <2>3 DEF ToSave
    <3> QED BY <1>13, <3>1 DEF Kept
  <2> QED BY <2>2, <2>3
<1> QED BY <1>1, <1>11, <1>12, <1>14, <1>15, <1>16 DEF Pending

\* A caller to be repaired was in the index when the pass began.
LEMMA PendingEdgesEnd ==
  ASSUME IndexInv, GraphPass, EdgesEnd, NEW r, Pending(r)
  PROVE  Pending(r)'
<1>1. /\ pass.at = "edges" /\ pass.work = <<>> /\ UNCHANGED db
      /\ pass' = [pass EXCEPT !.at = "repair", !.deps = (pass.deps \ pass.redone) \cap Ids(pass.existing),
                    !.loaded = FALSE, !.names = Idle.names]
  BY DEF EdgesEnd, Environment
<1>2. /\ pass'.at = "repair" /\ pass'.redone = pass.redone /\ pass'.existing = pass.existing
      /\ pass'.deps = (pass.deps \ pass.redone) \cap Ids(pass.existing)
  BY <1>1 DEF IndexInv, TypeOK, IsPass
<1>3. ~Refreshing /\ ~Refreshing' /\ ~Consuming /\ ~Consuming'
  BY <1>1, <1>2 DEF Refreshing, Consuming
<1>4. \A f : OfFile(f)' = OfFile(f)
  BY <1>1 DEF OfFile
<1>5. OneDst(r)'
  BY <1>1, <1>3, <1>4 DEF Pending, OneDst
<1>6. PICK s \in Caller(r) : Linked(r, s) \/ ToRepair(s) \/ ToSave(r, s)
  BY <1>3 DEF Pending, Kept
<1>7. s \in Caller(r)'
  BY <1>4, <1>6 DEF Caller
<1>8. ~ToSave(r, s)
  BY <1>1 DEF ToSave
<1>9. Linked(r, s) => Linked(r, s)'
  BY <1>1, <1>4 DEF Linked
<1>10. PICK q \in pass.existing : q.path = r.from
  BY <1>1 DEF Pending
<1>11. s.file = q.id
  <2>1. PICK o \in db.files : o.id = s.file /\ o.path = r.from
    BY <1>6 DEF Caller, OfFile
  <2>2. PICK v \in db.files : v.id = q.id
    BY <1>1, <1>10 DEF IndexInv, FilesInv, SameFiles, Ids
  <2>3. q.path = v.path
    BY <1>1, <2>2 DEF IndexInv, FilesInv, SameFiles
  <2> QED BY <1>10, <2>1, <2>2, <2>3 DEF IndexInv, Sound, PathsUnique
<1>12. ToRepair(s) => ToRepair(s)'
  BY <1>2, <1>10, <1>11 DEF ToRepair, Ids
<1>13. Kept(r)'
  BY <1>3, <1>6, <1>7, <1>8, <1>9, <1>12 DEF Kept
<1> QED BY <1>2, <1>5, <1>10, <1>13 DEF Pending

\* The caller's file is read again: it holds what it held, and its call is
\* resolved to the only symbol of the name.
LEMMA PendingRepair ==
  ASSUME IndexInv, Orderly, GraphTables, GraphPass, NamesFull, RepairEdges, clean',
         NEW r, Premise(r), CallHeld(r), Pending(r)
  PROVE  Pending(r)'
<1> DEFINE c(fid) == disk[PathOf(pass.existing, fid)].sum
           names == IF pass.loaded THEN pass.names ELSE NamesOf(db.symbols)
           edges(fid) == IF c(fid) = Gone THEN {} ELSE Edges(c(fid), LocalNames(SymbolsOf(db, fid)), names)
<1>1. PICK fid \in pass.deps :
        /\ pass.at = "repair" /\ pass'.at = "repair" /\ clean
        /\ EdgesMade(edges(fid))
        /\ pass'.deps = pass.deps \ {fid} /\ pass'.redone = pass.redone
        /\ pass'.work = pass.work /\ pass'.existing = pass.existing
  BY CleanRepair
<1> DEFINE own == SymbolsOf(db, fid)
           local == LocalNames(own)
<1>2. ~cancelled /\ ~Refreshing /\ ~Refreshing' /\ ~Consuming /\ ~Consuming'
  BY <1>1, CleanMeans DEF Refreshing, Consuming
<1>3. /\ DOMAIN local = {u.name : u \in own}
      /\ \A n \in DOMAIN local : \E u \in own : u.id = local[n] /\ u.name = n
  <2>1. IdsBounded(own)
    BY DEF IndexInv, Sound, IdsBounded, SymbolsOf, Ids
  <2> HIDE DEF own
  <2> QED BY <2>1, LocalNamesIn
<1>4. own \subseteq db.symbols
  BY DEF SymbolsOf
<1>5. \A n \in DOMAIN names : \A id \in names[n] : \E u \in db.symbols : u.id = id /\ u.name = n
  <2>1. CASE pass.loaded
    BY <1>1, <1>2, <2>1 DEF GraphPass, NamesTrue
  <2>2. CASE ~pass.loaded
    BY <2>2 DEF NamesOf
  <2> QED BY <2>1, <2>2
<1>6. Valid(edges(fid))
  <2>1. CASE c(fid) = Gone
    BY <2>1 DEF Valid
  <2>2. CASE c(fid) # Gone
    <3>1. \A n \in DOMAIN local : \E u \in db.symbols : u.id = local[n] /\ u.name = n
      BY <1>3, <1>4
    <3>2. PICK x : x = c(fid)
      OBVIOUS
    <3>3. edges(fid) = Edges(x, local, names)
      BY <2>2, <3>2
    <3> HIDE DEF local, names, edges
    <3>4. Valid(Edges(x, local, names))
      BY <1>5, <3>1, ValidEdges
    <3> QED BY <3>3, <3>4
  <2> QED BY <2>1, <2>2
<1>7. db'.files = db.files /\ db'.symbols = db.symbols /\ db'.edges = db.edges \cup edges(fid)
  <2> HIDE DEF edges
  <2> QED BY <1>1, <1>6 DEF EdgesMade
<1>8. \A f : OfFile(f)' = OfFile(f)
  BY <1>7 DEF OfFile
<1>9. PICK t \in OfFile(r.to) : t.name = r.dst /\ \A u \in db.symbols : u.name = r.dst => u = t
  BY <1>2 DEF Pending, OneDst
<1>10. OneDst(r)'
  BY <1>2, <1>7, <1>8, <1>9 DEF OneDst
<1>11. PICK s \in Caller(r) : Linked(r, s) \/ ToRepair(s) \/ ToSave(r, s)
  BY <1>2 DEF Pending, Kept
<1>12. ~ToSave(r, s)
  BY <1>1 DEF ToSave, GraphPass, WorkTrue
<1>13. \A u \in Caller(r) : u \in Caller(r)'
  BY <1>8 DEF Caller
<1>14. ASSUME Linked(r, s) PROVE Kept(r)'
  <2>1. Linked(r, s)'
    BY <1>7, <1>8, <1>14 DEF Linked
  <2> QED BY <1>2, <1>11, <1>13, <2>1 DEF Kept
<1>15. ASSUME ToRepair(s) /\ s.file # fid PROVE Kept(r)'
  <2>1. ToRepair(s)'
    BY <1>1, <1>15 DEF ToRepair
  <2> QED BY <1>11, <1>13, <2>1 DEF Kept
<1>16. ASSUME s.file = fid PROVE Kept(r)'
  <2>1. s \in db.symbols /\ s \in own /\ s.name = r.src /\ s.text = r.text
    BY <1>11, <1>16 DEF Caller, OfFile, SymbolsOf
  <2>2. c(fid) = r.text
    <3>1. PICK o \in db.files : o.id = s.file /\ o.path = r.from
      BY <1>11 DEF Caller, OfFile
    <3>2. fid \in Ids(pass.existing)
      BY <1>1 DEF GraphPass, DepsFull
    <3>3. PICK e : e = CHOOSE q \in pass.existing : q.id = fid
      OBVIOUS
    <3>4. e \in pass.existing /\ e.id = fid /\ PathOf(pass.existing, fid) = e.path
      BY <3>2, <3>3 DEF Ids, PathOf
    <3>5. e.path = o.path
      BY <1>1, <1>16, <3>1, <3>4 DEF IndexInv, FilesInv, SameFiles
    <3> QED BY <3>1, <3>4, <3>5 DEF Premise
  <2>3. PICK x \in Contents : x = r.text
    BY DEF CallHeld
  <2>4. edges(fid) = Edges(x, local, names)
    <3>1. x # Gone /\ c(fid) = x
      BY <2>2, <2>3, IndexerAssumption
    <3> QED BY <3>1
  <2> HIDE DEF edges, c
  <2>5. PICK k \in Calls[x] : Defs[x][k[1]] = r.src /\ k[2] = r.dst
    BY <2>3 DEF CallHeld
  <2>6. r.src \in DOMAIN local
    BY <1>3, <2>1
  <2>7. PICK u \in own : u.id = local[r.src] /\ u.name = r.src
    BY <1>3, <2>6
  <2>8. u \in Caller(r)
    <3>1. u.text = s.text
      <4>1. \A v \in SymbolsOf(db, s.file) : v.text = s.text
        BY <2>1, SymbolOfContent DEF GraphTables, IndexInv, Sound
      <4> QED BY <1>16, <2>7, <4>1
    <3>2. u \in OfFile(r.from)
      BY <1>11, <1>16, <2>7 DEF Caller, OfFile, SymbolsOf
    <3> QED BY <2>1, <2>7, <3>1, <3>2 DEF Caller
  <2>9. \A n \in DOMAIN local : \E v \in db.symbols : v.id = local[n] /\ v.name = n
    BY <1>3, <1>4
  <2>10. t \in db.symbols
    BY DEF OfFile
  <2>11. r.dst \in DOMAIN names /\ names[r.dst] = {t.id}
    <3>1. t.name \in Names
      BY <2>10, SymbolOfContent DEF GraphTables, IndexInv, Sound
    <3>2. CASE pass.loaded
      <4>1. pass.names[t.name] = {t.id}
        BY <1>1, <1>9, <2>10, <3>2 DEF NamesFull
      <4> QED BY <1>9, <3>1, <3>2, <4>1 DEF GraphPass, NamesTrue
    <3>3. CASE ~pass.loaded
      <4>1. {v.id : v \in {q \in db.symbols : q.name = t.name}} = {t.id}
        BY <1>9, <2>10
      <4> QED BY <1>9, <3>1, <3>3, <4>1 DEF NamesOf
    <3> QED BY <3>2, <3>3
  <2> HIDE DEF local, names, own
  <2>12. u.id \in Resolve(r.src, local, names)
    <3>1. PICK n : n = r.src
      OBVIOUS
    <3>2. local[n] \in Resolve(n, local, names)
      BY <2>6, <3>1, Resolved
    <3> QED BY <2>7, <3>1, <3>2
  <2>13. t.id \in Resolve(r.dst, local, names)
    <3>1. PICK n : n = r.dst
      OBVIOUS
    <3>2. t.id \in Resolve(n, local, names)
      BY <1>9, <2>9, <2>10, <2>11, <3>1, OneName
    <3> QED BY <3>1, <3>2
  <2>14. <<u.id, t.id>> \in edges(fid)
    <3>1. <<u.id, t.id>> \in Edges(x, local, names)
      BY <2>5, <2>12, <2>13, EdgesAre
    <3> QED BY <2>4, <3>1
  <2>15. Linked(r, u)'
    BY <1>7, <1>8, <1>9, <2>14 DEF Linked
  <2> QED BY <1>2, <1>13, <2>8, <2>15 DEF Kept
<1> QED BY <1>1, <1>10, <1>11, <1>12, <1>14, <1>15, <1>16 DEF Pending

\* The callers are repaired: each has its edge.
LEMMA PendingRepairEnds ==
  ASSUME IndexInv, GraphPass, RepairEnds, NEW r, Pending(r)
  PROVE  Pending(r)'
<1>1. /\ pass.at = "repair" /\ pass.deps = {} /\ UNCHANGED db
      /\ pass' = [pass EXCEPT !.at = "delete", !.existing = {o \in pass.existing : o.path \notin pass.seen}]
  BY DEF RepairEnds, Environment
<1>2. pass'.at = "delete"
  BY <1>1 DEF IndexInv, TypeOK, IsPass
<1>3. ~Refreshing /\ ~Refreshing' /\ ~Consuming /\ ~Consuming'
  BY <1>1, <1>2 DEF Refreshing, Consuming
<1>4. \A f : OfFile(f)' = OfFile(f)
  BY <1>1 DEF OfFile
<1>5. OneDst(r)'
  BY <1>1, <1>3, <1>4 DEF Pending, OneDst
<1>6. PICK s \in Caller(r) : Linked(r, s) \/ ToRepair(s) \/ ToSave(r, s)
  BY <1>3 DEF Pending, Kept
<1>7. ~ToRepair(s)
  BY <1>1 DEF ToRepair
<1>8. ~ToSave(r, s)
  BY <1>1 DEF ToSave, GraphPass, WorkTrue
<1>9. s \in Caller(r)' /\ Linked(r, s)'
  BY <1>1, <1>4, <1>6, <1>7, <1>8 DEF Caller, Linked
<1>10. Kept(r)'
  BY <1>3, <1>9 DEF Kept
<1> QED BY <1>2, <1>5, <1>10 DEF Pending

\* A file that was not seen is deleted: neither the caller's nor the callee's.
LEMMA PendingDelete ==
  ASSUME IndexInv, Orderly, GraphPass, DeleteUnseen, clean',
         NEW r, Premise(r), CallHeld(r), Pending(r)
  PROVE  Pending(r)'
<1>1. /\ pass.at = "delete" /\ pass'.at = "delete" /\ clean
      /\ pass'.work = pass.work
  BY DeleteDid
<1>2. ~Refreshing /\ ~Refreshing' /\ ~Consuming /\ ~Consuming' /\ ~Busy
  BY <1>1 DEF Refreshing, Consuming, Busy
<1>3. CASE SameGraph
  <2>1. \A f : OfFile(f)' = OfFile(f)
    BY <1>3 DEF OfFile, SameGraph
  <2>2. OneDst(r)'
    BY <1>2, <1>3, <2>1 DEF Pending, OneDst, SameGraph
  <2>3. \A s : /\ s \in Caller(r)' <=> s \in Caller(r)
               /\ Linked(r, s)' <=> Linked(r, s)
               /\ ToSave(r, s)' <=> ToSave(r, s)
    BY <1>1, <1>3, <2>1 DEF Caller, Linked, ToSave, SameGraph
  <2>4. \A s : ~ToRepair(s)
    BY <1>1 DEF ToRepair
  <2>5. Kept(r)'
    BY <1>2, <2>3, <2>4 DEF Pending, Kept
  <2> QED BY <1>1, <2>2, <2>5 DEF Pending
<1>4. ASSUME NEW o \in pass.existing, o.path \notin pass.seen,
             db'.files = {q \in db.files : q.id # o.id}, db'.symbols = db.symbols \ SymbolsOf(db, o.id),
             db'.edges = EdgesWithout(SymbolsOf(db, o.id))
      PROVE  Pending(r)'
  <2>1. PresentIn(pass.seen)
    <3>1. PresentIn(Waiting \cup Working \cup pass.seen)
      BY <1>1, CleanMeans
    <3>2. Waiting = {} /\ Working = {}
      BY <1>2 DEF Waiting, Working
    <3> QED BY <3>1, <3>2
  <2>2. r.from \in pass.seen
    BY <2>1, IndexerAssumption DEF Premise, CallHeld, PresentIn
  <2>3. r.to \in pass.seen
    <3>1. PICK d \in DefinitionsOf(r.dst) : d[1] = r.to
      BY DEF Premise, DefinedOnceIn
    <3>2. PICK f \in {g \in Files : disk[g].sum # Gone} :
            d \in {f} \X {i \in DOMAIN Defs[disk[f].sum] : Defs[disk[f].sum][i] = r.dst}
      BY DEF DefinitionsOf
    <3>3. disk[r.to].sum # Gone
      BY <3>1, <3>2
    <3> QED BY <2>1, <3>3 DEF PresentIn, CallHeld
  <2>4. \A f \in pass.seen : \A u \in OfFile(f) : u.file # o.id /\ u \in OfFile(f)'
    <3> SUFFICES ASSUME NEW f \in pass.seen, NEW u \in OfFile(f) PROVE u.file # o.id /\ u \in OfFile(f)'
      OBVIOUS
    <3>1. PICK q \in db.files : q.id = u.file /\ q.path = f
      BY DEF OfFile
    <3>2. q.id # o.id
      BY <1>1, <1>4, <3>1 DEF IndexInv, FilesInv, SameFiles
    <3>3. u \in db'.symbols
      BY <1>4, <3>1, <3>2 DEF OfFile, SymbolsOf
    <3> QED BY <1>4, <3>1, <3>2, <3>3 DEF OfFile
  <2>5. \A f \in pass.seen : \A u \in OfFile(f) : u.id \notin Ids(SymbolsOf(db, o.id))
    <3>1. IdsUnique(db.symbols)
      BY DEF IndexInv, Sound
    <3> QED BY <2>4, <3>1 DEF Ids, IdsUnique, SymbolsOf, OfFile
  <2>6. OneDst(r)'
    <3>1. PICK t \in OfFile(r.to) : t.name = r.dst /\ \A u \in db.symbols : u.name = r.dst => u = t
      BY <1>2 DEF Pending, OneDst
    <3>2. t \in OfFile(r.to)'
      BY <2>3, <2>4
    <3> QED BY <1>2, <1>4, <3>1, <3>2 DEF OneDst
  <2>7. PICK s \in Caller(r) : Linked(r, s)
    <3>1. PICK s \in Caller(r) : Linked(r, s) \/ ToRepair(s) \/ ToSave(r, s)
      BY <1>2 DEF Pending, Kept
    <3>2. ~ToRepair(s) /\ ~ToSave(r, s)
      BY <1>1 DEF ToRepair, ToSave, GraphPass, WorkTrue
    <3> QED BY <3>1, <3>2
  <2>8. s \in OfFile(r.from) /\ s \in Caller(r)'
    BY <2>2, <2>4 DEF Caller
  <2>9. Linked(r, s)'
    <3>1. PICK t \in OfFile(r.to) : t.name = r.dst /\ <<s.id, t.id>> \in db.edges
      BY <2>7 DEF Linked
    <3>2. s.id \notin Ids(SymbolsOf(db, o.id)) /\ t.id \notin Ids(SymbolsOf(db, o.id))
      BY <2>2, <2>3, <2>5, <2>8
    <3>3. <<s.id, t.id>> \in db'.edges
      BY <1>4, <3>1, <3>2 DEF EdgesWithout
    <3> QED BY <2>3, <2>4, <3>1, <3>3 DEF Linked
  <2>10. Kept(r)'
    BY <1>2, <2>8, <2>9 DEF Kept
  <2> QED BY <1>1, <2>6, <2>10 DEF Pending
<1> QED BY <1>3, <1>4, DeleteDid

-----------------------------------------------------------------------------
(* Every step keeps it.                                                    *)

LEMMA PendingAll ==
  ASSUME GraphClean, clean, UNCHANGED <<disk, before>>, NamesFull',
         \A r \in before : Premise(r) /\ CallHeld(r) /\ Pending(r) => Pending(r)'
  PROVE  GraphClean'
<1>1. ASSUME NEW r \in before, Premise(r)' PROVE CallHeld(r)' /\ Pending(r)'
  <2>1. Premise(r) /\ (CallHeld(r)' <=> CallHeld(r))
    BY <1>1, PremiseStays
  <2>2. CallHeld(r) /\ Pending(r)
    BY <2>1 DEF GraphClean, CallsPending
  <2> QED BY <2>1, <2>2
<1> QED BY <1>1 DEF GraphClean, CallsPending

LEMMA CleanKeep ==
  ASSUME IndexInv, IndexInv', Orderly, GraphTables, GraphPass, GraphClean, [Next]_vars
  PROVE  GraphClean'
<1> SUFFICES ASSUME clean' PROVE GraphClean'
  BY DEF GraphClean
<1>1. CASE UNCHANGED vars
  <2>1. UNCHANGED <<disk, db, pass, before, clean>>
    BY <1>1 DEF vars
  <2>2. SameGraph /\ SameLocals /\ Refreshing' = Refreshing /\ Consuming' = Consuming
    BY <2>1 DEF SameGraph, SameLocals, Refreshing, Consuming
  <2>3. NamesFull'
    BY <2>1, <2>2, NamesStay DEF GraphClean
  <2>4. ASSUME NEW r, Pending(r) PROVE Pending(r)'
    BY <2>1, <2>2, <2>4, PendingStays
  <2> QED BY <2>1, <2>3, <2>4, PendingAll
<1>2. CASE Quiet
  <2>1. /\ SameGraph /\ SameLocals /\ clean /\ UNCHANGED <<disk, before>> /\ pass'.rec = pass.rec
        /\ pass'.at = pass.at \/ (pass.at = "walk" /\ pass'.at = "edges")
    BY <1>2, QuietDid DEF SameGraph
  <2>2. NamesFull'
    BY <2>1, NamesStay DEF GraphClean
  <2>3. (Refreshing' <=> Refreshing) /\ (Consuming' => Consuming)
    BY <2>1 DEF Refreshing, Consuming
  <2>4. ASSUME NEW r, Pending(r) PROVE Pending(r)'
    BY <2>1, <2>3, <2>4, PendingStays
  <2> QED BY <2>1, <2>2, <2>4, PendingAll
<1>3. CASE EmbedSymbols
  <2>1. /\ SameGraph /\ SameLocals /\ clean /\ UNCHANGED <<disk, before>>
        /\ pass.at = "embed" /\ pass'.at = "walk"
    BY <1>3, EmbedDid
  <2>2. NamesFull'
    BY <2>1, NamesStay DEF GraphClean
  <2>3. ~Refreshing' /\ ~Refreshing /\ Consuming
    BY <2>1 DEF Refreshing, Consuming
  <2>4. ASSUME NEW r, Pending(r) PROVE Pending(r)'
    BY <2>1, <2>3, <2>4, PendingStays
  <2> QED BY <2>1, <2>2, <2>4, PendingAll
<1>4. CASE StartPass
  <2>1. PICK forced, tests : pass' = [Idle EXCEPT !.at = "walk", !.force = forced \/ ~current,
                                       !.tests = tests, !.mark = forced \/ ~current \/ db.files = {},
                                       !.existing = db.files]
    BY <1>4 DEF StartPass
  <2>2. pass'.at = "walk" /\ pass'.work = Idle.work /\ pass'.loaded = Idle.loaded
    BY <2>1 DEF Idle
  <2>3. NamesFull'
    BY <2>2, IdleNames, NamesFree
  <2>4. ASSUME NEW r \in before', Premise(r)' PROVE CallHeld(r)' /\ Pending(r)'
    BY <1>4, <2>4, PendingStart
  <2> QED BY <2>3, <2>4 DEF GraphClean, CallsPending
<1>5. CASE Finish \/ Crash
  <2>1. /\ pass.at = "delete" /\ pass' = Idle /\ clean /\ UNCHANGED <<disk, before, db>>
    BY <1>5 DEF Finish, Crash, Failing
  <2>2. /\ pass'.at = "idle" /\ pass'.work = <<>>
    BY <2>1, IdleNames
  <2>3. NamesFull'
    BY <2>2, NamesFree
  <2>4. ~Refreshing /\ ~Refreshing' /\ ~Consuming /\ ~Consuming'
    BY <2>1, <2>2 DEF Refreshing, Consuming
  <2>5. \A f : OfFile(f)' = OfFile(f)
    BY <2>1 DEF OfFile
  <2>6. ASSUME NEW r, Pending(r) PROVE Pending(r)'
    <3>1. OneDst(r)'
      BY <2>1, <2>4, <2>5, <2>6 DEF Pending, OneDst
    <3>2. PICK s \in Caller(r) : Linked(r, s) \/ ToRepair(s) \/ ToSave(r, s)
      BY <2>4, <2>6 DEF Pending, Kept
    <3>3. ~ToRepair(s) /\ ~ToSave(r, s)
      BY <2>1 DEF ToRepair, ToSave, GraphPass, WorkTrue
    <3>4. s \in Caller(r)' /\ Linked(r, s)'
      BY <2>1, <2>5, <3>2, <3>3 DEF Caller, Linked
    <3>5. Kept(r)'
      BY <2>4, <3>4 DEF Kept
    <3> QED BY <2>2, <3>1, <3>5 DEF Pending
  <2> QED BY <2>1, <2>3, <2>6, PendingAll
<1>6. CASE Replace
  <2>1. clean /\ UNCHANGED <<disk, before>>
    BY <1>6, ReplaceDid DEF Replace, Environment
  <2>2. NamesFull'
    BY <1>6, <2>1, FullReplace DEF GraphClean
  <2>3. ASSUME NEW r, Pending(r) PROVE Pending(r)'
    BY <1>6, <2>3, PendingReplace
  <2> QED BY <2>1, <2>2, <2>3, PendingAll
<1>7. CASE SaveFileRow
  <2>1. /\ clean /\ UNCHANGED <<disk, before>> /\ pass.at = "save" /\ pass'.at = "symbols"
        /\ pass'.work = pass.work /\ pass'.names = pass.names /\ pass'.loaded = pass.loaded
        /\ db'.symbols = db.symbols
    BY <1>7, SaveFileDid
  <2>2. NamesFull'
    BY <2>1 DEF GraphClean, NamesFull, Refreshing, Consuming
  <2>3. ASSUME NEW r, Pending(r) PROVE Pending(r)'
    BY <1>7, <2>3, PendingSaveFile
  <2> QED BY <2>1, <2>2, <2>3, PendingAll
<1>8. CASE SaveSymbols
  <2>1. clean /\ UNCHANGED <<disk, before>>
    BY <1>8, SaveSymbolsDid DEF SaveSymbols, Environment
  <2>2. NamesFull'
    BY <1>8, <2>1, FullSaveSymbols DEF GraphClean
  <2>3. ASSUME NEW r, Premise(r), CallHeld(r), Pending(r) PROVE Pending(r)'
    BY <1>8, <2>3, PendingSaveSymbols
  <2> QED BY <2>1, <2>2, <2>3, PendingAll
<1>9. CASE SaveEdges
  <2>1. clean /\ UNCHANGED <<disk, before>>
    BY <1>9, SaveEdgesDid
  <2>2. NamesFull
    BY <2>1 DEF GraphClean
  <2>3. NamesFull'
    BY <1>9, <2>2, SaveEdgesDid DEF NamesFull, EdgesMade, Refreshing, Consuming
  <2>4. ASSUME NEW r, CallHeld(r), Pending(r) PROVE Pending(r)'
    BY <1>9, <2>2, <2>4, PendingSaveEdges
  <2> QED BY <2>1, <2>3, <2>4, PendingAll
<1>10. CASE EdgesEnd
  <2>1. /\ pass.at = "edges" /\ pass.work = <<>> /\ UNCHANGED <<disk, before, clean>>
        /\ pass' = [pass EXCEPT !.at = "repair", !.deps = (pass.deps \ pass.redone) \cap Ids(pass.existing),
                      !.loaded = FALSE, !.names = Idle.names]
    BY <1>10 DEF EdgesEnd, Environment
  <2>2. pass'.at = "repair" /\ pass'.loaded = FALSE /\ pass'.work = <<>>
    BY <2>1 DEF IndexInv, TypeOK, IsPass
  <2>3. NamesFull'
    BY <2>2, NamesFree
  <2>4. ASSUME NEW r, Pending(r) PROVE Pending(r)'
    BY <1>10, <2>4, PendingEdgesEnd
  <2> QED BY <2>1, <2>3, <2>4, PendingAll
<1>11. CASE RepairEdges
  <2>1. clean /\ UNCHANGED <<disk, before>>
    BY <1>11, CleanRepair
  <2>2. NamesFull
    BY <2>1 DEF GraphClean
  <2>3. NamesFull'
    BY <1>11, <2>2, FullRepair
  <2>4. ASSUME NEW r, Premise(r), CallHeld(r), Pending(r) PROVE Pending(r)'
    BY <1>11, <2>2, <2>4, PendingRepair
  <2> QED BY <2>1, <2>3, <2>4, PendingAll
<1>12. CASE RepairEnds
  <2>1. /\ UNCHANGED <<disk, before, clean>> /\ pass.at = "repair"
        /\ pass' = [pass EXCEPT !.at = "delete", !.existing = {o \in pass.existing : o.path \notin pass.seen}]
    BY <1>12 DEF RepairEnds, Environment
  <2>2. pass'.at = "delete" /\ pass'.work = <<>>
    BY <2>1 DEF IndexInv, TypeOK, IsPass, GraphPass, WorkTrue
  <2>3. NamesFull'
    BY <2>2, NamesFree
  <2>4. ASSUME NEW r, Pending(r) PROVE Pending(r)'
    BY <1>12, <2>4, PendingRepairEnds
  <2> QED BY <2>1, <2>3, <2>4, PendingAll
<1>13. CASE DeleteUnseen
  <2>1. pass'.at = "delete" /\ pass.at = "delete" /\ pass'.work = pass.work /\ clean /\ UNCHANGED <<disk, before>>
    BY <1>13, DeleteDid
  <2>2. pass'.work = <<>>
    BY <2>1 DEF GraphPass, WorkTrue
  <2>3. NamesFull'
    BY <2>1, <2>2, NamesFree
  <2>4. ASSUME NEW r, Premise(r), CallHeld(r), Pending(r) PROVE Pending(r)'
    BY <1>13, <2>4, PendingDelete
  <2> QED BY <2>1, <2>3, <2>4, PendingAll
<1> QED BY <1>1, <1>2, <1>3, <1>4, <1>5, <1>6, <1>7, <1>8, <1>9, <1>10, <1>11, <1>12, <1>13
        DEF Next, Walker, Consumer, Quiet

GraphInv == GraphTables /\ GraphPass /\ GraphClean

LEMMA GraphInit == Init => GraphInv
<1> SUFFICES ASSUME Init PROVE GraphInv
  OBVIOUS
<1>1. PICK h \in Histories : /\ disk = [f \in Files |-> [sum |-> Head(h[f]), stamp |-> 0]]
                             /\ coming = [f \in Files |-> Tail(h[f])]
  BY DEF Init
<1>2. /\ pass = Idle /\ db = EmptyDB /\ clean = FALSE
  BY DEF Init
<1>3. /\ pass.at = "idle" /\ pass.work = <<>> /\ DOMAIN pass.names = Names
      /\ db.files = {} /\ db.symbols = {} /\ db.edges = {}
  BY <1>2, IdleNames DEF EmptyDB
<1>4. \A f \in Files :
        /\ disk[f].sum \in ContentsOf(h, f) \cup {Gone}
        /\ \A i \in DOMAIN coming[f] : coming[f][i] \in ContentsOf(h, f) \cup {Gone}
  <2> SUFFICES ASSUME NEW f \in Files
               PROVE  /\ disk[f].sum \in ContentsOf(h, f) \cup {Gone}
                      /\ \A i \in DOMAIN coming[f] : coming[f][i] \in ContentsOf(h, f) \cup {Gone}
    OBVIOUS
  <2>1. h[f] \in Seq(Contents \cup {Gone}) /\ h[f] # <<>>
    BY IndexerAssumption
  <2>2. PICK g : g = h[f]
    OBVIOUS
  <2>3. /\ Head(g) = g[1] /\ 1 \in DOMAIN g
        /\ \A i \in DOMAIN Tail(g) : i + 1 \in DOMAIN g /\ Tail(g)[i] = g[i + 1]
    BY <2>1, <2>2, TailOf
  <2>4. \A i \in DOMAIN g : g[i] \in ContentsOf(h, f) \cup {Gone}
    BY <2>2 DEF ContentsOf
  <2>5. disk[f].sum = Head(g) /\ coming[f] = Tail(g)
    BY <1>1, <2>2
  <2> QED BY <2>3, <2>4, <2>5
<1>5. GraphTables
  <2>1. Chosen
    BY <1>3, <1>4 DEF Chosen, Follows, Refreshing
  <2>2. Complete /\ TextsPast /\ SymbolsText /\ Emptied /\ EdgesTrue /\ EdgesResolve(db)
    BY <1>3 DEF Complete, TextsPast, SymbolsText, Emptied, EdgesTrue, EdgesResolve, Refreshing
  <2> QED BY <2>1, <2>2 DEF GraphTables
<1>6. GraphPass
  <2>1. NamesTrue /\ DepsFull
    BY <1>3 DEF NamesTrue, DepsFull
  <2>2. WorkTrue
    BY <1>3 DEF WorkTrue
  <2> QED BY <2>1, <2>2 DEF GraphPass
<1> QED BY <1>2, <1>5, <1>6 DEF GraphInv, GraphClean

\* After a clean pass an edge is a call of the present content,
LEMMA SettledEdges ==
  ASSUME IndexInv, Orderly, GraphTables
  PROVE  EdgesAreCalls
<1> SUFFICES ASSUME Settled, NEW r \in ResolvedCalls
             PROVE  \E k \in Calls[disk[r.from].sum] : Defs[disk[r.from].sum][k[1]] = r.src /\ k[2] = r.dst
  BY DEF EdgesAreCalls
<1>1. PICK s \in db.symbols, t \in db.symbols :
        /\ <<s.id, t.id>> \in db.edges
        /\ r = [from |-> PathOf(db.files, s.file), src |-> s.name, text |-> s.text,
                to |-> PathOf(db.files, t.file), dst |-> t.name]
  BY DEF ResolvedCalls
<1>2. PICK q \in db.files : q.id = s.file /\ PathOf(db.files, s.file) = q.path
  BY InFile DEF IndexInv
<1>3. r.from = q.path /\ r.src = s.name /\ r.dst = t.name
  BY <1>1, <1>2
<1>4. q.hash.stamp = disk[q.path].stamp
  BY DEF IndexInv, Orderly, Faithful, Settled, CleanTable
<1>5. s \in SymbolsOf(db, q.id)
  BY <1>2 DEF SymbolsOf
<1>6. s.text = disk[q.path].sum
  BY <1>4, <1>5 DEF GraphTables, SymbolsText
<1>7. \E k \in Calls[s.text] : Defs[s.text][k[1]] = s.name /\ k[2] = t.name
  BY <1>1, <1>5, <1>6 DEF GraphTables, EdgesTrue
<1> QED BY <1>3, <1>6, <1>7

\* and a call that was resolved still is.
LEMMA SettledCalls ==
  ASSUME IndexInv, GraphPass, GraphClean
  PROVE  CallsKept
<1> SUFFICES ASSUME Settled, NEW r \in before, Premise(r)
             PROVE  \E q \in ResolvedCalls : q.from = r.from /\ q.src = r.src /\ q.to = r.to /\ q.dst = r.dst
  BY DEF CallsKept, Premise
<1>1. pass.at = "idle" /\ Pending(r)
  BY DEF Settled, GraphClean, CallsPending
<1>2. ~Refreshing /\ ~Consuming
  BY <1>1 DEF Refreshing, Consuming
<1>3. PICK s \in Caller(r) : Linked(r, s) \/ ToRepair(s) \/ ToSave(r, s)
  BY <1>1, <1>2 DEF Pending, Kept
<1>4. ~ToRepair(s) /\ ~ToSave(r, s)
  BY <1>1 DEF ToRepair, ToSave, GraphPass, WorkTrue
<1>5. PICK t \in OfFile(r.to) : t.name = r.dst /\ <<s.id, t.id>> \in db.edges
  BY <1>3, <1>4 DEF Linked
<1>6. s \in db.symbols /\ t \in db.symbols /\ s.name = r.src /\ s \in OfFile(r.from)
  BY DEF Caller, OfFile
<1>7. PathOf(db.files, s.file) = r.from /\ PathOf(db.files, t.file) = r.to
  BY <1>6, InFile DEF IndexInv
<1> DEFINE call == [from |-> PathOf(db.files, s.file), src |-> s.name, text |-> s.text,
                    to |-> PathOf(db.files, t.file), dst |-> t.name]
<1>8. call \in ResolvedCalls
  <2>1. PICK p \in db.symbols \X db.symbols : p = <<s, t>>
    BY <1>6
  <2>2. p \in {q \in db.symbols \X db.symbols : <<q[1].id, q[2].id>> \in db.edges}
    BY <1>5, <2>1
  <2>3. call = [from |-> PathOf(db.files, p[1].file), src |-> p[1].name, text |-> p[1].text,
                to |-> PathOf(db.files, p[2].file), dst |-> p[2].name]
    BY <2>1
  <2> QED BY <2>2, <2>3 DEF ResolvedCalls
<1>9. call.from = r.from /\ call.src = r.src /\ call.to = r.to /\ call.dst = r.dst
  BY <1>5, <1>6, <1>7
<1> QED BY <1>8, <1>9

-----------------------------------------------------------------------------
(* The theorems.                                                           *)

\* The tables, the locals of the pass and the disk fit together after every step
\* of indexer, walker and developer: the invariant the other theorems rest on.
THEOREM IndexHolds == Spec => []IndexInv
<1>1. IndexInv /\ [Next]_vars => IndexInv'
  BY NextKeeps
<1> QED BY InitKeeps, <1>1, PTL DEF Spec

\* A vector that is reused after a file was replaced, or stored under an id that
\* a deleted row had, is that of the symbol's own text, through failures,
\* cancellations and crashes (reusableEmbeddings, UpsertEmbeddingBatch).
THEOREM OwnVectorsHeld == Spec => []OwnVectors
<1>1. IndexInv => OwnVectors
  BY DEF IndexInv, Sound, VectorsOwn, OwnVectors
<1> QED BY IndexHolds, <1>1, PTL

\* A file leaves the index only when the pass found it gone or failed on it,
\* however the walker and its consumer interleave and wherever the pass is cut
\* short.  A pass that does not walk the tests deletes them: none here.
THEOREM OnlyGoneLeave == Tests = {} => (Spec => OnlyGoneFilesLeave)
<1> SUFFICES ASSUME Tests = {} PROVE Spec => OnlyGoneFilesLeave
  OBVIOUS
<1>1. IndexInv /\ [Next]_vars => [\A r \in db.files : Row(db'.files, r.path) = {} => r.path \in excused]_vars
  BY NextKeeps
<1> QED BY IndexHolds, <1>1, PTL DEF Spec, OnlyGoneFilesLeave

\* After a pass in which nothing changed or failed, the index holds the files on
\* disk with the symbols of their contents, once each, whatever edits met earlier
\* passes half way: when all files are walked, every edit shows in mtime or
\* size, and no content comes back to a file that had left it.
THEOREM UnfailedIndexRight == Simple => (Spec => []UnfailedIndexMatches)
<1> SUFFICES ASSUME Simple PROVE Spec => []UnfailedIndexMatches
  OBVIOUS
<1>1. IndexInv => UnfailedIndexMatches
  BY SettledMatches
<1> QED BY IndexHolds, <1>1, PTL

\* After a pass in which nothing changed or failed every edge of the call graph is
\* a call the present files make, and no call is lost that was resolved when the
\* pass began and whose two files still have it, whatever failed, was cancelled
\* or crashed in earlier passes (Index, repairDependentEdges).  Orderly names the
\* premises: no content comes back, tests are walked, edits show in mtime or
\* size, a caller's name tells its file, and old symbols are listed and deleted.
THEOREM CallGraphHeld == Orderly => (Spec => []CallGraphRight)
<1> SUFFICES ASSUME Orderly PROVE Spec => []CallGraphRight
  OBVIOUS
<1>1. Init => IndexInv /\ GraphInv
  BY InitKeeps, GraphInit
<1>2. IndexInv /\ GraphInv /\ [Next]_vars => IndexInv' /\ GraphInv'
  BY NextKeeps, TablesKeep, PassKeep, CleanKeep DEF GraphInv
<1>3. IndexInv /\ GraphInv => CallGraphRight
  BY SettledEdges, SettledCalls DEF GraphInv, CallGraphRight
<1> QED BY <1>1, <1>2, <1>3, PTL DEF Spec
=============================================================================
