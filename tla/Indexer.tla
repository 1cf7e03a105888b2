------------------------------ MODULE Indexer ------------------------------
(***************************************************************************)
(* One indexer over index.db: Indexer.Index with the walker that feeds it  *)
(* (index/indexer.go, index/walker.go), pass after pass, while the files   *)
(* change, calls of the store fail, the context is cancelled and the       *)
(* process dies.                                                           *)
(*                                                                         *)
(* A pass walks the files and replaces the symbols of those that changed;  *)
(* then it resolves the calls of the files it replaced; then it resolves   *)
(* again the calls of files it skipped that pointed into a replaced one;   *)
(* and at last it deletes the files it has not seen.                       *)
(*                                                                         *)
(* A content stands for the bytes of a file: Defs gives the qualified      *)
(* names it defines, in order, Calls which of them calls which name.  The  *)
(* hash of a files row stands for the columns hash, mtime and size.  All   *)
(* files are of one language.  Foreign keys are enforced here: what        *)
(* happens when they are not is the subject of module Store.               *)
(***************************************************************************)
EXTENDS StoreTables, FiniteSets, FiniteSetsExt

CONSTANTS
  WalkOrder,   \* the files, in the order filepath.WalkDir visits them
  Contents,    \* what a file can hold
  Gone,        \* the content of a file that does not exist
  Defs,        \* Defs[c]: the sequence of names content c defines
  Calls,       \* Calls[c]: pairs <<i, n>>: the i-th definition of c calls n
  Tests,       \* the files that are tests: --include-tests walks them, the watcher does not
  Histories,   \* the contents each file may go through, for all files at once
  MaxForced,   \* bound on the passes the user asks --force for
  SameSecond,  \* whether an edit may leave mtime (in seconds) and size as they were
  MayFail,     \* the kinds of calls that may fail
  CanCancel,   \* whether the context may be cancelled (Ctrl-C, SIGTERM)
  CanCrash,    \* whether the process may die
  MaxFails     \* bound on failures, cancellations and crashes

Files == {WalkOrder[i] : i \in DOMAIN WalkOrder}

ASSUME IndexerAssumption ==
  /\ WalkOrder \in Seq(Files)
  /\ \A i, j \in DOMAIN WalkOrder : WalkOrder[i] = WalkOrder[j] => i = j
  /\ Gone \notin Contents
  /\ \A h \in Histories : h \in [Files -> Seq(Contents \cup {Gone}) \ {<<>>}]
  /\ Defs \in [Contents -> Seq(STRING)]
  /\ \A c \in Contents : \A k \in Calls[c] : k[1] \in DOMAIN Defs[c]
  /\ SameSecond \in BOOLEAN /\ MaxFails \in Nat /\ MaxForced \in Nat
  /\ MayFail \subseteq {"read", "names", "list", "callers", "delete", "savefile",
                        "symbols", "embedder", "embed", "edges", "deletefile", "version"}

Names == UNION {{Defs[c][i] : i \in DOMAIN Defs[c]} : c \in Contents}

VARIABLES
  disk,      \* disk[f]: the content of f and the mtime and size it was given
  coming,    \* coming[f]: the contents f has still to go through
  db,        \* the tables
  current,   \* meta.content_version is CurrentIndexContentVersion
  pass,      \* the locals of Index, and where it is
  cancelled, \* ctx.Err() is not nil
  fails, forces,
  clean,     \* history: nothing changed or failed since the pass began
  before,    \* history: the calls the graph resolved when the pass began
  excused    \* history: files found gone, or failed, since the pass began

vars == <<disk, coming, db, current, pass, cancelled, fails, forces, clean, before, excused>>

Idle == [at |-> "idle", force |-> FALSE, tests |-> FALSE, mark |-> FALSE, existing |-> {}, walked |-> 0,
         recs |-> <<>>, rec |-> <<>>, reuse |-> {}, loaded |-> FALSE,
         names |-> [n \in Names |-> {}], work |-> <<>>, deps |-> {}, redone |-> {},
         seen |-> {}]

Init ==
  /\ \E h \in Histories : /\ disk = [f \in Files |-> [sum |-> Head(h[f]), stamp |-> 0]]
                          /\ coming = [f \in Files |-> Tail(h[f])]
  /\ db = EmptyDB /\ current = FALSE
  /\ pass = Idle /\ cancelled = FALSE /\ fails = 0 /\ forces = 0
  /\ clean = FALSE /\ before = {} /\ excused = {}

-----------------------------------------------------------------------------
(* Rows and names.                                                         *)

\* existing[path], as a set of at most one row.
Row(rows, path) == {r \in rows : r.path = path}
RowId(rows, path) == (CHOOSE r \in Row(rows, path) : TRUE).id
PathOf(rows, id) == (CHOOSE r \in rows : r.id = id).path

\* ListSymbolsByLanguage, as a map from names to ids.
NamesOf(symbols) == [n \in Names |-> {s.id : s \in {t \in symbols : t.name = n}}]

\* localNameToID: of two definitions of a name the later one wins.
LocalNames(symbols) == [n \in {s.name : s \in symbols} |-> Max({s.id : s \in {t \in symbols : t.name = n}})]

\* A name resolves to the file's own symbol, else to the only symbol that has
\* the name, else to nothing.
Resolve(n, local, names) ==
  IF n \in DOMAIN local THEN {local[n]}
  ELSE IF n \in DOMAIN names /\ Cardinality(names[n]) = 1 THEN names[n] ELSE {}

\* LanguageExtractor.Edges: a call whose caller or callee does not resolve has
\* no edge.
Edges(c, local, names) ==
  UNION {Resolve(Defs[c][k[1]], local, names) \X Resolve(k[2], local, names) : k \in Calls[c]}

\* What the graph says: which function of which file calls which.
ResolvedCalls ==
  {[from |-> PathOf(db.files, p[1].file), src |-> p[1].name, text |-> p[1].text,
    to |-> PathOf(db.files, p[2].file), dst |-> p[2].name] :
     p \in {q \in db.symbols \X db.symbols : <<q[1].id, q[2].id>> \in db.edges}}

OnlyOne(name) == Cardinality(NamesOf(db.symbols)[name]) = 1

\* The map after a file was repaired: its own names are taken out again, one by
\* one, and of a name it has twice the last but one stays.
Restored(names, own) ==
  [n \in Names |-> LET ids == {s.id : s \in {t \in own : t.name = n}}
                   IN IF Cardinality(ids) > 1 THEN {Max(ids \ {Max(ids)})} ELSE names[n]]

-----------------------------------------------------------------------------
(* The calls of the handlers.  Every store call takes the context, so all  *)
(* of them fail once it is cancelled.                                      *)

\* bad: the calls of this step that fail.
Failing(bad, all) ==
  /\ IF cancelled THEN bad = all /\ fails' = fails
     ELSE /\ bad \subseteq all \cap MayFail
          /\ fails + Cardinality(bad) <= MaxFails
          /\ fails' = fails + Cardinality(bad)
  /\ clean' = (clean /\ bad = {})

\* A call that is refused by the database leaves it alone, as a failed one does.
After(result, bad) == IF bad = {} THEN result.db ELSE db

Environment == <<disk, coming, current, cancelled, forces, before>>

-----------------------------------------------------------------------------
(* The developer.                                                          *)

Edit(f) ==
  /\ coming[f] # <<>>
  /\ \E stamp \in IF SameSecond THEN {disk[f].stamp, disk[f].stamp + 1} ELSE {disk[f].stamp + 1} :
       disk' = [disk EXCEPT ![f] = [sum |-> Head(coming[f]), stamp |-> stamp]]
  /\ coming' = [coming EXCEPT ![f] = Tail(@)]
  /\ clean' = FALSE
  /\ excused' = IF Head(coming[f]) = Gone THEN excused \cup {f} ELSE excused
  /\ UNCHANGED <<db, current, pass, cancelled, fails, forces, before>>

-----------------------------------------------------------------------------
(* A pass.                                                                 *)

\* ListFiles, SetKnownFiles.  RunIndex forces when the content is of an older
\* version; `mcp` refuses to serve it.
StartPass ==
  /\ pass.at = "idle"
  /\ \E forced \in IF forces < MaxForced THEN BOOLEAN ELSE {FALSE},
        tests \in IF Tests = {} THEN {FALSE} ELSE BOOLEAN :
       /\ forces' = IF forced THEN forces + 1 ELSE forces
       /\ pass' = [Idle EXCEPT !.at = "walk", !.force = forced \/ ~current, !.tests = tests,
                               !.mark = forced \/ ~current \/ db.files = {},
                               !.existing = db.files]
  /\ clean' = TRUE
  /\ before' = {r \in ResolvedCalls : OnlyOne(r.dst)}
  /\ excused' = {f \in Files : disk[f].sum = Gone}
  /\ UNCHANGED <<disk, coming, db, current, cancelled, fails>>

Consuming == pass.at \in {"walk", "save", "symbols", "embed"}

\* The walker goroutine, ahead of its consumer.  A known file with the mtime
\* and size recorded for it is not read: its recorded hash is taken.
WalkFile ==
  /\ Consuming /\ pass.walked < Len(WalkOrder)
  /\ LET f == WalkOrder[pass.walked + 1]
         known == {r \in Row(pass.existing, f) : r.hash.stamp = disk[f].stamp}
         sum == IF known = {} THEN disk[f].sum ELSE (CHOOSE r \in known : TRUE).hash.sum
     IN \E bad \in SUBSET ({"read"} \cap MayFail) :
          /\ fails + Cardinality(bad) <= MaxFails
          /\ fails' = fails + Cardinality(bad)
          /\ clean' = (clean /\ bad = {})
          /\ excused' = IF bad = {} THEN excused ELSE excused \cup {f}
          /\ pass' = [pass EXCEPT !.walked = @ + 1,
                        !.recs = IF disk[f].sum = Gone \/ (f \in Tests /\ ~pass.tests) \/ bad # {} THEN @
                                 ELSE Append(@, [path |-> f,
                                                 hash |-> [sum |-> sum, stamp |-> disk[f].stamp]])]
  /\ UNCHANGED <<Environment, db>>

\* The walk returns ctx.Err().
WalkStops ==
  /\ Consuming /\ cancelled /\ pass.walked < Len(WalkOrder)
  /\ pass' = [pass EXCEPT !.walked = Len(WalkOrder)]
  /\ UNCHANGED <<Environment, db, fails, clean, excused>>

\* Mutant: any file that is known counts as unchanged.
UnchangedByName(rec) == ~pass.force /\ Row(pass.existing, rec.path) # {}

\* prev.Hash == rec.Hash && !idx.forceReindex
Unchanged(rec) ==
  /\ ~pass.force
  /\ \E r \in Row(pass.existing, rec.path) : r.hash.sum = rec.hash.sum

\* Mutant: a skipped file is not marked as seen.
SkipUnseen ==
  /\ pass.at = "walk" /\ pass.recs # <<>> /\ Unchanged(Head(pass.recs))
  /\ pass' = [pass EXCEPT !.recs = Tail(@)]
  /\ UNCHANGED <<Environment, db, fails, clean, excused>>

Skip ==
  /\ pass.at = "walk" /\ pass.recs # <<>> /\ Unchanged(Head(pass.recs))
  /\ pass' = [pass EXCEPT !.recs = Tail(@), !.seen = @ \cup {Head(pass.recs).path}]
  /\ UNCHANGED <<Environment, db, fails, clean, excused>>

\* os.ReadFile or the parser fails: the file is left out of this pass, and the
\* end of the pass deletes it from the index.
Unreadable ==
  /\ pass.at = "walk" /\ pass.recs # <<>> /\ ~Unchanged(Head(pass.recs))
  /\ \/ disk[Head(pass.recs).path].sum = Gone /\ fails' = fails
     \/ "read" \in MayFail /\ fails < MaxFails /\ fails' = fails + 1
  /\ clean' = FALSE
  /\ excused' = excused \cup {Head(pass.recs).path}
  /\ pass' = [pass EXCEPT !.recs = Tail(@)]
  /\ UNCHANGED <<Environment, db>>

\* Mutant: the code before the fix of CHANGELOG.md, which forgot the callers.
CallersForgotten(old) == {}

\* collectEdgeDependents: the other files with edges into these symbols.
Callers(old) ==
  {s.file : s \in {t \in db.symbols : \E e \in db.edges : e[1] = t.id /\ e[2] \in Ids(old)}}
     \ {s.file : s \in old}

\* removeQualifiedNameID, for every old symbol.
RemoveNames(names, old) == [n \in Names |-> names[n] \ Ids(old)]

\* Mutant: a vector is reused for any symbol of the same name.
ReusableByName(old) ==
  UNION {{[name |-> s.name, text |-> c, vec |-> v.text] : v \in {w \in db.vecs : w.id = s.id}, c \in Contents}
           : s \in old}

\* reusableEmbeddings: the vectors of the old symbols, by embedding text.
Reusable(old) ==
  UNION {{[name |-> s.name, text |-> s.text, vec |-> v.text] : v \in {w \in db.vecs : w.id = s.id}}
           : s \in old}

\* The file is read and parsed, the names of its language are loaded when it is
\* the first one, and its old symbols are deleted.
Replace ==
  /\ pass.at = "walk" /\ pass.recs # <<>> /\ ~Unchanged(Head(pass.recs))
  /\ LET rec  == Head(pass.recs)
         prev == Row(pass.existing, rec.path)
         asks == (IF pass.loaded THEN {} ELSE {"names"})
                   \cup (IF prev = {} THEN {} ELSE {"list", "callers", "delete"})
     IN /\ disk[rec.path].sum # Gone
        /\ \E bad \in SUBSET asks :
             LET old == IF "list" \in bad THEN {} ELSE {s \in db.symbols : s.file \in Ids(prev)}
                 map == IF pass.loaded THEN pass.names
                        ELSE NamesOf(IF "names" \in bad THEN {} ELSE db.symbols)
             IN /\ Failing(bad, asks)
                /\ pass' = [pass EXCEPT !.at = "save", !.recs = Tail(@),
                     !.rec = [path |-> rec.path, hash |-> rec.hash,
                              content |-> disk[rec.path].sum, ids |-> <<>>],
                     !.loaded = TRUE, !.names = RemoveNames(map, old), !.reuse = Reusable(old),
                     !.deps = IF "callers" \in bad THEN @ ELSE @ \cup Callers(old)]
                /\ db' = IF prev = {} \/ "delete" \in bad THEN db
                         ELSE DeleteSymbolsByFile(db, RowId(prev, rec.path), TRUE).db
  /\ UNCHANGED <<Environment, excused>>

\* A failure here leaves the file out of the pass: back to the channel.
GiveUp == pass' = [pass EXCEPT !.at = "walk"] /\ excused' = excused \cup {pass.rec.path}

SaveFileRow ==
  /\ pass.at = "save"
  /\ \E bad \in SUBSET {"savefile"} :
       LET saved == SaveFile(db, pass.rec.path, pass.rec.hash)
       IN /\ Failing(bad, {"savefile"})
          /\ db' = After(saved, bad)
          /\ \/ bad # {} /\ GiveUp
             \/ bad = {} /\ UNCHANGED excused
                /\ pass' = [pass EXCEPT !.at = "symbols", !.redone = @ \cup {saved.id}]
  /\ UNCHANGED Environment

\* SaveSymbolBatch, in a transaction of its own; the symbols are then known to
\* the run and their calls are put off to the edge pass.
SaveSymbols ==
  /\ pass.at = "symbols"
  /\ \E bad \in SUBSET {"symbols"} :
       LET c == pass.rec.content
           asks == IF Defs[c] = <<>> THEN {} ELSE {"symbols"}
           fid == RowId(db.files, pass.rec.path)
           saved == SaveSymbolBatch(db, fid, [i \in DOMAIN Defs[c] |->
                                      [name |-> Defs[c][i], text |-> c, long |-> FALSE]], TRUE)
           new == saved.db.symbols \ db.symbols
       IN /\ Failing(bad, asks)
          /\ db' = After(saved, bad)
          /\ \/ bad # {} /\ GiveUp
             \/ bad = {} /\ UNCHANGED excused
                /\ pass' = [pass EXCEPT !.at = "embed", !.rec.ids = new,
                     !.names = [n \in Names |-> @[n] \cup NamesOf(new)[n]],
                     !.work = Append(@, [content |-> c, local |-> LocalNames(new)])]
  /\ UNCHANGED Environment

\* Reused vectors, and new ones unless the embedder fails (a --fast pass, which
\* has none, is one in which it always does); the upsert may fail as well.
EmbedSymbols ==
  /\ pass.at = "embed"
  /\ \E bad \in SUBSET {"embedder", "embed"} :
       LET old(s) == {r \in pass.reuse : r.name = s.name /\ r.text = s.text}
           reused == {s \in pass.rec.ids : old(s) # {}}
           new == IF "embedder" \in bad THEN {} ELSE pass.rec.ids \ reused
           rows == {[id |-> s.id, text |-> (CHOOSE r \in old(s) : TRUE).vec] : s \in reused}
                     \cup {[id |-> s.id, text |-> s.text] : s \in new}
           asks == (IF reused = pass.rec.ids THEN {} ELSE {"embedder"})
                     \cup (IF rows = {} THEN {} ELSE {"embed"})
       IN /\ Failing(bad, asks)
          /\ db' = IF "embed" \in bad THEN db ELSE UpsertEmbeddingBatch(db, rows).db
  /\ pass' = [pass EXCEPT !.at = "walk", !.rec = <<>>, !.reuse = {}, !.seen = @ \cup {pass.rec.path}]
  /\ UNCHANGED <<Environment, excused>>

\* for range errs: the walk is over and every record consumed.
WalkEnds ==
  /\ pass.at = "walk" /\ pass.recs = <<>> /\ pass.walked = Len(WalkOrder)
  /\ pass' = [pass EXCEPT !.at = "edges"]
  /\ UNCHANGED <<Environment, db, fails, clean, excused>>

\* The calls of a replaced file, resolved against the names of this run.
SaveEdges ==
  /\ pass.at = "edges" /\ pass.work # <<>>
  /\ \E bad \in SUBSET {"edges"} :
       LET w == Head(pass.work)
           edges == Edges(w.content, w.local, pass.names)
       IN /\ Failing(bad, IF edges = {} THEN {} ELSE {"edges"})
          /\ db' = After(SaveEdgeBatch(db, edges, TRUE), bad)
  /\ pass' = [pass EXCEPT !.work = Tail(@)]
  /\ UNCHANGED <<Environment, excused>>

\* The callers to repair: not replaced themselves, and known when the pass began.
\* Their names are to be loaded again.
EdgesEnd ==
  /\ pass.at = "edges" /\ pass.work = <<>>
  /\ pass' = [pass EXCEPT !.at = "repair", !.deps = (@ \ pass.redone) \cap Ids(pass.existing),
                          !.loaded = FALSE, !.names = Idle.names]
  /\ UNCHANGED <<Environment, db, fails, clean, excused>>

\* repairDependentEdges, for one file: read again, and resolved against the
\* names in the database, which are loaded for the first one.
RepairEdges ==
  /\ pass.at = "repair"
  /\ \E fid \in pass.deps, bad \in SUBSET {"read", "names", "list", "edges"} :
       LET now == disk[PathOf(pass.existing, fid)].sum
           c == IF "read" \in bad THEN Gone ELSE now
           own == SymbolsOf(db, fid)
           names == IF pass.loaded THEN pass.names
                    ELSE NamesOf(IF "names" \in bad THEN {} ELSE db.symbols)
           edges == IF c = Gone \/ "list" \in bad THEN {} ELSE Edges(c, LocalNames(own), names)
           asks == (IF now = Gone THEN {} ELSE {"read"})
                     \cup (IF c = Gone THEN {} ELSE {"list"} \cup IF pass.loaded THEN {} ELSE {"names"})
                     \cup (IF edges = {} THEN {} ELSE {"edges"})
       IN /\ Failing(bad, asks)
          /\ db' = After(SaveEdgeBatch(db, edges, TRUE), bad \cap {"edges"})
          /\ pass' = [pass EXCEPT !.deps = @ \ {fid}, !.loaded = @ \/ c # Gone,
                       !.names = IF c = Gone THEN @
                                 ELSE IF "list" \in bad THEN names ELSE Restored(names, own)]
  /\ UNCHANGED <<Environment, excused>>

RepairEnds ==
  /\ pass.at = "repair" /\ pass.deps = {}
  /\ pass' = [pass EXCEPT !.at = "delete",
                          !.existing = {r \in @ : r.path \notin pass.seen}]
  /\ UNCHANGED <<Environment, db, fails, clean, excused>>

DeleteUnseen ==
  /\ pass.at = "delete"
  /\ \E r \in pass.existing, bad \in SUBSET {"deletefile"} :
       /\ Failing(bad, {"deletefile"})
       /\ db' = After(DeleteFile(db, r.id, TRUE), bad)
       /\ pass' = [pass EXCEPT !.existing = @ \ {r}]
  /\ UNCHANGED <<Environment, excused>>

\* SetIndexContentVersion, and the pass returns; a cancelled process exits.
Finish ==
  /\ pass.at = "delete" /\ pass.existing = {}
  /\ \E bad \in SUBSET {"version"} :
       /\ Failing(bad, IF pass.mark THEN {"version"} ELSE {})
       /\ current' = (current \/ (pass.mark /\ bad = {}))
  /\ pass' = Idle /\ cancelled' = FALSE
  /\ UNCHANGED <<disk, coming, db, forces, before, excused>>

-----------------------------------------------------------------------------
Cancel ==
  /\ CanCancel /\ pass.at # "idle" /\ ~cancelled /\ fails < MaxFails
  /\ cancelled' = TRUE /\ fails' = fails + 1 /\ clean' = FALSE
  /\ UNCHANGED <<disk, coming, db, current, pass, forces, before, excused>>

Crash ==
  /\ CanCrash /\ pass.at # "idle" /\ fails < MaxFails
  /\ pass' = Idle /\ cancelled' = FALSE /\ fails' = fails + 1 /\ clean' = FALSE
  /\ UNCHANGED <<disk, coming, db, current, forces, before, excused>>

Walker == WalkFile \/ WalkStops
Consumer ==
  \/ StartPass \/ Skip \/ Unreadable \/ Replace \/ SaveFileRow \/ SaveSymbols
  \/ EmbedSymbols \/ WalkEnds \/ SaveEdges \/ EdgesEnd \/ RepairEdges \/ RepairEnds
  \/ DeleteUnseen \/ Finish

Next == (\E f \in Files : Edit(f)) \/ Walker \/ Consumer \/ Cancel \/ Crash

Spec == Init /\ [][Next]_vars

-----------------------------------------------------------------------------
\* A pass has ended in which no call failed, and nothing changed since it began.
Settled == pass.at = "idle" /\ clean

\* The definitions of a name on disk, each a file and a place in it.
DefinitionsOf(name) ==
  UNION {{f} \X {i \in DOMAIN Defs[disk[f].sum] : Defs[disk[f].sum][i] = name} :
           f \in {g \in Files : disk[g].sum # Gone}}

DefinedOnceIn(f, name) == \E d \in DefinitionsOf(name) : d[1] = f /\ DefinitionsOf(name) = {d}

\* "Incremental hash-skip" (cli/mcp.go): after a clean pass, whatever earlier
\* passes went through, the index holds exactly the files on disk, each with
\* the symbols its content defines, once each.
IndexMatchesDisk ==
  Settled => \A f \in Files :
    LET c == disk[f].sum
        rows == Row(db.files, f)
        syms == SymbolsOf(db, RowId(db.files, f))
    IN IF c = Gone THEN rows = {}
       ELSE /\ Cardinality(rows) = 1
            /\ Cardinality(syms) = Len(Defs[c])
            /\ {s.name : s \in syms} = {Defs[c][i] : i \in DOMAIN Defs[c]}
            /\ \A s \in syms : s.text = c

\* As long as no call has failed and no pass was cut short.  A file is hashed by
\* the walker and read again by its consumer: when it is edited in between, its
\* row has the hash of one content and the symbols of the next, which stays so if
\* the file then returns to the first.  Histories in which no content returns to
\* a file that had left it are those for which this holds.
UnfailedIndexMatches == fails = 0 => IndexMatchesDisk

\* "safer than false edges" (indexer.go): after a clean pass every edge is a
\* call that the present content of the caller's file makes, to that name,
\* although the ids the names of the run map to are handed out again.
EdgesAreCalls ==
  Settled => \A r \in ResolvedCalls :
    \E k \in Calls[disk[r.from].sum] : Defs[disk[r.from].sum][k[1]] = r.src /\ k[2] = r.dst

\* "editing a callee must not drop the call graph edge pointing at it"
\* (incremental_edges_test.go): a call the graph resolved when a clean pass
\* began, from a file that has not changed into one that still has the only
\* definition of the name, is resolved when it ends.
CallsKept ==
  Settled => \A r \in before :
    disk[r.from].sum = r.text /\ DefinedOnceIn(r.to, r.dst) =>
      \E q \in ResolvedCalls : q.from = r.from /\ q.src = r.src /\ q.to = r.to /\ q.dst = r.dst

\* After a clean pass the call graph has no false edge and lost no true one.
CallGraphRight == EdgesAreCalls /\ CallsKept

\* "the same rule the main pass applies, so a repaired edge and a fresh one
\* agree" (unambiguousNamesFromStore): an edge into another file is to the only
\* symbol of its name.
EdgesUnambiguous ==
  [][\A p \in db.symbols \X db.symbols :
       <<p[1].id, p[2].id>> \in db'.edges \ db.edges /\ p[1].file # p[2].file => OnlyOne(p[2].name)]_vars

\* The same for a definition that was moved: "a caller whose own bytes did not
\* change is skipped by hash ... Files that call into a replaced file are now
\* re-parsed for edges once the new symbol ids exist" (CHANGELOG.md).
CallsFollowMoves ==
  Settled => \A r \in before : \A f \in Files :
    disk[r.from].sum = r.text /\ DefinedOnceIn(f, r.dst) =>
      \E q \in ResolvedCalls : q.from = r.from /\ q.src = r.src /\ q.to = f /\ q.dst = r.dst

\* "Deleted: ... (removed from disk)" (cli/index.go): a file leaves the index only
\* when a pass found it gone or failed on it.  A pass that is cut short does not
\* take the files it never came to for deleted.
OnlyGoneFilesLeave ==
  [][\A r \in db.files : Row(db'.files, r.path) = {} => r.path \in excused]_vars

\* A vector that is reused, or stored under an id that was used before, is that
\* of the symbol's own text.
OwnVectors == \A s \in db.symbols : \A v \in db.vecs : v.id = s.id => v.text = s.text
=============================================================================
