---------------------------- MODULE CachesProofs ----------------------------
(***************************************************************************)
(* The two caches of the store keep the promise of CachedReads             *)
(* (ReadsFresh), for all searches and queries.                             *)
(*                                                                         *)
(* The vector cache (VecCache) answers with what was committed and leaves  *)
(* no stale sidecar, however many mutations, rebuilds and crashes there    *)
(* are, when a rebuild does not run beside a writer (`index`) and          *)
(* os.Remove does not fail.  Without either premise TLC finds a            *)
(* counterexample (constants Concurrent and RemoveFails).  Whatever may be *)
(* published, the matrix, the sidecar, the temporary file someone is about *)
(* to rename, or what a thread holds to write, is at least as new as the   *)
(* last mutation acknowledged.  A mutation is acknowledged only under the  *)
(* lock, so nobody is between loading rows and renaming then.              *)
(*                                                                         *)
(* The symbol and edge cache (GraphCache) keeps the promise whether or not *)
(* queries overlap a pass.  Invalidate clears both slots in the step that  *)
(* raises the floor, and a slot is filled with what its table holds then:  *)
(* so what is cached lies between the floor and the table (CacheBounded),  *)
(* and what a query took lies between the floor when it began and the      *)
(* table (TakenBounded).                                                   *)
(***************************************************************************)
EXTENDS MCCaches, TLAPS

-----------------------------------------------------------------------------
(* The vector cache.                                                       *)

Sequential == ~Concurrent /\ ~RemoveFails

WriterAt == {"idle", "invalidate"}
RebuilderAt == {"idle", "load", "publish", "write", "rename", "mark"}
SearcherAt == {"idle", "lock", "file", "load", "write", "rename", "search", "done"}
Locked == {"file", "load", "write", "rename"}
Files == [token : Nat, gen : Nat]

VecTypeOK ==
  /\ gen \in Nat /\ token \in Nat /\ acked \in Nat /\ crashes \in Nat
  /\ file \in Files /\ tmp \in Files
  /\ mem \in Nat \union {Unloaded}
  /\ fileRemoved \in BOOLEAN
  /\ lock \in Searchers \union {"free"}
  /\ at \in [Threads -> WriterAt \union RebuilderAt \union SearcherAt]
  /\ at["writer"] \in WriterAt /\ at["rebuilder"] \in RebuilderAt
  /\ \A s \in Searchers : at[s] \in SearcherAt
  /\ local \in [Threads -> Files]
  /\ since \in [Searchers -> Nat] /\ found \in [Searchers -> Nat]

\* Between the last mutation acknowledged and the last committed.
Fresh(g) == acked <= g /\ g <= gen

\* A writer and a rebuild are in one goroutine.
Turns == at["writer"] = "idle" \/ at["rebuilder"] = "idle"

LockHeld == \A s \in Searchers : at[s] \in Locked => lock = s

AckedCommitted ==
  /\ acked <= gen
  /\ crashes = 0 /\ at["writer"] = "idle" => acked = gen
  /\ \A s \in Searchers : since[s] <= acked

MemFresh == mem # Unloaded => Fresh(mem)

FileFresh ==
  /\ file.token # 0 => Fresh(file.gen)
  /\ fileRemoved => file.token = 0 \/ at["rebuilder"] = "mark"

LocalFresh ==
  /\ at["rebuilder"] \in {"publish", "write", "rename", "mark"} => Fresh(local["rebuilder"].gen)
  /\ \A s \in Searchers : at[s] \in {"write", "rename"} => Fresh(local[s].gen)

\* A crash may leave a stale temporary file behind, but whoever renames it has
\* written it first.
TmpFresh ==
  (at["rebuilder"] = "rename" \/ \E s \in Searchers : at[s] = "rename")
    => tmp.token = 0 \/ Fresh(tmp.gen)

FoundFresh == \A s \in Searchers : at[s] = "done" => since[s] <= found[s] /\ found[s] <= gen

VecInv ==
  /\ VecTypeOK /\ Turns /\ LockHeld /\ AckedCommitted
  /\ MemFresh /\ FileFresh /\ LocalFresh /\ TmpFresh /\ FoundFresh

-----------------------------------------------------------------------------
(* VecInv is inductive.                                                    *)

\* A searcher is neither the writer nor the rebuild, nor a free lock.
LEMMA Apart ==
  ASSUME Sequential, NEW s \in Searchers
  PROVE  s \in Threads /\ s # "writer" /\ s # "rebuilder" /\ s # "free"
BY VecAssumption DEF Threads

LEMMA InitInv == Sequential /\ Init => VecInv
<1> SUFFICES ASSUME Sequential, Init PROVE VecInv
  OBVIOUS
<1>1. VecTypeOK
  BY DEF Init, VecTypeOK, Threads, Files, NoFile, WriterAt, RebuilderAt, SearcherAt
<1>2. QED
  BY <1>1 DEF Init, VecInv, Turns, LockHeld, Locked, AckedCommitted, MemFresh, FileFresh,
              LocalFresh, TmpFresh, FoundFresh, NoFile, Threads

\* The writer.
LEMMA WriterInv ==
  ASSUME Sequential, VecInv, Commit \/ Invalidate
  PROVE  VecInv'
<1> USE DEF VecInv, VecTypeOK, Files, Threads, WriterAt, RebuilderAt, SearcherAt
<1>1. CASE Commit
  <2>1. at' = [at EXCEPT !["writer"] = "invalidate"] /\ at["rebuilder"] = "idle"
        /\ at["writer"] = "idle"
    BY <1>1 DEF Commit, Goto, InTurn, Sequential
  <2>2. \A s \in Searchers : at'[s] = at[s]
    BY <2>1, Apart
  <2>3. at'["writer"] = "invalidate" /\ at'["rebuilder"] = "idle"
    BY <2>1
  <2>4. VecTypeOK'
    BY <1>1, <2>1, <2>2, <2>3 DEF Commit
  <2>5. UNCHANGED <<file, tmp, mem, fileRemoved, lock, local, acked, since, found, crashes>>
        /\ gen' = gen + 1
    BY <1>1 DEF Commit
  <2>6. \A g \in Nat : Fresh(g) => Fresh(g)'
    BY <2>5 DEF Fresh
  <2>7. Turns' /\ LockHeld' /\ MemFresh' /\ TmpFresh'
    BY <2>2, <2>3, <2>5, <2>6 DEF Turns, LockHeld, MemFresh, TmpFresh, Unloaded
  <2>8. AckedCommitted' /\ FoundFresh'
    BY <2>2, <2>3, <2>5 DEF AckedCommitted, FoundFresh
  <2>9. FileFresh'
    BY <2>1, <2>3, <2>5, <2>6 DEF FileFresh
  <2>10. LocalFresh'
    BY <2>2, <2>3, <2>5, <2>6, Apart DEF LocalFresh
  <2>11. QED
    BY <2>4, <2>7, <2>8, <2>9, <2>10
<1>2. CASE Invalidate
  <2>1. at' = [at EXCEPT !["writer"] = "idle"] /\ at["rebuilder"] = "idle"
    BY <1>2 DEF Invalidate, Goto, Turns
  <2>2. \A s \in Searchers : at'[s] = at[s]
    BY <2>1, Apart
  <2>3. at'["writer"] = "idle" /\ at'["rebuilder"] = "idle"
    BY <2>1
  <2>4. file' \in Files /\ file'.token = 0
    BY <1>2, <2>1 DEF Invalidate, FileFresh, NoFile, Sequential
  <2>5. VecTypeOK'
    BY <1>2, <2>1, <2>2, <2>3, <2>4 DEF Invalidate, Unloaded
  <2>6. \A s \in Searchers : at'[s] \notin Locked
    BY <1>2, <2>2, Apart DEF Invalidate, LockHeld
  <2>7. QED
    BY <1>2, <2>2, <2>3, <2>4, <2>5, <2>6
       DEF Invalidate, Turns, LockHeld, Locked, AckedCommitted, MemFresh, FileFresh, LocalFresh,
           TmpFresh, FoundFresh, Fresh
<1>3. QED
  BY <1>1, <1>2

\* The rebuild.
LEMMA RebuildInv ==
  ASSUME Sequential, VecInv, Rebuild
  PROVE  VecInv'
<1> USE DEF VecInv, VecTypeOK, Files, Threads, WriterAt, RebuilderAt, SearcherAt
<1>1. PICK place \in RebuilderAt : at' = [at EXCEPT !["rebuilder"] = place]
  BY DEF Rebuild, BumpToken, RebuildLoad, RebuildPublish, RebuildWrite, RebuildRename, RebuildMark,
         Goto
<1>2. /\ at'["writer"] = at["writer"] /\ at'["rebuilder"] = place
      /\ \A s \in Searchers : at'[s] = at[s]
  BY <1>1, Apart
<1>3. at["writer"] = "idle"
  BY DEF Rebuild, BumpToken, RebuildLoad, RebuildPublish, RebuildWrite, RebuildRename, RebuildMark,
         Turns, InTurn, Sequential
<1>4. /\ local' \in [Threads -> Files]
      /\ \A s \in Searchers : local'[s] = local[s]
  BY Apart DEF Rebuild, BumpToken, RebuildLoad, RebuildPublish, RebuildWrite, RebuildRename,
               RebuildMark
<1>5. UNCHANGED <<gen, lock, acked, since, found, crashes>>
  BY DEF Rebuild, BumpToken, RebuildLoad, RebuildPublish, RebuildWrite, RebuildRename, RebuildMark
<1>6. Turns' /\ LockHeld' /\ AckedCommitted' /\ FoundFresh'
  BY <1>2, <1>3, <1>5 DEF Turns, LockHeld, AckedCommitted, FoundFresh
<1>7. CASE BumpToken
  <2>1. VecTypeOK'
    BY <1>1, <1>2, <1>4, <1>5, <1>7 DEF BumpToken
  <2>2. QED
    BY <1>2, <1>4, <1>5, <1>6, <1>7, <2>1
       DEF BumpToken, Goto, MemFresh, FileFresh, LocalFresh, TmpFresh, Fresh
<1>8. CASE RebuildLoad
  <2>1. VecTypeOK'
    BY <1>1, <1>2, <1>4, <1>5, <1>8 DEF RebuildLoad
  <2>2. local'["rebuilder"].gen = gen
    BY <1>8 DEF RebuildLoad
  <2>3. QED
    BY <1>2, <1>4, <1>5, <1>6, <1>8, <2>1, <2>2
       DEF RebuildLoad, Goto, MemFresh, FileFresh, LocalFresh, TmpFresh, Fresh, AckedCommitted
<1>9. CASE RebuildPublish
  <2>1. VecTypeOK'
    BY <1>1, <1>2, <1>4, <1>5, <1>9 DEF RebuildPublish
  <2>2. QED
    BY <1>2, <1>4, <1>5, <1>6, <1>9, <2>1
       DEF RebuildPublish, Goto, MemFresh, FileFresh, LocalFresh, TmpFresh, Fresh
<1>10. CASE RebuildWrite
  <2>1. VecTypeOK'
    BY <1>1, <1>2, <1>4, <1>5, <1>10 DEF RebuildWrite, WriteTmp
  <2>2. QED
    BY <1>2, <1>4, <1>5, <1>6, <1>10, <2>1
       DEF RebuildWrite, WriteTmp, Goto, MemFresh, FileFresh, LocalFresh, TmpFresh, Fresh
<1>11. CASE RebuildRename
  <2>1. VecTypeOK'
    BY <1>1, <1>2, <1>4, <1>5, <1>11 DEF RebuildRename, Rename, NoFile
  <2>2. QED
    BY <1>2, <1>4, <1>5, <1>6, <1>11, <2>1
       DEF RebuildRename, Rename, NoFile, Goto, MemFresh, FileFresh, LocalFresh, TmpFresh, Fresh
<1>12. CASE RebuildMark
  <2>1. VecTypeOK'
    BY <1>1, <1>2, <1>4, <1>5, <1>12 DEF RebuildMark
  <2>2. QED
    BY <1>2, <1>4, <1>5, <1>6, <1>12, <2>1
       DEF RebuildMark, Goto, MemFresh, FileFresh, LocalFresh, TmpFresh, Fresh
<1>13. QED
  BY <1>7, <1>8, <1>9, <1>10, <1>11, <1>12 DEF Rebuild

SearchStep(s) ==
  \/ BeginSearch(s) \/ TakeLock(s) \/ LoadFile(s) \/ LoadRows(s)
  \/ Materialize(s) \/ Materialized(s) \/ Search(s) \/ EndSearch(s)

\* A search.
LEMMA SearchInv ==
  ASSUME Sequential, VecInv, NEW s \in Searchers, SearchStep(s)
  PROVE  VecInv'
<1> USE DEF VecInv, VecTypeOK, Files, Threads, WriterAt, RebuilderAt, SearcherAt
<1> s # "writer" /\ s # "rebuilder" /\ s # "free"
  BY Apart
<1>1. PICK place \in SearcherAt : at' = [at EXCEPT ![s] = place]
  BY DEF SearchStep, BeginSearch, TakeLock, LoadFile, LoadRows, Materialize, Materialized, Search,
         EndSearch, Goto
<1>2. /\ at'["writer"] = at["writer"] /\ at'["rebuilder"] = at["rebuilder"] /\ at'[s] = place
      /\ \A u \in Searchers \ {s} : at'[u] = at[u]
  BY <1>1
<1>3. /\ local' \in [Threads -> Files]
      /\ local'["rebuilder"] = local["rebuilder"]
      /\ \A u \in Searchers \ {s} : local'[u] = local[u]
  BY DEF SearchStep, BeginSearch, TakeLock, LoadFile, LoadRows, Materialize, Materialized, Search,
         EndSearch
<1>4. UNCHANGED <<gen, token, acked, crashes>>
  BY DEF SearchStep, BeginSearch, TakeLock, LoadFile, LoadRows, Materialize, Materialized, Search,
         EndSearch
<1>5. Turns'
  BY <1>2 DEF Turns
<1>6. CASE BeginSearch(s)
  <2>1. VecTypeOK'
    BY <1>1, <1>2, <1>3, <1>4, <1>6 DEF BeginSearch
  <2>2. place \in {"lock", "search"}
    BY <1>1, <1>2, <1>6 DEF BeginSearch, Goto
  <2>3. QED
    BY <1>2, <1>4, <1>5, <1>6, <2>1, <2>2
       DEF BeginSearch, LockHeld, Locked, AckedCommitted, MemFresh, FileFresh, LocalFresh, TmpFresh,
           FoundFresh, Fresh
<1>7. CASE TakeLock(s)
  <2>1. VecTypeOK'
    BY <1>1, <1>2, <1>3, <1>4, <1>7 DEF TakeLock
  <2>2. (place = "search" /\ lock' = lock) \/ (place = "file" /\ lock' = s)
    BY <1>2, <1>7 DEF TakeLock, Goto
  <2>3. \A u \in Searchers \ {s} : at'[u] \notin Locked
    BY <1>2, <1>7, Apart DEF TakeLock, LockHeld
  <2>4. LockHeld'
    BY <1>2, <2>2, <2>3 DEF LockHeld, Locked
  <2>5. QED
    BY <1>2, <1>3, <1>4, <1>5, <1>7, <2>1, <2>2, <2>4
       DEF TakeLock, AckedCommitted, MemFresh, FileFresh, LocalFresh, TmpFresh, FoundFresh, Fresh
<1>8. CASE LoadFile(s)
  <2>1. VecTypeOK'
    BY <1>1, <1>2, <1>3, <1>4, <1>8 DEF LoadFile
  <2>2. \A u \in Searchers \ {s} : at'[u] \notin Locked
    BY <1>2, <1>8 DEF LoadFile, LockHeld, Locked
  <2>3. place = "search" \/ (place = "load" /\ lock' = lock)
    BY <1>2, <1>8 DEF LoadFile, Goto
  <2>4. LockHeld'
    BY <1>2, <1>8, <2>2, <2>3 DEF LoadFile, LockHeld, Locked
  <2>5. MemFresh' /\ FileFresh'
    BY <1>2, <1>4, <1>8 DEF LoadFile, MemFresh, FileFresh, Fresh
  <2>6. QED
    BY <1>2, <1>3, <1>4, <1>5, <1>8, <2>1, <2>3, <2>4, <2>5
       DEF LoadFile, AckedCommitted, LocalFresh, TmpFresh, FoundFresh, Fresh
<1>9. CASE LoadRows(s)
  <2>1. VecTypeOK'
    BY <1>1, <1>2, <1>3, <1>4, <1>9 DEF LoadRows
  <2>2. \A u \in Searchers \ {s} : at'[u] \notin Locked
    BY <1>2, <1>9 DEF LoadRows, LockHeld, Locked
  <2>3. place = "search" \/ (place = "write" /\ lock' = lock)
    BY <1>2, <1>9 DEF LoadRows, Goto
  <2>4. LockHeld'
    BY <1>2, <1>9, <2>2, <2>3 DEF LoadRows, LockHeld, Locked
  <2>5. local'[s].gen = gen
    BY <1>9 DEF LoadRows
  <2>6. QED
    BY <1>2, <1>3, <1>4, <1>5, <1>9, <2>1, <2>3, <2>4, <2>5
       DEF LoadRows, AckedCommitted, MemFresh, FileFresh, LocalFresh, TmpFresh, FoundFresh, Fresh
<1>10. CASE Materialize(s)
  <2>1. VecTypeOK'
    BY <1>1, <1>2, <1>3, <1>4, <1>10 DEF Materialize, WriteTmp
  <2>2. place = "rename"
    BY <1>2, <1>10 DEF Materialize, Goto
  <2>3. QED
    BY <1>2, <1>3, <1>4, <1>5, <1>10, <2>1, <2>2
       DEF Materialize, WriteTmp, LockHeld, Locked, AckedCommitted, MemFresh, FileFresh, LocalFresh,
           TmpFresh, FoundFresh, Fresh
<1>11. CASE Materialized(s)
  <2>1. VecTypeOK'
    BY <1>1, <1>2, <1>3, <1>4, <1>11 DEF Materialized, Rename, NoFile
  <2>2. \A u \in Searchers \ {s} : at'[u] \notin Locked
    BY <1>2, <1>11 DEF Materialized, LockHeld, Locked
  <2>3. place = "search"
    BY <1>2, <1>11 DEF Materialized, Goto
  <2>4. LockHeld'
    BY <1>2, <2>2, <2>3 DEF LockHeld, Locked
  <2>5. FileFresh' /\ TmpFresh'
    BY <1>2, <1>4, <1>11, <2>3
       DEF Materialized, Rename, NoFile, FileFresh, TmpFresh, Fresh
  <2>6. QED
    BY <1>2, <1>3, <1>4, <1>5, <1>11, <2>1, <2>3, <2>4, <2>5
       DEF Materialized, AckedCommitted, MemFresh, LocalFresh, FoundFresh, Fresh
<1>12. CASE Search(s)
  <2>1. VecTypeOK'
    BY <1>1, <1>2, <1>3, <1>4, <1>12 DEF Search, Unloaded
  <2>2. place = "done"
    BY <1>2, <1>12 DEF Search, Goto
  <2>3. since[s] <= found'[s] /\ found'[s] <= gen
    BY <1>12 DEF Search, AckedCommitted, MemFresh, Fresh, Unloaded
  <2>4. FoundFresh'
    BY <1>2, <1>4, <1>12, <2>3 DEF Search, FoundFresh
  <2>5. QED
    BY <1>2, <1>4, <1>5, <1>12, <2>1, <2>2, <2>4
       DEF Search, LockHeld, Locked, AckedCommitted, MemFresh, FileFresh, LocalFresh, TmpFresh, Fresh
<1>13. CASE EndSearch(s)
  <2>1. VecTypeOK'
    BY <1>1, <1>2, <1>3, <1>4, <1>13 DEF EndSearch
  <2>2. place = "idle"
    BY <1>2, <1>13 DEF EndSearch, Goto
  <2>3. QED
    BY <1>2, <1>4, <1>5, <1>13, <2>1, <2>2
       DEF EndSearch, LockHeld, Locked, AckedCommitted, MemFresh, FileFresh, LocalFresh, TmpFresh,
           FoundFresh, Fresh
<1>14. QED
  BY <1>6, <1>7, <1>8, <1>9, <1>10, <1>11, <1>12, <1>13 DEF SearchStep

\* A death of the process.
LEMMA CrashInv ==
  ASSUME Sequential, VecInv, Crash
  PROVE  VecInv'
<1>1. \A t \in Threads : at'[t] = "idle"
  BY DEF Crash
<1>2. VecTypeOK'
  <2>1. at' = [t \in Threads |-> "idle"] /\ local' = [t \in Threads |-> NoFile]
    BY DEF Crash
  <2>2. at' \in [Threads -> WriterAt \union RebuilderAt \union SearcherAt]
    BY <2>1 DEF WriterAt
  <2>3. local' \in [Threads -> Files]
    BY <2>1 DEF Files, NoFile
  <2>4. at'["writer"] \in WriterAt /\ at'["rebuilder"] \in RebuilderAt
        /\ \A s \in Searchers : at'[s] \in SearcherAt
    BY <1>1 DEF Threads, WriterAt, RebuilderAt, SearcherAt
  <2>5. /\ UNCHANGED <<gen, token, file, tmp, acked, since, found>>
        /\ crashes' = crashes + 1 /\ mem' = Unloaded /\ fileRemoved' = FALSE /\ lock' = "free"
    BY DEF Crash
  <2>6. /\ gen' \in Nat /\ token' \in Nat /\ acked' \in Nat /\ crashes' \in Nat
        /\ file' \in Files /\ tmp' \in Files
        /\ since' \in [Searchers -> Nat] /\ found' \in [Searchers -> Nat]
    BY <2>5 DEF VecInv, VecTypeOK
  <2>7. mem' \in Nat \union {Unloaded} /\ fileRemoved' \in BOOLEAN
        /\ lock' \in Searchers \union {"free"}
    BY <2>5
  <2>8. QED
    BY <2>2, <2>3, <2>4, <2>6, <2>7 DEF VecTypeOK
<1>3. QED
  BY <1>1, <1>2
     DEF Crash, VecInv, VecTypeOK, Threads, Turns, LockHeld, Locked, AckedCommitted, MemFresh,
         FileFresh, LocalFresh, TmpFresh, FoundFresh, Fresh

LEMMA NextInv == Sequential /\ VecInv /\ [Next]_vars => VecInv'
<1> SUFFICES ASSUME Sequential, VecInv, [Next]_vars PROVE VecInv'
  OBVIOUS
<1>1. CASE UNCHANGED vars
  BY <1>1 DEF vars, VecInv, VecTypeOK, Turns, LockHeld, AckedCommitted, MemFresh, FileFresh,
              LocalFresh, TmpFresh, FoundFresh, Fresh
<1>2. CASE \E s \in Searchers : SearchStep(s)
  BY <1>2, SearchInv
<1>3. QED
  BY <1>1, <1>2, WriterInv, RebuildInv, CrashInv DEF Next, SearchStep

\* Whatever may be published is at least as new as the last mutation that
\* returned (invalidateVecCache, ensureVecCache, RebuildVecCacheFile).
THEOREM VecBounded == ASSUME Sequential PROVE Spec => []VecInv
<1>1. Init => VecInv
  BY InitInv
<1>2. VecInv /\ [Next]_vars => VecInv'
  BY NextInv
<1>3. QED
  BY <1>1, <1>2, PTL DEF Spec

\* A search that begins after a mutator has returned is answered from vectors
\* at least as new: "cache must be refreshed" (veccache_test.go).
THEOREM VecReadYourWrites == ASSUME Sequential PROVE Spec => []ReadYourWrites
<1>1. VecInv => ReadYourWrites
  BY DEF VecInv, VecTypeOK, FoundFresh, ReadYourWrites
<1>2. Spec => []VecInv
  BY VecBounded
<1>3. QED
  BY <1>1, <1>2, PTL

\* "A mutated index must not be served from a stale sidecar" (veccache.go), as
\* long as no process died.
THEOREM VecSidecarCurrent == ASSUME Sequential PROVE Spec => []SidecarCurrent
<1>1. VecInv => SidecarCurrent
  <2>1. SUFFICES ASSUME VecInv, crashes = 0, at["writer"] = "idle", token # 0, file.token = token
                 PROVE  file.gen = gen
    BY DEF SidecarCurrent, SidecarBelievable
  <2>2. acked = gen
    BY <2>1 DEF VecInv, AckedCommitted
  <2>3. Fresh(file.gen)
    BY <2>1 DEF VecInv, FileFresh
  <2>4. gen \in Nat /\ file.gen \in Nat
    BY <2>1 DEF VecInv, VecTypeOK, Files
  <2>5. QED
    BY <2>2, <2>3, <2>4 DEF Fresh
<1>2. Spec => []VecInv
  BY VecBounded
<1>3. QED
  BY <1>1, <1>2, PTL

-----------------------------------------------------------------------------
(* The symbol and edge cache.                                              *)

Cuts == [syms : Nat, edges : Nat]
Passes == {"idle", "deleted file", "deleted symbols", "save", "embed", "edges"}
Places == {"idle", "edges", "symbols", "answer"}

GraphTypeOK ==
  /\ symbols \in Nat /\ edges \in Nat
  /\ symsCache \in Nat \union {G!Unloaded} /\ edgesCache \in Nat \union {G!Unloaded}
  /\ pass \in Passes
  /\ query \in [Queries -> Places]
  /\ taken \in [Queries -> Cuts]
  /\ floor \in Cuts
  /\ began \in [Queries -> Cuts]

FloorBounded == floor.syms <= symbols /\ floor.edges <= edges

CacheBounded ==
  /\ symsCache # G!Unloaded => floor.syms <= symsCache /\ symsCache <= symbols
  /\ edgesCache # G!Unloaded => floor.edges <= edgesCache /\ edgesCache <= edges

BeganBounded ==
  \A q \in Queries : began[q].syms <= floor.syms /\ began[q].edges <= floor.edges

TakenBounded ==
  \A q \in Queries :
    /\ query[q] \in {"symbols", "answer"} =>
         began[q].edges <= taken[q].edges /\ taken[q].edges <= edges
    /\ query[q] = "answer" =>
         began[q].syms <= taken[q].syms /\ taken[q].syms <= symbols

Bounded == GraphTypeOK /\ FloorBounded /\ CacheBounded /\ BeganBounded /\ TakenBounded

-----------------------------------------------------------------------------


\* Nothing is cached and no query is under way at first.
LEMMA InitBounded == G!Init => Bounded
BY DEF G!Init, Bounded, GraphTypeOK, FloorBounded, CacheBounded, BeganBounded, TakenBounded,
       Cuts, G!Cut, Passes, Places, G!Unloaded

\* The calls of a pass: what they change only grows, and the floor is raised
\* only with both slots cleared.
LEMMA PassBounded ==
  ASSUME Bounded,
         G!CommitDelete \/ G!InvalidateDelete \/ G!SaveSymbols \/ G!NoSymbols \/ G!Upsert \/ G!SaveEdges
  PROVE  Bounded'
<1>1. UNCHANGED <<query, taken, began>>
  BY DEF G!CommitDelete, G!InvalidateDelete, G!SaveSymbols, G!NoSymbols, G!Upsert, G!SaveEdges
<1>2. /\ symbols' \in Nat /\ symbols <= symbols'
      /\ edges' \in Nat /\ edges <= edges'
      /\ pass' \in Passes
  <2>1. symbols' \in {symbols, symbols + 1} /\ edges' \in {edges, edges + 1}
    BY DEF G!CommitDelete, G!InvalidateDelete, G!SaveSymbols, G!NoSymbols, G!Upsert, G!SaveEdges
  <2>2. pass' \in Passes
    BY Zenon DEF G!CommitDelete, G!InvalidateDelete, G!SaveSymbols, G!NoSymbols, G!Upsert, G!SaveEdges, Passes
  <2>3. QED
    BY <2>1, <2>2 DEF Bounded, GraphTypeOK
<1>3. \/ UNCHANGED <<symsCache, edgesCache, floor>>
      \/ /\ UNCHANGED <<symbols, edges>>
         /\ G!Invalidate
  BY DEF G!CommitDelete, G!InvalidateDelete, G!SaveSymbols, G!NoSymbols, G!Upsert, G!SaveEdges
<1>4. /\ floor' \in Cuts
      /\ floor.syms <= floor'.syms /\ floor.edges <= floor'.edges
      /\ FloorBounded'
  <2>1. CASE UNCHANGED <<symsCache, edgesCache, floor>>
    BY <1>2, <2>1 DEF Bounded, GraphTypeOK, FloorBounded, Cuts
  <2>2. CASE UNCHANGED <<symbols, edges>> /\ G!Invalidate
    BY <2>2 DEF Bounded, GraphTypeOK, FloorBounded, Cuts, G!Invalidate
  <2>3. QED
    BY <1>3, <2>1, <2>2
<1>5. GraphTypeOK'
  BY <1>1, <1>2, <1>3, <1>4 DEF Bounded, GraphTypeOK, G!Invalidate
<1>6. CacheBounded'
  <2>1. CASE UNCHANGED <<symsCache, edgesCache, floor>>
    BY <1>2, <2>1 DEF Bounded, GraphTypeOK, CacheBounded, Cuts, G!Unloaded
  <2>2. CASE G!Invalidate
    BY <2>2 DEF CacheBounded, G!Invalidate
  <2>3. QED
    BY <1>3, <2>1, <2>2
<1>7. BeganBounded'
  BY <1>1, <1>4 DEF Bounded, GraphTypeOK, BeganBounded, Cuts
<1>8. TakenBounded'
  BY <1>1, <1>2 DEF Bounded, GraphTypeOK, TakenBounded, Cuts
<1>9. QED
  BY <1>4, <1>5, <1>6, <1>7, <1>8 DEF Bounded

\* The steps of a query.
LEMMA QueryBounded ==
  ASSUME Bounded, NEW q \in Queries,
         G!Begin(q) \/ G!ListAllEdges(q) \/ G!ListSymbolMeta(q) \/ G!Answer(q)
  PROVE  Bounded'
<1> USE DEF Bounded, GraphTypeOK, FloorBounded, CacheBounded, BeganBounded, TakenBounded,
            Cuts, Places, G!Unloaded
<1>1. CASE G!Begin(q)
  BY <1>1 DEF G!Begin
<1>2. CASE G!ListAllEdges(q)
  BY <1>2 DEF G!ListAllEdges
<1>3. CASE G!ListSymbolMeta(q)
  BY <1>3 DEF G!ListSymbolMeta
<1>4. CASE G!Answer(q)
  BY <1>4 DEF G!Answer
<1>5. QED
  BY <1>1, <1>2, <1>3, <1>4

LEMMA NextBounded == Bounded /\ [G!Next]_(G!vars) => Bounded'
<1> SUFFICES ASSUME Bounded, [G!Next]_(G!vars) PROVE Bounded'
  OBVIOUS
<1>1. CASE \E q \in Queries : G!Begin(q) \/ G!ListAllEdges(q) \/ G!ListSymbolMeta(q) \/ G!Answer(q)
  BY <1>1, QueryBounded
<1>2. CASE UNCHANGED G!vars
  BY <1>2 DEF G!vars, Bounded, GraphTypeOK, FloorBounded, CacheBounded, BeganBounded, TakenBounded
<1>3. QED
  BY <1>1, <1>2, PassBounded DEF G!Next

\* What is cached is never older than the last invalidation and never newer
\* than the table (graphcache.go).
THEOREM GraphBounded == G!Spec => []Bounded
<1>1. G!Init => Bounded
  BY InitBounded
<1>2. Bounded /\ [G!Next]_(G!vars) => Bounded'
  BY NextBounded
<1>3. QED
  BY <1>1, <1>2, PTL DEF G!Spec

\* "Mutations invalidate it through the same hooks as the vec cache"
\* (graphcache.go): a query that begins after a deletion or an upsert has
\* returned is given symbols and edges no older than that.
THEOREM GraphObeys == G!Spec => []InvalidationObeyed
<1>1. Bounded => InvalidationObeyed
  BY DEF Bounded, GraphTypeOK, TakenBounded, InvalidationObeyed, G!InvalidationObeyed, Cuts
<1>2. QED
  BY <1>1, GraphBounded, PTL

-----------------------------------------------------------------------------
(* Both implement CachedReads.  Nothing becomes of the cache that is not   *)
(* at work.                                                                *)

OneAtWork ==
  /\ cache = "vec" => /\ symbols = 0 /\ edges = 0 /\ floor = G!Cut
                      /\ \A q \in Queries : query[q] = "idle"
  /\ cache = "graph" => /\ gen = 0 /\ acked = 0
                        /\ \A s \in Searchers : at[s] = "idle"

CachesInv == VecInv /\ Bounded /\ OneAtWork

Versions == Row(gen, edges, symbols)
Returned == Row(acked, floor.edges, floor.syms)
Floors == [r \in Readers |-> FloorOf(r)]
Got == [r \in Readers |-> GotBy(r)]

LEMMA RowAt ==
  ASSUME NEW v, NEW e, NEW s
  PROVE  /\ Row(v, e, s)["vectors"] = v /\ Row(v, e, s)["edges"] = e /\ Row(v, e, s)["symbols"] = s
         /\ Tables = {"vectors", "edges", "symbols"}
BY DEF Row, Tables

\* The actions of CachedReads, in the terms of the mapping.
LEMMA Commits ==
  ASSUME NEW ts \in SUBSET Tables, UNCHANGED <<Returned, Floors, Got>>,
         Versions' = [t \in Tables |-> IF t \in ts THEN Versions[t] + 1 ELSE Versions[t]]
  PROVE  R!Commit
BY DEF R!Commit, Versions, Returned, Floors, Got

LEMMA Returns ==
  ASSUME UNCHANGED <<Versions, Floors, Got>>, Returned' = Versions
  PROVE  R!Return
BY DEF R!Return, Versions, Returned, Floors, Got

LEMMA Begins ==
  ASSUME NEW r \in Readers, UNCHANGED <<Versions, Returned>>,
         Got[r] = Row(-2, -2, -2), Got' = [Got EXCEPT ![r] = Row(-1, -1, -1)],
         Floors' = [Floors EXCEPT ![r] = Returned]
  PROVE  R!Begin(r)
<1>1. Row(-2, -2, -2) = R!NotReading /\ Row(-1, -1, -1) = [t \in Tables |-> R!Unread]
  BY DEF Row, R!NotReading, R!Unread
<1>2. QED
  BY <1>1 DEF R!Begin, Versions, Returned, Floors, Got

LEMMA GivesOne ==
  ASSUME NEW r \in Readers, UNCHANGED <<Versions, Returned, Floors>>,
         NEW t \in Tables, Got[r][t] = -1, NEW v \in Floors[r][t] .. Versions[t],
         Got' = [Got EXCEPT ![r][t] = v]
  PROVE  R!Read(r)
BY DEF R!Read, R!Unread, Versions, Returned, Floors, Got

LEMMA Ends ==
  ASSUME NEW r \in Readers, UNCHANGED <<Versions, Returned, Floors>>,
         Got' = [Got EXCEPT ![r] = Row(-2, -2, -2)]
  PROVE  R!End(r)
<1>1. Row(-2, -2, -2) = R!NotReading
  BY DEF Row, R!NotReading
<1>2. QED
  BY <1>1 DEF R!End, Versions, Returned, Floors, Got

LEMMA Restarts ==
  ASSUME UNCHANGED <<Versions, Returned, Floors>>, Got' = [r \in Readers |-> Row(-2, -2, -2)]
  PROVE  R!Restart
<1>1. Row(-2, -2, -2) = R!NotReading
  BY DEF Row, R!NotReading
<1>2. QED
  BY <1>1 DEF R!Restart, Versions, Returned, Floors, Got

LEMMA Stutters == UNCHANGED <<Versions, Returned, Floors, Got>> => UNCHANGED R!vars
BY DEF R!vars, Versions, Returned, Floors, Got

\* What the mapping is made of.
LEMMA Kept ==
  /\ UNCHANGED <<gen, edges, symbols>> => UNCHANGED Versions
  /\ UNCHANGED <<acked, floor>> => UNCHANGED Returned
  /\ UNCHANGED <<since, began>> => UNCHANGED Floors
  /\ UNCHANGED <<found, query, taken>> /\ (\A s \in Searchers : at'[s] = at[s]) => UNCHANGED Got
BY DEF Versions, Returned, Floors, FloorOf, Got, GotBy

-----------------------------------------------------------------------------
(* A step of the vector cache.                                             *)

LEMMA VecCalls ==
  ASSUME Sequential, CachesInv, cache = "vec", UNCHANGED graphVars,
         Commit \/ Invalidate \/ Rebuild \/ Crash
  PROVE  R!Commit \/ R!Return \/ R!Restart \/ UNCHANGED R!vars
<1>1. UNCHANGED <<symbols, edges, query, taken, floor, began>>
  BY DEF graphVars
<1>2. CASE Commit
  <2>1. \A s \in Searchers : at'[s] = at[s]
    BY <1>2, Apart DEF Commit, Goto, CachesInv, VecInv, VecTypeOK
  <2>2. UNCHANGED <<Returned, Floors, Got>>
    BY <1>1, <1>2, <2>1, Kept DEF Commit
  <2>3. Versions' = [t \in Tables |-> IF t \in {"vectors"} THEN Versions[t] + 1 ELSE Versions[t]]
    BY <1>1, <1>2 DEF Commit, Versions, Row
  <2>4. {"vectors"} \in SUBSET Tables
    BY DEF Tables
  <2>5. QED
    BY <2>2, <2>3, <2>4, Commits
<1>3. CASE Invalidate
  <2>1. \A s \in Searchers : at'[s] = at[s]
    BY <1>3, Apart DEF Invalidate, Goto, CachesInv, VecInv, VecTypeOK
  <2>2. UNCHANGED <<Versions, Floors, Got>>
    BY <1>1, <1>3, <2>1, Kept DEF Invalidate
  <2>3. floor.edges = edges /\ floor.syms = symbols
    BY DEF CachesInv, OneAtWork, G!Cut
  <2>4. Returned' = Versions
    BY <1>1, <1>3, <2>3 DEF Invalidate, Versions, Returned
  <2>5. QED
    BY <2>2, <2>4, Returns
<1>4. CASE Rebuild
  <2>1. \A s \in Searchers : at'[s] = at[s]
    BY <1>4, Apart DEF Rebuild, BumpToken, RebuildLoad, RebuildPublish, RebuildWrite, RebuildRename,
                       RebuildMark, Goto, CachesInv, VecInv, VecTypeOK
  <2>2. UNCHANGED <<gen, acked, since, found>>
    BY <1>4 DEF Rebuild, BumpToken, RebuildLoad, RebuildPublish, RebuildWrite, RebuildRename,
                RebuildMark
  <2>3. QED
    BY <1>1, <2>1, <2>2, Kept, Stutters
<1>5. CASE Crash
  <2>1. \A s \in Searchers : at'[s] = "idle"
    BY <1>5 DEF Crash, Threads
  <2>2. \A q \in Queries : query'[q] = "idle"
    BY <1>1 DEF CachesInv, OneAtWork
  <2>3. Got' = [r \in Readers |-> Row(-2, -2, -2)]
    BY <2>1, <2>2 DEF Got, GotBy, Readers
  <2>4. UNCHANGED <<Versions, Returned, Floors>>
    BY <1>1, <1>5, Kept DEF Crash
  <2>5. QED
    BY <2>3, <2>4, Restarts
<1>6. QED
  BY <1>2, <1>3, <1>4, <1>5

LEMMA VecSearches ==
  ASSUME Sequential, CachesInv, cache = "vec", UNCHANGED graphVars,
         NEW s \in Searchers, SearchStep(s)
  PROVE  R!Begin(s) \/ R!Read(s) \/ R!End(s) \/ UNCHANGED R!vars
<1> USE Apart
<1>1. UNCHANGED <<symbols, edges, query, taken, floor, began>> /\ s \in Readers
  BY DEF graphVars, Readers
<1>2. /\ at \in [Threads -> WriterAt \union RebuilderAt \union SearcherAt] /\ s \in Threads
      /\ found \in [Searchers -> Nat] /\ since \in [Searchers -> Nat]
      /\ \A u \in Searchers : u \in Threads
  BY DEF CachesInv, VecInv, VecTypeOK, Threads
<1>3. CASE BeginSearch(s)
  <2>1. Got[s] = Row(-2, -2, -2)
    BY <1>1, <1>3 DEF BeginSearch, Got, GotBy
  <2>2. Got' = [Got EXCEPT ![s] = Row(-1, -1, -1)]
    BY <1>1, <1>2, <1>3 DEF BeginSearch, Goto, Got, GotBy
  <2>3. Returned = Row(acked, 0, 0)
    BY DEF Returned, CachesInv, OneAtWork, G!Cut
  <2>4. /\ FloorOf(s)' = Row(acked, 0, 0)
        /\ \A r \in Readers \ {s} : FloorOf(r)' = FloorOf(r)
    BY <1>1, <1>2, <1>3 DEF BeginSearch, FloorOf
  <2>5. Floors' = [Floors EXCEPT ![s] = Returned]
    BY <1>1, <2>3, <2>4 DEF Floors
  <2>6. UNCHANGED <<Versions, Returned>>
    BY <1>1, <1>3, Kept DEF BeginSearch
  <2>7. QED
    BY <1>1, <2>1, <2>2, <2>5, <2>6, Begins
<1>4. CASE TakeLock(s) \/ LoadFile(s) \/ LoadRows(s) \/ Materialize(s) \/ Materialized(s)
  <2>1. at[s] \notin {"idle", "done"} /\ UNCHANGED <<gen, acked, since, found>>
    BY <1>4 DEF TakeLock, LoadFile, LoadRows, Materialize, Materialized
  <2>2. PICK place \in {"file", "load", "write", "rename", "search"} :
          at' = [at EXCEPT ![s] = place]
    BY <1>4 DEF TakeLock, LoadFile, LoadRows, Materialize, Materialized, Goto
  <2>3. Got' = Got
    BY <1>1, <1>2, <2>1, <2>2 DEF Got, GotBy
  <2>4. QED
    BY <1>1, <2>1, <2>3, Kept, Stutters
<1>5. CASE Search(s)
  <2>1. Got[s] = Row(-1, -1, -1) /\ UNCHANGED <<gen, acked, since>>
    BY <1>1, <1>5 DEF Search, Got, GotBy
  <2>2. Got' = [Got EXCEPT ![s] = Row(found'[s], -1, -1)]
    BY <1>1, <1>2, <1>5 DEF Search, Goto, Got, GotBy
  <2>3. Row(found'[s], -1, -1) = [Row(-1, -1, -1) EXCEPT !["vectors"] = found'[s]]
    BY DEF Row, Tables
  <2>4. Got' = [Got EXCEPT ![s]["vectors"] = found'[s]]
    BY <2>1, <2>2, <2>3
  <2>5. found'[s] \in since[s] .. gen
    BY <1>5 DEF Search, CachesInv, VecInv, VecTypeOK, AckedCommitted, MemFresh, Fresh, Unloaded
  <2>6. Floors[s]["vectors"] = since[s] /\ Versions["vectors"] = gen /\ Got[s]["vectors"] = -1
        /\ "vectors" \in Tables
    BY <1>1, <2>1, RowAt DEF Floors, FloorOf, Versions
  <2>7. UNCHANGED <<Versions, Returned, Floors>>
    BY <1>1, <2>1, Kept
  <2>8. QED
    BY <1>1, <2>4, <2>5, <2>6, <2>7, GivesOne
<1>6. CASE EndSearch(s)
  <2>1. Got' = [Got EXCEPT ![s] = Row(-2, -2, -2)]
    BY <1>1, <1>2, <1>6 DEF EndSearch, Goto, Got, GotBy
  <2>2. UNCHANGED <<Versions, Returned, Floors>>
    BY <1>1, <1>6, Kept DEF EndSearch
  <2>3. QED
    BY <1>1, <2>1, <2>2, Ends
<1>7. QED
  BY <1>3, <1>4, <1>5, <1>6 DEF SearchStep

-----------------------------------------------------------------------------
(* A step of the symbol and edge cache.                                    *)

\* The calls of a pass that change a table commit; those that invalidate return.
LEMMA PassCalls ==
  ASSUME CachesInv, cache = "graph", UNCHANGED vars,
         G!CommitDelete \/ G!InvalidateDelete \/ G!SaveSymbols \/ G!NoSymbols \/ G!Upsert \/ G!SaveEdges
  PROVE  R!Commit \/ R!Return \/ UNCHANGED R!vars
<1>1. UNCHANGED <<gen, acked, since, found, at, query, taken, began>>
  BY DEF vars, G!CommitDelete, G!InvalidateDelete, G!SaveSymbols, G!NoSymbols, G!Upsert, G!SaveEdges
<1>2. UNCHANGED <<Floors, Got>>
  BY <1>1, Kept
<1>3. ASSUME UNCHANGED <<symbols, edges>>, floor' = [syms |-> symbols, edges |-> edges]
      PROVE  R!Return
  <2>1. UNCHANGED Versions
    BY <1>1, <1>3, Kept
  <2>2. Returned' = Versions
    BY <1>1, <1>3 DEF Versions, Returned, CachesInv, OneAtWork
  <2>3. QED
    BY <1>2, <2>1, <2>2, Returns
<1>4. CASE G!CommitDelete
  <2>1. Versions' = [t \in Tables |-> IF t \in {"edges", "symbols"} THEN Versions[t] + 1 ELSE Versions[t]]
    BY <1>1, <1>4 DEF G!CommitDelete, Versions, Row, Tables
  <2>2. UNCHANGED Returned /\ {"edges", "symbols"} \in SUBSET Tables
    BY <1>1, <1>4, Kept, RowAt DEF G!CommitDelete
  <2>3. QED
    BY <1>2, <2>1, <2>2, Commits
<1>5. CASE G!InvalidateDelete
  BY <1>3, <1>5 DEF G!InvalidateDelete, G!Invalidate
<1>6. CASE G!SaveSymbols
  <2>1. Versions' = [t \in Tables |-> IF t \in {"symbols"} THEN Versions[t] + 1 ELSE Versions[t]]
    BY <1>1, <1>6 DEF G!SaveSymbols, Versions, Row, Tables
  <2>2. UNCHANGED Returned /\ {"symbols"} \in SUBSET Tables
    BY <1>1, <1>6, Kept, RowAt DEF G!SaveSymbols
  <2>3. QED
    BY <1>2, <2>1, <2>2, Commits
<1>7. CASE G!NoSymbols
  BY <1>1, <1>2, <1>7, Kept, Stutters DEF G!NoSymbols
<1>8. CASE G!Upsert
  <2>1. CASE G!Invalidate
    BY <1>3, <1>8, <2>1 DEF G!Upsert, G!Invalidate
  <2>2. CASE UNCHANGED floor
    BY <1>1, <1>2, <1>8, <2>2, Kept, Stutters DEF G!Upsert
  <2>3. QED
    BY <1>8, <2>1, <2>2 DEF G!Upsert
<1>9. CASE G!SaveEdges
  <2>1. Versions' = [t \in Tables |-> IF t \in {"edges"} THEN Versions[t] + 1 ELSE Versions[t]]
    BY <1>1, <1>9 DEF G!SaveEdges, Versions, Row, Tables
  <2>2. UNCHANGED Returned /\ {"edges"} \in SUBSET Tables
    BY <1>1, <1>9, Kept, RowAt DEF G!SaveEdges
  <2>3. QED
    BY <1>2, <2>1, <2>2, Commits
<1>10. QED
  BY <1>4, <1>5, <1>6, <1>7, <1>8, <1>9

\* What ListAllEdges and ListSymbolMeta give lies between the floor and the table.
LEMMA GivenBounded ==
  ASSUME Bounded, NEW q \in Queries
  PROVE  /\ G!ListAllEdges(q) => edgesCache' \in began[q].edges .. edges
         /\ G!ListSymbolMeta(q) => symsCache' \in began[q].syms .. symbols
BY DEF Bounded, GraphTypeOK, FloorBounded, CacheBounded, BeganBounded, Cuts, G!Unloaded,
       G!ListAllEdges, G!ListSymbolMeta

LEMMA Queried ==
  ASSUME CachesInv, cache = "graph", UNCHANGED vars, NEW q \in Queries,
         G!Begin(q) \/ G!ListAllEdges(q) \/ G!ListSymbolMeta(q) \/ G!Answer(q)
  PROVE  R!Begin(q) \/ R!Read(q) \/ R!End(q)
<1>1. UNCHANGED <<gen, acked, since, found, at>>
  BY DEF vars
<1>2. /\ query \in [Queries -> Places] /\ taken \in [Queries -> Cuts] /\ began \in [Queries -> Cuts]
      /\ q \in Readers /\ \A p \in Queries : p \notin Searchers
      /\ Bounded
  BY ReadersApart DEF CachesInv, Bounded, GraphTypeOK, Readers
<1>3. UNCHANGED <<Versions, Returned>>
  BY <1>1, Kept DEF G!Begin, G!ListAllEdges, G!ListSymbolMeta, G!Answer
<1>4. CASE G!Begin(q)
  <2>1. Got[q] = Row(-2, -2, -2) /\ Got' = [Got EXCEPT ![q] = Row(-1, -1, -1)]
    BY <1>1, <1>2, <1>4 DEF G!Begin, Got, GotBy, Readers
  <2>2. Floors' = [Floors EXCEPT ![q] = Returned]
    BY <1>1, <1>2, <1>4 DEF G!Begin, Floors, FloorOf, Returned, CachesInv, OneAtWork, Readers
  <2>3. QED
    BY <1>2, <1>3, <2>1, <2>2, Begins
<1>5. CASE G!ListAllEdges(q)
  <2>1. Got[q] = Row(-1, -1, -1) /\ Got' = [Got EXCEPT ![q] = Row(-1, edgesCache', -1)]
    BY <1>1, <1>2, <1>5 DEF G!ListAllEdges, Got, GotBy, Readers, Cuts
  <2>2. Row(-1, edgesCache', -1) = [Row(-1, -1, -1) EXCEPT !["edges"] = edgesCache']
    BY DEF Row, Tables
  <2>3. Got' = [Got EXCEPT ![q]["edges"] = edgesCache']
    BY <2>1, <2>2
  <2>4. Floors[q]["edges"] = began[q].edges /\ Versions["edges"] = edges /\ Got[q]["edges"] = -1
        /\ "edges" \in Tables
    BY <1>2, <2>1, RowAt DEF Floors, FloorOf, Versions
  <2>5. UNCHANGED Floors
    BY <1>1, <1>5, Kept DEF G!ListAllEdges
  <2>6. QED
    BY <1>2, <1>3, <1>5, <2>3, <2>4, <2>5, GivenBounded, GivesOne
<1>6. CASE G!ListSymbolMeta(q)
  <2>1. Got[q] = Row(-1, taken[q].edges, -1)
        /\ Got' = [Got EXCEPT ![q] = Row(-1, taken[q].edges, symsCache')]
    BY <1>1, <1>2, <1>6 DEF G!ListSymbolMeta, Got, GotBy, Readers, Cuts
  <2>2. Row(-1, taken[q].edges, symsCache') = [Row(-1, taken[q].edges, -1) EXCEPT !["symbols"] = symsCache']
    BY DEF Row, Tables
  <2>3. Got' = [Got EXCEPT ![q]["symbols"] = symsCache']
    BY <2>1, <2>2
  <2>4. Floors[q]["symbols"] = began[q].syms /\ Versions["symbols"] = symbols /\ Got[q]["symbols"] = -1
        /\ "symbols" \in Tables
    BY <1>2, <2>1, RowAt DEF Floors, FloorOf, Versions
  <2>5. UNCHANGED Floors
    BY <1>1, <1>6, Kept DEF G!ListSymbolMeta
  <2>6. QED
    BY <1>2, <1>3, <1>6, <2>3, <2>4, <2>5, GivenBounded, GivesOne
<1>7. CASE G!Answer(q)
  <2>1. Got' = [Got EXCEPT ![q] = Row(-2, -2, -2)]
    BY <1>1, <1>2, <1>7 DEF G!Answer, Got, GotBy, Readers
  <2>2. UNCHANGED Floors
    BY <1>1, <1>7, Kept DEF G!Answer
  <2>3. QED
    BY <1>2, <1>3, <2>1, <2>2, Ends
<1>8. QED
  BY <1>4, <1>5, <1>6, <1>7

-----------------------------------------------------------------------------
(* Both.                                                                   *)

LEMMA InitReads ==
  ASSUME Sequential, MCInit
  PROVE  CachesInv /\ R!Init
<1>1. VecInv /\ Bounded /\ OneAtWork
  BY InitInv, InitBounded DEF MCInit, OneAtWork, Init, G!Init, Threads
<1>2. R!Init
  <2>1. Versions = R!None /\ Returned = R!None
    BY DEF MCInit, Init, G!Init, G!Cut, Versions, Returned, Row, R!None
  <2>2. \A r \in Readers : FloorOf(r) = R!None /\ GotBy(r) = R!NotReading
    BY DEF MCInit, Init, G!Init, G!Cut, Threads, Readers, FloorOf, GotBy, Row, R!None, R!NotReading
  <2>3. QED
    BY <2>1, <2>2 DEF R!Init, Versions, Returned
<1>3. QED
  BY <1>1, <1>2 DEF CachesInv

LEMMA StepReads ==
  ASSUME Sequential, CachesInv, [MCNext]_<<cache, vars, graphVars>>
  PROVE  CachesInv' /\ [R!Next]_(R!vars)
<1>1. CASE cache = "vec" /\ Next /\ UNCHANGED <<cache, graphVars>>
  <2>1. VecInv'
    BY <1>1, NextInv DEF CachesInv
  <2>2. Bounded'
    BY <1>1, NextBounded DEF CachesInv, graphVars, G!vars
  <2>3. OneAtWork'
    BY <1>1 DEF CachesInv, OneAtWork, graphVars
  <2>4. [R!Next]_(R!vars)
    <3>1. CASE \E s \in Searchers : SearchStep(s)
      <4>1. PICK s \in Searchers : SearchStep(s)
        BY <3>1
      <4>2. s \in Readers
        BY DEF Readers
      <4>3. QED
        BY <1>1, <4>1, <4>2, VecSearches DEF R!Next
    <3>2. CASE Commit \/ Invalidate \/ Rebuild \/ Crash
      BY <1>1, <3>2, VecCalls DEF R!Next
    <3>3. QED
      BY <1>1, <3>1, <3>2 DEF Next, SearchStep
  <2>5. QED
    BY <2>1, <2>2, <2>3, <2>4 DEF CachesInv
<1>2. CASE cache = "graph" /\ G!Next /\ UNCHANGED <<cache, vars>>
  <2>1. VecInv'
    BY <1>2, NextInv DEF CachesInv
  <2>2. Bounded'
    BY <1>2, NextBounded DEF CachesInv
  <2>3. OneAtWork'
    BY <1>2 DEF CachesInv, OneAtWork, vars
  <2>4. [R!Next]_(R!vars)
    <3>1. CASE \E q \in Queries : G!Begin(q) \/ G!ListAllEdges(q) \/ G!ListSymbolMeta(q) \/ G!Answer(q)
      <4>1. PICK q \in Queries : G!Begin(q) \/ G!ListAllEdges(q) \/ G!ListSymbolMeta(q) \/ G!Answer(q)
        BY <3>1
      <4>2. q \in Readers
        BY DEF Readers
      <4>3. QED
        BY <1>2, <4>1, <4>2, Queried DEF R!Next
    <3>2. CASE G!CommitDelete \/ G!InvalidateDelete \/ G!SaveSymbols \/ G!NoSymbols \/ G!Upsert \/ G!SaveEdges
      BY <1>2, <3>2, PassCalls DEF R!Next
    <3>3. QED
      BY <1>2, <3>1, <3>2 DEF G!Next
  <2>5. QED
    BY <2>1, <2>2, <2>3, <2>4 DEF CachesInv
<1>3. CASE UNCHANGED <<cache, vars, graphVars>>
  <2>1. VecInv' /\ Bounded'
    BY <1>3, NextInv, NextBounded DEF CachesInv, graphVars, G!vars
  <2>2. OneAtWork'
    BY <1>3 DEF CachesInv, OneAtWork, vars, graphVars
  <2>3. UNCHANGED R!vars
    BY <1>3, Kept, Stutters DEF vars, graphVars
  <2>4. QED
    BY <2>1, <2>2, <2>3 DEF CachesInv
<1>4. QED
  BY <1>1, <1>2, <1>3 DEF MCNext

\* Both caches keep the promise (SearchByVectorScored, ListAllEdges,
\* ListSymbolMeta beside the mutators and RebuildVecCacheFile): a reader is
\* given what a table held since the last mutation that had returned when it
\* began.
THEOREM ReadsFresh == ASSUME Sequential PROVE MCSpec => FreshReads
<1>1. MCInit => CachesInv /\ R!Init
  BY InitReads
<1>2. CachesInv /\ [MCNext]_<<cache, vars, graphVars>> => CachesInv' /\ [R!Next]_(R!vars)
  BY StepReads
<1>3. QED
  BY <1>1, <1>2, PTL DEF MCSpec, FreshReads, R!Spec
=============================================================================
