------------------------------ MODULE VecCache ------------------------------
(***************************************************************************)
(* The vector cache of the store (store/sqlite/veccache.go): the embedding *)
(* matrix in RAM, and the sidecar file next to index.db that saves loading *)
(* it from symbol_vec.  A writer commits and then invalidates; a search    *)
(* loads the matrix when it is not there, under the lock; a rebuild writes *)
(* matrix and sidecar, mostly without it.                                  *)
(*                                                                         *)
(* A generation stands for the contents of symbol_vec: each committed      *)
(* mutation makes the next one.  The sidecar carries the token that was in *)
(* _meta when it was written and is believed when the token still matches. *)
(***************************************************************************)
EXTENDS Integers

CONSTANTS
  Searchers,     \* queries of the MCP server, one search at a time each
  Concurrent,    \* whether a rebuild runs beside a writer (the backfill goroutine
                 \* of `mcp`) or in the same goroutine (`index`)
  RemoveFails,   \* whether os.Remove of the sidecar may fail
  MaxGen,        \* bound on mutations
  MaxToken,      \* bound on rebuilds
  MaxCrashes     \* bound on deaths of the process

ASSUME VecAssumption ==
  /\ Concurrent \in BOOLEAN /\ RemoveFails \in BOOLEAN
  /\ MaxGen \in Nat /\ MaxToken \in Nat /\ MaxCrashes \in Nat
  /\ Searchers \cap {"writer", "rebuilder", "free"} = {}

VARIABLES
  gen,          \* the generation in symbol_vec
  token,        \* vec_token in _meta, 0 for none
  file, tmp,    \* the sidecar and its temporary file
  mem,          \* s.vec: the generation of the matrix, or Unloaded
  fileRemoved,  \* s.vec.fileRemoved
  lock,         \* who holds s.vec.mu for writing across steps
  at,           \* where each thread is
  local,        \* the token and generation a thread has in hand
  acked,        \* history: the last generation whose mutator returned
  since,        \* history: since[s]: acked when the search of s began
  found,        \* found[s]: the generation the search of s was answered from
  crashes

vars == <<gen, token, file, tmp, mem, fileRemoved, lock, at, local, acked, since, found, crashes>>

Threads == Searchers \cup {"writer", "rebuilder"}
Unloaded == -1
NoFile == [token |-> 0, gen |-> 0]

Init ==
  /\ gen = 0 /\ token = 0 /\ file = NoFile /\ tmp = NoFile
  /\ mem = Unloaded /\ fileRemoved = FALSE /\ lock = "free"
  /\ at = [t \in Threads |-> "idle"] /\ local = [t \in Threads |-> NoFile]
  /\ acked = 0 /\ since = [s \in Searchers |-> 0] /\ found = [s \in Searchers |-> 0]
  /\ crashes = 0

Goto(t, place) == at' = [at EXCEPT ![t] = place]
InTurn(t) == Concurrent \/ \A u \in {"writer", "rebuilder"} \ {t} : at[u] = "idle"

-----------------------------------------------------------------------------
(* A mutator: UpsertEmbedding, UpsertEmbeddingBatch, DeleteSymbolsByFile,  *)
(* DeleteFile.                                                             *)

Commit ==
  /\ at["writer"] = "idle" /\ InTurn("writer") /\ gen < MaxGen
  /\ gen' = gen + 1
  /\ Goto("writer", "invalidate")
  /\ UNCHANGED <<token, file, tmp, mem, fileRemoved, lock, local, acked, since, found, crashes>>

\* Mutant: the matrix is left loaded.
InvalidateFileOnly ==
  /\ at["writer"] = "invalidate" /\ lock = "free"
  /\ mem' = mem
  /\ file' = IF fileRemoved THEN file ELSE NoFile
  /\ fileRemoved' = TRUE
  /\ acked' = gen
  /\ Goto("writer", "idle")
  /\ UNCHANGED <<gen, token, tmp, lock, local, since, found, crashes>>

\* Mutant: the sidecar is left in place.
InvalidateMatrixOnly ==
  /\ at["writer"] = "invalidate" /\ lock = "free"
  /\ mem' = Unloaded
  /\ fileRemoved' = TRUE
  /\ acked' = gen
  /\ Goto("writer", "idle")
  /\ UNCHANGED <<gen, token, file, tmp, lock, local, since, found, crashes>>

\* invalidateVecCache, and the mutator returns.  The sidecar is removed once
\* per loading; whether that worked is not looked at.
Invalidate ==
  /\ at["writer"] = "invalidate" /\ lock = "free"
  /\ mem' = Unloaded
  /\ \/ ~fileRemoved /\ file' = NoFile
     \/ (fileRemoved \/ RemoveFails) /\ file' = file
  /\ fileRemoved' = TRUE
  /\ acked' = gen
  /\ Goto("writer", "idle")
  /\ UNCHANGED <<gen, token, tmp, lock, local, since, found, crashes>>

-----------------------------------------------------------------------------
(* writeVecCacheFile: one temporary file for all threads, then a rename.   *)

WriteTmp(t) == tmp' = local[t]

\* Renaming a file that another thread has renamed away is an error.
Rename ==
  /\ tmp' = NoFile
  /\ file' = IF tmp = NoFile THEN file ELSE tmp

-----------------------------------------------------------------------------
(* RebuildVecCacheFile.                                                    *)

BumpToken ==
  /\ at["rebuilder"] = "idle" /\ InTurn("rebuilder") /\ token < MaxToken
  /\ token' = token + 1
  /\ local' = [local EXCEPT !["rebuilder"] = [token |-> token + 1, gen |-> 0]]
  /\ Goto("rebuilder", "load")
  /\ UNCHANGED <<gen, file, tmp, mem, fileRemoved, lock, acked, since, found, crashes>>

RebuildLoad ==
  /\ at["rebuilder"] = "load"
  /\ local' = [local EXCEPT !["rebuilder"].gen = gen]
  /\ Goto("rebuilder", "publish")
  /\ UNCHANGED <<gen, token, file, tmp, mem, fileRemoved, lock, acked, since, found, crashes>>

RebuildPublish ==
  /\ at["rebuilder"] = "publish" /\ lock = "free"
  /\ mem' = local["rebuilder"].gen
  /\ Goto("rebuilder", "write")
  /\ UNCHANGED <<gen, token, file, tmp, fileRemoved, lock, local, acked, since, found, crashes>>

RebuildWrite ==
  /\ at["rebuilder"] = "write"
  /\ WriteTmp("rebuilder")
  /\ Goto("rebuilder", "rename")
  /\ UNCHANGED <<gen, token, file, mem, fileRemoved, lock, local, acked, since, found, crashes>>

RebuildRename ==
  /\ at["rebuilder"] = "rename"
  /\ Rename
  /\ Goto("rebuilder", IF tmp = NoFile THEN "idle" ELSE "mark")
  /\ UNCHANGED <<gen, token, mem, fileRemoved, lock, local, acked, since, found, crashes>>

RebuildMark ==
  /\ at["rebuilder"] = "mark" /\ lock = "free"
  /\ fileRemoved' = FALSE
  /\ Goto("rebuilder", "idle")
  /\ UNCHANGED <<gen, token, file, tmp, mem, lock, local, acked, since, found, crashes>>

Rebuild == BumpToken \/ RebuildLoad \/ RebuildPublish \/ RebuildWrite \/ RebuildRename \/ RebuildMark

-----------------------------------------------------------------------------
(* SearchByVectorScored.                                                   *)

BeginSearch(s) ==
  /\ at[s] = "idle" /\ lock = "free"
  /\ since' = [since EXCEPT ![s] = acked]
  /\ Goto(s, IF mem = Unloaded THEN "lock" ELSE "search")
  /\ UNCHANGED <<gen, token, file, tmp, mem, fileRemoved, lock, local, acked, found, crashes>>

\* ensureVecCache takes the lock and looks again.
TakeLock(s) ==
  /\ at[s] = "lock" /\ lock = "free"
  /\ \/ mem # Unloaded /\ Goto(s, "search") /\ UNCHANGED <<lock, local>>
     \/ /\ mem = Unloaded
        /\ lock' = s
        /\ local' = [local EXCEPT ![s] = [token |-> token, gen |-> 0]]
        /\ Goto(s, "file")
  /\ UNCHANGED <<gen, token, file, tmp, mem, fileRemoved, acked, since, found, crashes>>

\* loadVecCacheFile: the sidecar serves when it carries the token.
LoadFile(s) ==
  /\ at[s] = "file"
  /\ \/ /\ local[s].token # 0 /\ file.token = local[s].token
        /\ mem' = file.gen /\ fileRemoved' = FALSE /\ lock' = "free"
        /\ Goto(s, "search")
     \/ /\ local[s].token = 0 \/ file.token # local[s].token
        /\ Goto(s, "load")
        /\ UNCHANGED <<mem, fileRemoved, lock>>
  /\ UNCHANGED <<gen, token, file, tmp, local, acked, since, found, crashes>>

\* loadVecFromDB; without a token there is no sidecar to write.
LoadRows(s) ==
  /\ at[s] = "load"
  /\ mem' = gen
  /\ local' = [local EXCEPT ![s].gen = gen]
  /\ \/ local[s].token = 0 /\ lock' = "free" /\ Goto(s, "search")
     \/ local[s].token # 0 /\ lock' = lock /\ Goto(s, "write")
  /\ UNCHANGED <<gen, token, file, tmp, fileRemoved, acked, since, found, crashes>>

Materialize(s) ==
  /\ at[s] = "write"
  /\ WriteTmp(s)
  /\ Goto(s, "rename")
  /\ UNCHANGED <<gen, token, file, mem, fileRemoved, lock, local, acked, since, found, crashes>>

Materialized(s) ==
  /\ at[s] = "rename"
  /\ Rename
  /\ fileRemoved' = (fileRemoved /\ tmp = NoFile)
  /\ lock' = "free"
  /\ Goto(s, "search")
  /\ UNCHANGED <<gen, token, mem, local, acked, since, found, crashes>>

\* searchVecCache; when the matrix has gone meanwhile, vec0 answers.
Search(s) ==
  /\ at[s] = "search" /\ lock = "free"
  /\ found' = [found EXCEPT ![s] = IF mem = Unloaded THEN gen ELSE mem]
  /\ Goto(s, "done")
  /\ UNCHANGED <<gen, token, file, tmp, mem, fileRemoved, lock, local, acked, since, crashes>>

EndSearch(s) ==
  /\ at[s] = "done"
  /\ Goto(s, "idle")
  /\ UNCHANGED <<gen, token, file, tmp, mem, fileRemoved, lock, local, acked, since, found, crashes>>

-----------------------------------------------------------------------------
\* The process dies and a new one opens the index: the files stay.
Crash ==
  /\ crashes < MaxCrashes
  /\ crashes' = crashes + 1
  /\ mem' = Unloaded /\ fileRemoved' = FALSE /\ lock' = "free"
  /\ at' = [t \in Threads |-> "idle"] /\ local' = [t \in Threads |-> NoFile]
  /\ UNCHANGED <<gen, token, file, tmp, acked, since, found>>

Next ==
  \/ Commit \/ Invalidate \/ Rebuild \/ Crash
  \/ \E s \in Searchers :
       \/ BeginSearch(s) \/ TakeLock(s) \/ LoadFile(s) \/ LoadRows(s)
       \/ Materialize(s) \/ Materialized(s) \/ Search(s) \/ EndSearch(s)

Spec == Init /\ [][Next]_vars

-----------------------------------------------------------------------------
\* A search that begins after a mutator has returned is answered from vectors
\* at least as new: "cache must be refreshed" (veccache_test.go).
ReadYourWrites == \A s \in Searchers : at[s] = "done" => found[s] >= since[s]

\* "A mutated index must not be served from a stale sidecar" (veccache.go):
\* with no mutation or rebuild under way, a sidecar whose token matches holds
\* the vectors of the index.  It is what the next process will believe.
SidecarBelievable ==
  at["writer"] = "idle" /\ at["rebuilder"] = "idle" /\ token # 0 /\ file.token = token
    => file.gen = gen

\* The same as long as no process died.
SidecarCurrent == crashes = 0 => SidecarBelievable
=============================================================================
