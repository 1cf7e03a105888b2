------------------------------- MODULE Enrich -------------------------------
(***************************************************************************)
(* The enrich command (cli/enrich.go, enrich/enrich.go): one-sentence      *)
(* summaries of the indexed symbols, asked of a language model by several  *)
(* workers and kept in synthetic-docs.json, from where the next index run  *)
(* takes them.  A run reads the file once, keeps a map under a mutex, and  *)
(* writes the whole map every SaveEvery answers and at the end.            *)
(*                                                                         *)
(* Runs may be cancelled or die, a read of the file, a request or a write  *)
(* may fail, and the agent of the host may fill in summaries itself        *)
(* (--emit-pending).                                                       *)
(***************************************************************************)
EXTENDS Naturals, Sequences, SequencesExt, FiniteSets

CONSTANTS
  Symbols,    \* qualified names of the symbols to enrich, by file and line
  Limits,     \* what --limit may be; 0 is no limit
  Workers,    \* --concurrency
  SaveEvery,  \* 25
  AgentNames, \* names the agent writes summaries of
  AgentBeside,\* whether the agent may write while a run is under way
  Failures,   \* bound on failures
  Endings,    \* bound on cancellations and deaths
  MaxRuns, MaxEdits  \* bounds on runs and on summaries of the agent

Names == ToSet(Symbols)
ASSUME EnrichAssumption ==
  /\ {SaveEvery, Failures, Endings, MaxRuns, MaxEdits} \subseteq Nat /\ SaveEvery > 0 /\ Limits \subseteq Nat
  /\ Symbols \in Seq(STRING) /\ AgentBeside \in BOOLEAN
  /\ IsFiniteSet(Workers) /\ Workers # {} /\ "none" \notin Workers

VARIABLES
  file,      \* synthetic-docs.json: the symbol whose summary a name has, 0 for
             \* none, Len(Symbols) + 1 for one the agent wrote
  tmp,       \* synthetic-docs.json.tmp
  pending,   \* the names of pending-docs.json
  at,        \* where RunEnrich is
  sidecar,   \* its map
  todo,      \* the places in Symbols it has still to hand out, in order
  worker,    \* worker[w]: what w does, "ready", "ask", "save" or "ended", and
             \* about which symbol
  mutex,     \* the worker that writes the file under the mutex, or "none"
  answered,  \* done + failed
  cancelled,
  unsaved,   \* history: answers since the file was last written, or a write failed
  blind,     \* history: whether the run could not read the file
  failures, endings, runs, edits

vars == <<file, tmp, pending, at, sidecar, todo, worker, mutex, answered, cancelled, unsaved, blind,
          failures, endings, runs, edits>>

Nothing == [n \in Names |-> 0]
Ready == [w \in Workers |-> [at |-> "ready", of |-> 0]]

NoLocals ==
  /\ sidecar = Nothing /\ todo = {} /\ worker = Ready /\ mutex = "none"
  /\ answered = 0 /\ cancelled = FALSE /\ unsaved = 0 /\ blind = FALSE

\* What a run keeps in memory is gone with it.
Forget ==
  /\ sidecar' = Nothing /\ todo' = {} /\ worker' = Ready /\ mutex' = "none"
  /\ answered' = 0 /\ cancelled' = FALSE /\ unsaved' = 0 /\ blind' = FALSE

Init ==
  /\ file = Nothing /\ tmp = Nothing /\ pending = {}
  /\ at = "off" /\ NoLocals
  /\ failures = 0 /\ endings = 0 /\ runs = 0 /\ edits = 0

-----------------------------------------------------------------------------
(* Choosing what to ask.                                                   *)

\* The map is what is in the file.  One that cannot be read is taken for one
\* that is not there.
\* Mutant: with --force the old map is not read.
LoadSidecarUnforced(force, reads) == IF reads /\ ~force THEN file ELSE Nothing
LoadSidecar(force, reads) == IF reads THEN file ELSE Nothing

ReadsOrFails(reads) == reads \/ failures < Failures
Counted(reads) == failures + (IF reads THEN 0 ELSE 1)

\* The places in Symbols that have no summary in the map, or all with --force;
\* the first of them if there is a limit.
Todo(map, force, limit) ==
  LET open == {i \in DOMAIN Symbols : force \/ map[Symbols[i]] = 0}
  IN {i \in open : limit = 0 \/ Cardinality({k \in open : k <= i}) <= limit}

RunEnrich(force, limit, reads) ==
  /\ at = "off" /\ runs < MaxRuns /\ runs' = runs + 1
  /\ ReadsOrFails(reads) /\ failures' = Counted(reads) /\ blind' = ~reads
  /\ sidecar' = LoadSidecar(force, reads)
  /\ LET places == Todo(LoadSidecar(force, reads), force, limit) IN places # {} /\ todo' = places
  /\ at' = "dispatch"
  /\ worker' = Ready /\ answered' = 0 /\ cancelled' = FALSE /\ unsaved' = 0
  /\ UNCHANGED <<file, tmp, pending, mutex, endings, edits>>

EmitPending(limit, reads) ==
  /\ at = "off" /\ ReadsOrFails(reads) /\ failures' = Counted(reads)
  /\ LET places == Todo(LoadSidecar(FALSE, reads), FALSE, limit)
     IN places # {} /\ pending' = {Symbols[i] : i \in places}
  /\ UNCHANGED <<file, tmp, at, sidecar, todo, worker, mutex, answered, cancelled, unsaved, blind,
                 endings, runs, edits>>

-----------------------------------------------------------------------------
(* The workers.                                                            *)

\* jobs is unbuffered: a symbol is handed out when a worker is there for it.
Dispatch(w) ==
  /\ at = "dispatch" /\ worker[w].at = "ready"
  /\ \E i \in todo : /\ \A k \in todo : i <= k
                    /\ worker' = [worker EXCEPT ![w] = [at |-> "ask", of |-> i]] /\ todo' = todo \ {i}
  /\ UNCHANGED <<file, tmp, pending, at, sidecar, mutex, answered, cancelled, unsaved, blind,
                 failures, endings, runs, edits>>

CloseJobs ==
  /\ at = "dispatch" /\ (todo = {} \/ cancelled)
  /\ at' = "wait"
  /\ UNCHANGED <<file, tmp, pending, sidecar, todo, worker, mutex, answered, cancelled, unsaved, blind,
                 failures, endings, runs, edits>>

\* The model answers, or the request fails (of a cancelled run it always
\* does); every SaveEvery-th time the worker goes on to save.
Summarized(w, ok) ==
  /\ worker[w].at = "ask" /\ mutex = "none"
  /\ ok => ~cancelled
  /\ ~ok => cancelled \/ failures < Failures
  /\ failures' = failures + (IF ok \/ cancelled THEN 0 ELSE 1)
  /\ sidecar' = IF ok THEN [sidecar EXCEPT ![Symbols[worker[w].of]] = worker[w].of] ELSE sidecar
  /\ answered' = answered + 1 /\ unsaved' = unsaved + 1
  /\ worker' = [worker EXCEPT ![w] = [at |-> IF (answered + 1) % SaveEvery = 0 THEN "save" ELSE "ready", of |-> 0]]
  /\ UNCHANGED <<file, tmp, pending, at, todo, mutex, cancelled, blind, endings, runs, edits>>

\* writeSidecar: the map to the temporary file, then a rename.
LockAndWriteTmp(w) ==
  /\ worker[w].at = "save" /\ mutex = "none"
  /\ mutex' = w /\ tmp' = sidecar
  /\ UNCHANGED <<file, pending, at, sidecar, todo, worker, answered, cancelled, unsaved, blind,
                 failures, endings, runs, edits>>

RenameTmp(w) ==
  /\ mutex = w /\ worker[w].at = "save" /\ mutex' = "none"
  /\ file' = tmp /\ tmp' = Nothing /\ unsaved' = 0
  /\ worker' = [worker EXCEPT ![w].at = "ready"]
  /\ UNCHANGED <<pending, at, sidecar, todo, answered, cancelled, blind,
                 failures, endings, runs, edits>>

\* A save on the way that fails is not looked at.
SaveFails(w) ==
  /\ mutex = w /\ worker[w].at = "save" /\ mutex' = "none"
  /\ failures < Failures /\ failures' = failures + 1
  /\ unsaved' = 0
  /\ worker' = [worker EXCEPT ![w].at = "ready"]
  /\ UNCHANGED <<file, tmp, pending, at, sidecar, todo, answered, cancelled, blind, endings, runs, edits>>

\* The range over a closed channel ends.
WorkerEnds(w) ==
  /\ at = "wait" /\ worker[w].at = "ready"
  /\ worker' = [worker EXCEPT ![w].at = "ended"]
  /\ UNCHANGED <<file, tmp, pending, at, sidecar, todo, mutex, answered, cancelled, unsaved, blind,
                 failures, endings, runs, edits>>

AllEnded == at = "wait" /\ \A w \in Workers : worker[w].at = "ended"

FinalWrite ==
  /\ AllEnded
  /\ at' = "rename" /\ tmp' = sidecar
  /\ UNCHANGED <<file, pending, sidecar, todo, worker, mutex, answered, cancelled, unsaved, blind,
                 failures, endings, runs, edits>>

FinalRename ==
  /\ at = "rename"
  /\ at' = "off" /\ file' = tmp /\ tmp' = Nothing /\ Forget
  /\ UNCHANGED <<pending, failures, endings, runs, edits>>

FinalSaveFails ==
  /\ at = "rename" /\ failures < Failures /\ failures' = failures + 1
  /\ at' = "off" /\ Forget
  /\ UNCHANGED <<file, tmp, pending, endings, runs, edits>>

-----------------------------------------------------------------------------
Cancel ==
  /\ at \in {"dispatch", "wait"} /\ ~cancelled /\ endings < Endings
  /\ cancelled' = TRUE /\ endings' = endings + 1
  /\ UNCHANGED <<file, tmp, pending, at, sidecar, todo, worker, mutex, answered, unsaved, blind,
                 failures, runs, edits>>

Dies ==
  /\ at # "off" /\ endings < Endings /\ endings' = endings + 1
  /\ at' = "off" /\ Forget
  /\ UNCHANGED <<file, tmp, pending, failures, runs, edits>>

\* The agent writes the summary of a pending name into the file.
AgentWrites(n) ==
  /\ n \in pending /\ (AgentBeside \/ at = "off") /\ edits < MaxEdits
  /\ file' = [file EXCEPT ![n] = Len(Symbols) + 1]
  /\ pending' = pending \ {n} /\ edits' = edits + 1
  /\ UNCHANGED <<tmp, at, sidecar, todo, worker, mutex, answered, cancelled, unsaved, blind,
                 failures, endings, runs>>

Works(w) ==
  \/ Dispatch(w) \/ Summarized(w, TRUE) \/ Summarized(w, FALSE)
  \/ LockAndWriteTmp(w) \/ RenameTmp(w) \/ SaveFails(w) \/ WorkerEnds(w)

Next ==
  \/ \E limit \in Limits, reads \in BOOLEAN :
       EmitPending(limit, reads) \/ \E force \in BOOLEAN : RunEnrich(force, limit, reads)
  \/ \E w \in Workers : Works(w)
  \/ CloseJobs \/ FinalWrite \/ FinalRename \/ FinalSaveFails
  \/ Cancel \/ Dies
  \/ \E n \in AgentNames : AgentWrites(n)

\* Goroutines that can run do, and a request ends by its timeout.
Fairness == WF_vars(CloseJobs) /\ WF_vars(FinalWrite) /\ WF_vars(FinalRename)
            /\ \A w \in Workers : WF_vars(Works(w))

Spec == Init /\ [][Next]_vars /\ Fairness
-----------------------------------------------------------------------------
(* Properties.                                                             *)

\* A name that has a summary in the file keeps one, whatever runs fail, die
\* or are forced ("partial runs": none undoes an earlier one), but for a run
\* that could not read the file.
SummariesKept == [][blind \/ \A n \in Names : file[n] # 0 => file'[n] # 0]_vars

\* A run that has ended, cancelled or not, has saved every answer it got.
EndedIsSaved ==
  [][at = "rename" /\ at' = "off" /\ <<endings, failures>>' = <<endings, failures>> => file' = sidecar]_vars

\* As long as no write fails, what a death can lose is bounded, although
\* other workers go on while one is about to save.
LossBounded == unsaved <= SaveEvery * Cardinality(Workers)

\* A run ends, also one that is cancelled while its workers are at it.
RunEnds == at = "dispatch" ~> at = "off"

-----------------------------------------------------------------------------
(* What the code does not keep.                                            *)

\* The same of every run: one that could not read the file writes over it.
KeptThoughUnread == [][\A n \in Names : file[n] # 0 => file'[n] # 0]_vars

\* What the agent wrote is still there while the run that did not know of it
\* goes on (enrich.go: "the agent fills the sidecar itself").
AgentKept ==
  [][\A n \in Names : file[n] = Len(Symbols) + 1 => file'[n] # 0]_vars

\* The summary a symbol is given was made of that symbol and not of another
\* one of its name.
OwnSummary == \A i \in DOMAIN Symbols : file[Symbols[i]] \in {0, i, Len(Symbols) + 1}

=============================================================================
