------------------------------- MODULE Watch -------------------------------
(***************************************************************************)
(* The background reindexer of `contextmaxxer mcp --watch`: startWatcher   *)
(* in cli/mcp.go, and the event loop of index/watch.go.  One goroutine     *)
(* runs a catch-up pass, registers the project's directories with          *)
(* fsnotify, and then selects on file events, a debounce timer and the     *)
(* completion of the pass it has in flight; each pass runs in a goroutine  *)
(* of its own.                                                             *)
(*                                                                         *)
(* A version of a file stands for its bytes: every create, write or        *)
(* removal moves it to the next version.  A pass visits the files one at a *)
(* time, in any order, and brings the index to the version it reads.  What *)
(* a pass does to the tables is the subject of module Indexer.             *)
(***************************************************************************)
EXTENDS Naturals, Sequences, FiniteSets

CONSTANTS
  Root,       \* the project root directory
  SubDirs,    \* directories below the root, created while the server runs
  Files,      \* source files, all of them with an extension Walker.Walk indexes
  DirOf,      \* the directory of each file
  OddCase,    \* files whose extension is not written in lower case (X.GO)
  MaxEdits,   \* bound on file system changes
  MaxFails,   \* bound on passes that end in an error
  CanCancel   \* whether the context may be cancelled (shutdown)

ASSUME DirAssumption  == DirOf \in [Files -> SubDirs \cup {Root}]
ASSUME OddAssumption  == OddCase \subseteq Files
ASSUME BoundAssumption == MaxEdits \in Nat /\ MaxFails \in Nat /\ CanCancel \in BOOLEAN

VARIABLES
  made,       \* directories that exist
  disk,       \* disk[f]: the version of f in the file system
  watched,    \* directories registered with fsnotify
  events,     \* w.Events, oldest first
  timer,      \* timerC is not nil
  running,    \* the loop's locals of the same names
  dirty,
  loop,       \* where the watcher goroutine is
  scans,      \* one element per pass in flight: the files it has still to visit
  done,       \* the done channel (capacity 1): whether each pass succeeded
  indexed,    \* indexed[f]: the version the index holds
  owed,       \* history: the last version of f announced to the loop
  due,        \* history: the last version of f written while the loop was running
  lost,       \* history: files a failed or cancelled pass had still to visit
  edits, fails

vars == <<made, disk, watched, events, timer, running, dirty, loop, scans,
          done, indexed, owed, due, lost, edits, fails>>

Dirs == SubDirs \cup {Root}
Event == [kind : {"dir"}, name : SubDirs] \cup [kind : {"file"}, name : Files]
Places == {"catchup", "register", "select", "stopped"}

FileEvent(f) == [kind |-> "file", name |-> f]
DirEvent(d) == [kind |-> "dir", name |-> d]

\* watchesExt looks the extension up in the indexer's table as it is written;
\* Walker.Walk lowers it first.
watchesExt(f) == f \notin OddCase

\* The catch-up pass is under way, every file still to be visited.
Init ==
  /\ made = {Root}
  /\ disk = [f \in Files |-> 0]
  /\ watched = {}
  /\ events = <<>>
  /\ timer = FALSE
  /\ running = FALSE /\ dirty = FALSE
  /\ loop = "catchup"
  /\ scans = <<Files>>
  /\ done = <<>>
  /\ indexed = disk
  /\ owed = disk
  /\ due = disk
  /\ lost = {}
  /\ edits = 0 /\ fails = 0

-----------------------------------------------------------------------------
(* The developer's editor.  fsnotify reports a change in a directory that  *)
(* is registered at that moment, and in no other.                          *)

EditFile(f) ==
  /\ edits < MaxEdits /\ DirOf[f] \in made
  /\ edits' = edits + 1
  /\ disk' = [disk EXCEPT ![f] = @ + 1]
  /\ due' = IF loop = "select" THEN [due EXCEPT ![f] = disk[f] + 1] ELSE due
  /\ \/ /\ DirOf[f] \in watched
        /\ events' = Append(events, FileEvent(f))
        /\ owed' = IF watchesExt(f) THEN [owed EXCEPT ![f] = disk[f] + 1] ELSE owed
     \/ /\ DirOf[f] \notin watched
        /\ UNCHANGED <<events, owed>>
  /\ UNCHANGED <<made, watched, timer, running, dirty, loop, scans, done,
                 indexed, lost, fails>>

MakeDir(d) ==
  /\ edits < MaxEdits /\ d \in SubDirs \ made
  /\ edits' = edits + 1
  /\ made' = made \cup {d}
  /\ events' = IF Root \in watched THEN Append(events, DirEvent(d)) ELSE events
  /\ UNCHANGED <<disk, watched, timer, running, dirty, loop, scans, done,
                 indexed, owed, due, lost, fails>>

-----------------------------------------------------------------------------
(* A pass: Indexer.Index, called by the reindex closure.                   *)

Without(s, i) == [j \in 1 .. Len(s) - 1 |-> IF j < i THEN s[j] ELSE s[j + 1]]

VisitFile(i, f) ==
  /\ f \in scans[i]
  /\ indexed' = [indexed EXCEPT ![f] = disk[f]]
  /\ scans' = [scans EXCEPT ![i] = @ \ {f}]
  /\ lost' = lost \ {f}
  /\ UNCHANGED <<made, disk, watched, events, timer, running, dirty, loop,
                 done, owed, due, edits, fails>>

\* The pass of a started goroutine returns: done <- reindex(ctx).  It returns
\* with an error when listing the files fails, and early when the context is
\* cancelled; either way what it had not visited stays as it was.
PassReturns(i, ok) ==
  /\ loop \in {"select", "stopped"}
  /\ Len(done) < 1
  /\ \/ ok /\ scans[i] = {} /\ UNCHANGED fails
     \/ ~ok /\ loop = "stopped" /\ UNCHANGED fails
     \/ ~ok /\ fails < MaxFails /\ fails' = fails + 1
  /\ done' = Append(done, ok)
  /\ lost' = lost \cup scans[i]
  /\ scans' = Without(scans, i)
  /\ UNCHANGED <<made, disk, watched, events, timer, running, dirty, loop,
                 indexed, owed, due, edits>>

-----------------------------------------------------------------------------
(* The watcher goroutine.                                                  *)

\* The catch-up pass runs inside the goroutine, before any directory is
\* registered; an error is logged and the watcher goes on.
CatchUpReturns(ok) ==
  /\ loop = "catchup"
  /\ \/ ok /\ scans[1] = {} /\ UNCHANGED fails
     \/ ~ok /\ fails < MaxFails /\ fails' = fails + 1
  /\ lost' = lost \cup scans[1]
  /\ scans' = <<>>
  /\ loop' = "register"
  /\ UNCHANGED <<made, disk, watched, events, timer, running, dirty, done,
                 indexed, owed, due, edits>>

\* addTree(root): WalkDir registers the root before it reads it, so a directory
\* made meanwhile is either found by the walk or announced by an event.
AddRoot ==
  /\ loop = "register" /\ Root \notin watched
  /\ watched' = watched \cup {Root}
  /\ UNCHANGED <<made, disk, events, timer, running, dirty, loop, scans, done,
                 indexed, owed, due, lost, edits, fails>>

AddSubDirs ==
  /\ loop = "register" /\ Root \in watched
  /\ watched' = watched \cup made
  /\ loop' = "select"
  /\ UNCHANGED <<made, disk, events, timer, running, dirty, scans, done,
                 indexed, owed, due, lost, edits, fails>>

\* arm(): the pending timer, if any, is replaced by a new one.
Arm == timer' = TRUE

\* start(): a new pass in a goroutine of its own.
Start ==
  /\ running' = TRUE
  /\ dirty' = FALSE
  /\ scans' = Append(scans, Files)

\* Mutant: whatever was created is registered, without asking whether it is a
\* directory.
DirCreatedUnchecked ==
  /\ loop = "select" /\ events # <<>>
  /\ events' = Tail(events)
  /\ watched' = watched \cup {Head(events).name}
  /\ UNCHANGED <<made, disk, timer, running, dirty, loop, scans, done,
                 indexed, owed, due, lost, edits, fails>>

\* case ev := <-w.Events, for a directory: register it and `continue`.
DirCreated ==
  /\ loop = "select" /\ events # <<>> /\ Head(events).kind = "dir"
  /\ events' = Tail(events)
  /\ watched' = watched \cup {Head(events).name}
  /\ UNCHANGED <<made, disk, timer, running, dirty, loop, scans, done,
                 indexed, owed, due, lost, edits, fails>>

\* Mutant: files with an unknown extension only, as a negated test would.
FileChangedInverted ==
  /\ loop = "select" /\ events # <<>> /\ Head(events).kind = "file"
  /\ events' = Tail(events)
  /\ IF watchesExt(Head(events).name) THEN UNCHANGED timer ELSE Arm
  /\ UNCHANGED <<made, disk, watched, running, dirty, loop, scans, done,
                 indexed, owed, due, lost, edits, fails>>

FileChanged ==
  /\ loop = "select" /\ events # <<>> /\ Head(events).kind = "file"
  /\ events' = Tail(events)
  /\ IF watchesExt(Head(events).name) THEN Arm ELSE UNCHANGED timer
  /\ UNCHANGED <<made, disk, watched, running, dirty, loop, scans, done,
                 indexed, owed, due, lost, edits, fails>>

\* Mutant: a pass is started although one is running.
TimerFiresAlways ==
  /\ loop = "select" /\ timer
  /\ timer' = FALSE
  /\ Start
  /\ UNCHANGED <<made, disk, watched, events, loop, done, indexed, owed, due,
                 lost, edits, fails>>

\* case <-timerC: one pass at a time; a change that settles while one is
\* running is remembered in dirty.
TimerFires ==
  /\ loop = "select" /\ timer
  /\ timer' = FALSE
  /\ \/ running /\ dirty' = TRUE /\ UNCHANGED <<running, scans>>
     \/ ~running /\ Start
  /\ UNCHANGED <<made, disk, watched, events, loop, done, indexed, owed, due,
                 lost, edits, fails>>

\* Mutant: the completion of a pass clears dirty without another pass.
PassDoneForgets ==
  /\ loop = "select" /\ done # <<>>
  /\ done' = Tail(done)
  /\ running' = FALSE /\ dirty' = FALSE /\ UNCHANGED scans
  /\ UNCHANGED <<made, disk, watched, events, timer, loop, indexed, owed, due,
                 lost, edits, fails>>

\* case err := <-done: an error is logged, and only dirty asks for another pass.
PassDone ==
  /\ loop = "select" /\ done # <<>>
  /\ done' = Tail(done)
  /\ \/ dirty /\ Start
     \/ ~dirty /\ running' = FALSE /\ UNCHANGED <<dirty, scans>>
  /\ UNCHANGED <<made, disk, watched, events, timer, loop, indexed, owed, due,
                 lost, edits, fails>>

\* case <-ctx.Done(): Watch returns; a pass in flight is not waited for.
Cancelled ==
  /\ CanCancel /\ loop = "select"
  /\ loop' = "stopped"
  /\ UNCHANGED <<made, disk, watched, events, timer, running, dirty, scans,
                 done, indexed, owed, due, lost, edits, fails>>

-----------------------------------------------------------------------------
Edit == (\E f \in Files : EditFile(f)) \/ (\E d \in SubDirs : MakeDir(d))

Loop ==
  \/ \E ok \in BOOLEAN : CatchUpReturns(ok)
  \/ AddRoot \/ AddSubDirs
  \/ DirCreated \/ FileChanged \/ TimerFires \/ PassDone

Pass ==
  \E i \in 1 .. Len(scans) :
     \/ \E f \in Files : VisitFile(i, f)
     \/ \E ok \in BOOLEAN : PassReturns(i, ok)

Next == Edit \/ Loop \/ Pass \/ Cancelled

Spec == Init /\ [][Next]_vars

\* The goroutines run, a timer that is set fires, and select takes each of its
\* ready cases sooner or later (the Go runtime picks among them at random).
\* Editing, failing and cancelling are nobody's duty.
Fairness ==
  /\ WF_vars(CatchUpReturns(TRUE)) /\ WF_vars(AddRoot) /\ WF_vars(AddSubDirs)
  /\ WF_vars(DirCreated) /\ WF_vars(FileChanged)
  /\ WF_vars(TimerFires) /\ WF_vars(PassDone)
  /\ \A i \in 1 .. 2 : /\ \A f \in Files : WF_vars(i \in DOMAIN scans /\ VisitFile(i, f))
                       /\ WF_vars(i \in DOMAIN scans /\ PassReturns(i, TRUE))

FairSpec == Spec /\ Fairness

-----------------------------------------------------------------------------
TypeOK ==
  /\ made \subseteq Dirs /\ watched \subseteq Dirs
  /\ disk \in [Files -> Nat] /\ indexed \in [Files -> Nat]
  /\ owed \in [Files -> Nat] /\ due \in [Files -> Nat]
  /\ events \in Seq(Event)
  /\ timer \in BOOLEAN /\ running \in BOOLEAN /\ dirty \in BOOLEAN
  /\ loop \in Places
  /\ scans \in Seq(SUBSET Files) /\ done \in Seq(BOOLEAN)
  /\ lost \subseteq Files
  /\ edits \in Nat /\ fails \in Nat

\* "Calls are single-flighted" (watch.go): at most one pass exists, counting
\* the one whose completion is still in the done channel, so two passes never
\* write the tables together and the send on done never blocks; and running
\* says so exactly.
SingleFlight ==
  /\ Len(scans) + Len(done) <= 1
  /\ loop \in {"select", "stopped"} => (running <=> Len(scans) + Len(done) = 1)

\* A change the loop was told of and the index does not hold has something
\* pending that will bring it in: its event, the debounce timer, the dirty flag
\* of a pass in flight, or a pass that has yet to visit the file.  The one way
\* to lose it is a pass that failed before visiting the file (logged, never
\* retried) with nothing announced since.
NoLostChange ==
  \A f \in Files : owed[f] > indexed[f] =>
     \/ \E i \in 1 .. Len(events) : events[i] = FileEvent(f)
     \/ timer
     \/ dirty /\ running
     \/ \E i \in 1 .. Len(scans) : f \in scans[i]
     \/ f \in lost

\* Every change announced to the loop reaches the index, however the changes,
\* the timer and the passes interleave, unless a pass fails on it or the server
\* is shut down.
AnnouncedReachesIndex ==
  \A f \in Files : \A v \in 1 .. MaxEdits :
    owed[f] = v ~> indexed[f] >= v \/ f \in lost \/ loop = "stopped"

\* What watch.go promises ("monitors root for source-file changes and calls
\* reindex"): every change made while the loop runs reaches the index.
WrittenReachesIndex ==
  \A f \in Files : \A v \in 1 .. MaxEdits : due[f] = v ~> indexed[f] >= v

\* What the --watch flag promises ("keeps the index fresh while you code"):
\* every change made since the server started reaches the index.
ServedStaysFresh ==
  \A f \in Files : \A v \in 1 .. MaxEdits : disk[f] = v ~> indexed[f] >= v
=============================================================================
