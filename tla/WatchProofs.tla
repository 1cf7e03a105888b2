---------------------------- MODULE WatchProofs ----------------------------
(***************************************************************************)
(* Safety of the watcher loop (module Watch), for every set of files and   *)
(* directories and every number of changes and failures.                   *)
(*                                                                         *)
(* SingleFlight and NoLostChange are not inductive.  What makes them so is *)
(* added in IInv: before the loop selects nothing can be pending           *)
(* (Starting), dirty is only up while a pass runs, a file that is not      *)
(* watched by its extension is never announced, and what was announced is  *)
(* never ahead of the disk.                                                *)
(***************************************************************************)
EXTENDS Watch, SequenceTheorems, TLAPS

Starting ==
  /\ loop = "catchup" => Len(scans) = 1 /\ done = <<>>
  /\ loop = "register" => scans = <<>> /\ done = <<>>
  /\ loop \in {"catchup", "register"} => ~running /\ ~dirty /\ ~timer

Announced ==
  \A f \in Files : owed[f] <= disk[f] /\ (f \in OddCase => owed[f] = 0)

IInv == TypeOK /\ Starting /\ (dirty => running) /\ SingleFlight /\ Announced
        /\ NoLostChange

\* Removing an element of a sequence of at most one leaves the empty sequence.
LEMMA WithoutOnly ==
  ASSUME NEW S, NEW s \in Seq(S), Len(s) = 1, NEW i \in 1 .. Len(s)
  PROVE  Without(s, i) = <<>>
  BY DEF Without

\* What Append and Tail do to membership in the event queue.
LEMMA AppendEvents ==
  ASSUME NEW S, NEW s \in Seq(S), NEW e \in S
  PROVE  /\ Append(s, e) \in Seq(S)
         /\ Len(Append(s, e)) = Len(s) + 1
         /\ Append(s, e)[Len(s) + 1] = e
         /\ \A i \in 1 .. Len(s) : Append(s, e)[i] = s[i]
  OBVIOUS

LEMMA TailEvents ==
  ASSUME NEW S, NEW s \in Seq(S), s # <<>>, NEW i \in 1 .. Len(s), s[i] # Head(s)
  PROVE  \E j \in 1 .. Len(Tail(s)) : Tail(s)[j] = s[i]
<1>1. i # 1 /\ i - 1 \in 1 .. Len(Tail(s))
  BY EmptySeq, HeadTailProperties
<1>2. Tail(s)[i - 1] = s[i]
  BY <1>1, HeadTailProperties
<1> QED BY <1>1, <1>2

LEMMA SumAtMostOne ==
  ASSUME NEW m \in Nat, NEW n \in Nat, m + n <= 1
  PROVE  (m # 0 => m = 1 /\ n = 0) /\ (n # 0 => n = 1 /\ m = 0)
  OBVIOUS

\* SingleFlight leaves room for one pass: in flight or done, not both.
LEMMA AtMostOne ==
  ASSUME IInv
  PROVE  /\ Len(scans) # 0 => Len(scans) = 1 /\ Len(done) = 0
         /\ Len(done) # 0 => Len(done) = 1 /\ Len(scans) = 0
<1>1. Len(scans) \in Nat /\ Len(done) \in Nat
  BY LenProperties DEF IInv, TypeOK
<1>2. Len(scans) + Len(done) <= 1
  BY DEF IInv, SingleFlight
<1> QED BY <1>1, <1>2, SumAtMostOne, Zenon

\* What the only pass in flight has still to visit are files.
LEMMA OnlyScan == ASSUME IInv, Len(scans) = 1 PROVE scans[1] \subseteq Files
<1>1. scans \in Seq(SUBSET Files) /\ 1 \in 1 .. Len(scans)
  BY DEF IInv, TypeOK
<1>2. scans[1] \in SUBSET Files
  BY <1>1, ElementOfSeq
<1> QED BY <1>2

LEMMA InitInv == Init => IInv
  <1> SUFFICES ASSUME Init PROVE IInv
    OBVIOUS
  <1>1. TypeOK
    <2>1. scans \in Seq(SUBSET Files) /\ events \in Seq(Event) /\ done \in Seq(BOOLEAN)
      BY EmptySeq DEF Init
    <2> QED BY <2>1 DEF Init, TypeOK, Dirs, Places
  <1>2. Starting /\ (dirty => running) /\ SingleFlight /\ Announced /\ NoLostChange
    BY DEF Init, Starting, SingleFlight, Announced, NoLostChange
  <1> QED BY <1>1, <1>2 DEF IInv

LEMMA EditFileInv == ASSUME IInv, NEW f \in Files, EditFile(f) PROVE IInv'
  <1> USE DEF IInv
  <1>1. events' \in Seq(Event) /\ \A i \in 1 .. Len(events) : i \in 1 .. Len(events') /\ events'[i] = events[i]
    <2>1. CASE events' = Append(events, FileEvent(f))
      <3>1. FileEvent(f) \in Event /\ events \in Seq(Event) /\ Len(events) \in Nat
        BY LenProperties DEF TypeOK, Event, FileEvent
      <3> QED BY <2>1, <3>1, AppendEvents
    <2>2. CASE events' = events
      BY <2>2 DEF TypeOK
    <2> QED BY <2>1, <2>2 DEF EditFile
  <1>2. TypeOK'
    <2>1. disk' \in [Files -> Nat] /\ due' \in [Files -> Nat] /\ edits' \in Nat
      BY DEF EditFile, TypeOK
    <2>2. owed' \in [Files -> Nat]
      <3>1. owed' = owed \/ owed' = [owed EXCEPT ![f] = disk[f] + 1]
        BY DEF EditFile
      <3>2. owed \in [Files -> Nat] /\ disk[f] + 1 \in Nat
        BY DEF TypeOK
      <3> QED BY <3>1, <3>2
    <2> QED BY <1>1, <2>1, <2>2 DEF EditFile, TypeOK
  <1>3. Starting' /\ (dirty => running)' /\ SingleFlight'
    BY DEF EditFile, Starting, SingleFlight
  <1>4. Announced'
    BY DEF EditFile, TypeOK, Announced, watchesExt
  <1>5. ASSUME NEW g \in Files, owed'[g] > indexed'[g]
        PROVE  \/ \E i \in 1 .. Len(events') : events'[i] = FileEvent(g)
               \/ timer' \/ (dirty' /\ running')
               \/ \E i \in 1 .. Len(scans') : g \in scans'[i]
               \/ g \in lost'
    <2>1. CASE owed'[g] = owed[g]
      BY <1>1, <1>5, <2>1 DEF EditFile, NoLostChange
    <2>2. CASE owed'[g] # owed[g]
      <3>1. g = f /\ events' = Append(events, FileEvent(f)) /\ FileEvent(f) \in Event
        BY <2>2 DEF EditFile, TypeOK, Event, FileEvent
      <3>2. Len(events) + 1 \in 1 .. Len(events') /\ events'[Len(events) + 1] = FileEvent(g)
        BY <3>1, AppendEvents DEF TypeOK
      <3> QED BY <3>2
    <2> QED BY <2>1, <2>2
  <1> QED BY <1>2, <1>3, <1>4, <1>5 DEF NoLostChange

LEMMA MakeDirInv == ASSUME IInv, NEW d \in SubDirs, MakeDir(d) PROVE IInv'
  <1> USE DEF IInv
  <1>1. events' \in Seq(Event) /\ \A i \in 1 .. Len(events) : i \in 1 .. Len(events') /\ events'[i] = events[i]
    BY AppendEvents DEF MakeDir, TypeOK, Event, DirEvent
  <1>2. TypeOK'
    BY <1>1 DEF MakeDir, TypeOK, Dirs
  <1>3. Starting' /\ (dirty => running)' /\ SingleFlight' /\ Announced'
    BY DEF MakeDir, Starting, SingleFlight, Announced
  <1>4. NoLostChange'
    BY <1>1 DEF MakeDir, NoLostChange
  <1> QED BY <1>2, <1>3, <1>4

LEMMA VisitFileInv ==
  ASSUME IInv, NEW i \in 1 .. Len(scans), NEW f \in Files, VisitFile(i, f) PROVE IInv'
  <1> USE DEF IInv
  <1>1. /\ scans' \in Seq(SUBSET Files) /\ Len(scans') = Len(scans)
        /\ \A j \in 1 .. Len(scans) : scans'[j] = IF j = i THEN scans[i] \ {f} ELSE scans[j]
    <2>1. scans \in Seq(SUBSET Files) /\ scans[i] \ {f} \in SUBSET Files
      BY ElementOfSeq DEF TypeOK
    <2> QED BY <2>1, ExceptSeq DEF VisitFile
  <1>2. TypeOK'
    BY <1>1 DEF VisitFile, TypeOK
  <1>3. Starting' /\ (dirty => running)' /\ SingleFlight'
    BY <1>1, EmptySeq DEF VisitFile, Starting, SingleFlight, TypeOK
  <1>4. Announced'
    BY DEF VisitFile, Announced
  <1>5. ASSUME NEW g \in Files, owed'[g] > indexed'[g]
        PROVE  \/ \E j \in 1 .. Len(events') : events'[j] = FileEvent(g)
               \/ timer' \/ (dirty' /\ running')
               \/ \E j \in 1 .. Len(scans') : g \in scans'[j]
               \/ g \in lost'
    <2>1. g # f
      BY <1>5 DEF VisitFile, Announced, TypeOK
    <2>2. owed[g] > indexed[g]
      BY <1>5, <2>1 DEF VisitFile, TypeOK
    <2> QED BY <1>1, <2>1, <2>2 DEF VisitFile, NoLostChange
  <1> QED BY <1>2, <1>3, <1>4, <1>5 DEF NoLostChange

\* A pass that ends leaves the files it had not visited to lost.
LEMMA PassReturnsInv ==
  ASSUME IInv, NEW i \in 1 .. Len(scans), NEW ok \in BOOLEAN, PassReturns(i, ok) PROVE IInv'
  <1> USE DEF IInv
  <1>1. Len(scans) = 1 /\ i = 1 /\ Len(done) = 0 /\ done = <<>>
    <2>1. Len(scans) # 0
      BY LenProperties DEF TypeOK
    <2>2. Len(scans) = 1 /\ Len(done) = 0
      BY <2>1, AtMostOne, Zenon
    <2>3. i = 1
      BY <2>2
    <2>4. done = <<>>
      BY <2>2, EmptySeq DEF TypeOK
    <2> QED BY <2>2, <2>3, <2>4
  <1>2. scans' = <<>>
    BY <1>1, WithoutOnly DEF PassReturns, TypeOK
  <1>3. done' = <<ok>>
    BY <1>1 DEF PassReturns
  <1>4. scans[1] \subseteq Files /\ lost' = lost \cup scans[1]
    BY <1>1, OnlyScan DEF PassReturns
  <1>5. TypeOK'
    <2>1. scans' \in Seq(SUBSET Files) /\ done' \in Seq(BOOLEAN) /\ lost' \subseteq Files
      BY <1>2, <1>3, <1>4, EmptySeq DEF TypeOK
    <2>2. fails' \in Nat
      BY DEF PassReturns, TypeOK
    <2> QED BY <2>1, <2>2 DEF PassReturns, TypeOK
  <1>6. Starting' /\ (dirty => running)' /\ SingleFlight' /\ Announced'
    BY <1>1, <1>2, <1>3 DEF PassReturns, Starting, SingleFlight, Announced
  <1>7. NoLostChange'
    BY <1>1, <1>4 DEF PassReturns, NoLostChange
  <1> QED BY <1>5, <1>6, <1>7

LEMMA CatchUpReturnsInv ==
  ASSUME IInv, NEW ok \in BOOLEAN, CatchUpReturns(ok) PROVE IInv'
  <1> USE DEF IInv
  <1>1. Len(scans) = 1 /\ done = <<>>
    BY DEF CatchUpReturns, Starting
  <1>2. scans[1] \subseteq Files
    BY <1>1, OnlyScan
  <1>3. TypeOK'
    <2>1. scans' \in Seq(SUBSET Files) /\ lost' \subseteq Files
      BY <1>2, EmptySeq DEF CatchUpReturns, TypeOK
    <2>2. fails' \in Nat
      BY DEF CatchUpReturns, TypeOK
    <2> QED BY <2>1, <2>2 DEF CatchUpReturns, TypeOK, Places
  <1>4. Starting' /\ (dirty => running)' /\ SingleFlight' /\ Announced'
    BY <1>1 DEF CatchUpReturns, Starting, SingleFlight, Announced
  <1>5. NoLostChange'
    BY <1>1 DEF CatchUpReturns, NoLostChange
  <1> QED BY <1>3, <1>4, <1>5

LEMMA AddRootInv == ASSUME IInv, AddRoot PROVE IInv'
  BY DEF IInv, AddRoot, TypeOK, Dirs, Starting, SingleFlight, Announced, NoLostChange

LEMMA AddSubDirsInv == ASSUME IInv, AddSubDirs PROVE IInv'
  <1> USE DEF IInv
  <1>1. scans = <<>> /\ done = <<>> /\ ~running /\ ~dirty
    BY DEF AddSubDirs, Starting
  <1>2. TypeOK'
    BY DEF AddSubDirs, TypeOK, Places
  <1>3. Starting' /\ (dirty => running)' /\ SingleFlight' /\ Announced' /\ NoLostChange'
    BY <1>1 DEF AddSubDirs, Starting, SingleFlight, Announced, NoLostChange
  <1> QED BY <1>2, <1>3

\* An event that leaves the queue is a directory's, so no change waits on it.
LEMMA DirCreatedInv == ASSUME IInv, DirCreated PROVE IInv'
  <1> USE DEF IInv
  <1>1. events \in Seq(Event) /\ events # <<>> /\ Head(events) \in Event /\ Tail(events) \in Seq(Event)
    BY HeadTailProperties DEF DirCreated, TypeOK
  <1>2. TypeOK'
    BY <1>1 DEF DirCreated, TypeOK, Event, Dirs
  <1>3. Starting' /\ (dirty => running)' /\ SingleFlight' /\ Announced'
    BY DEF DirCreated, Starting, SingleFlight, Announced
  <1>4. ASSUME NEW g \in Files, NEW i \in 1 .. Len(events), events[i] = FileEvent(g)
        PROVE  \E j \in 1 .. Len(events') : events'[j] = FileEvent(g)
    <2>1. Head(events) # FileEvent(g)
      BY DEF DirCreated, FileEvent
    <2> QED BY <1>1, <1>4, <2>1, TailEvents DEF DirCreated
  <1>5. NoLostChange'
    BY <1>4 DEF DirCreated, NoLostChange
  <1> QED BY <1>2, <1>3, <1>5

\* A file's event arms the timer unless its extension is not watched, and then
\* nothing was announced for it.
LEMMA FileChangedInv == ASSUME IInv, FileChanged PROVE IInv'
  <1> USE DEF IInv
  <1>1. events \in Seq(Event) /\ events # <<>> /\ Head(events) \in Event /\ Tail(events) \in Seq(Event)
    BY HeadTailProperties DEF FileChanged, TypeOK
  <1>2. TypeOK'
    BY <1>1 DEF FileChanged, TypeOK, Arm
  <1>3. Starting' /\ (dirty => running)' /\ SingleFlight' /\ Announced'
    BY DEF FileChanged, Starting, SingleFlight, Announced, Arm
  <1>4. ASSUME NEW g \in Files, owed'[g] > indexed'[g], ~timer'
        PROVE  \/ \E j \in 1 .. Len(events') : events'[j] = FileEvent(g)
               \/ dirty' /\ running'
               \/ \E j \in 1 .. Len(scans') : g \in scans'[j]
               \/ g \in lost'
    <2>1. owed[g] > indexed[g] /\ ~timer
      BY <1>4 DEF FileChanged, Arm
    <2>2. g \notin OddCase
      BY <2>1 DEF Announced, TypeOK
    <2>3. Head(events) # FileEvent(g)
      BY <1>4, <2>2 DEF FileChanged, FileEvent, Arm, watchesExt
    <2>4. ASSUME NEW i \in 1 .. Len(events), events[i] = FileEvent(g)
          PROVE  \E j \in 1 .. Len(events') : events'[j] = FileEvent(g)
      BY <1>1, <2>3, <2>4, TailEvents DEF FileChanged
    <2> QED BY <2>1, <2>4 DEF FileChanged, NoLostChange
  <1> QED BY <1>2, <1>3, <1>4 DEF NoLostChange

\* After start() every file is still to be visited by the new pass.
LEMMA StartPending ==
  ASSUME IInv, scans = <<>>, Start
  PROVE  /\ scans' = <<Files>> /\ scans' \in Seq(SUBSET Files)
         /\ Len(scans') = 1 /\ scans'[1] = Files /\ running' /\ ~dirty'
<1>1. scans' = <<Files>>
  BY DEF Start
<1> QED BY <1>1 DEF Start

LEMMA TimerFiresInv == ASSUME IInv, TimerFires PROVE IInv'
  <1> USE DEF IInv
  <1>1. CASE running /\ dirty' = TRUE /\ UNCHANGED <<running, scans>>
    BY <1>1 DEF TimerFires, TypeOK, Starting, SingleFlight, Announced, NoLostChange
  <1>2. CASE ~running /\ Start
    <2>1. Len(scans) \in Nat /\ Len(done) \in Nat
      BY LenProperties DEF TypeOK
    <2>2. Len(scans) = 0 /\ Len(done) = 0
      BY <1>2, <2>1 DEF TimerFires, SingleFlight
    <2>3. scans = <<>> /\ done = <<>>
      BY <2>2, EmptySeq DEF TypeOK
    <2>4. /\ scans' \in Seq(SUBSET Files) /\ Len(scans') = 1 /\ scans'[1] = Files
          /\ running' = TRUE /\ dirty' = FALSE
      BY <1>2, <2>3, StartPending DEF Start
    <2>5. TypeOK'
      BY <2>4 DEF TimerFires, TypeOK
    <2>6. Starting' /\ (dirty => running)' /\ SingleFlight' /\ Announced'
      BY <2>2, <2>4 DEF TimerFires, Starting, SingleFlight, Announced
    <2>7. NoLostChange'
      BY <2>4 DEF NoLostChange
    <2> QED BY <2>5, <2>6, <2>7
  <1> QED BY <1>1, <1>2 DEF TimerFires

LEMMA PassDoneInv == ASSUME IInv, PassDone PROVE IInv'
  <1> USE DEF IInv
  <1>1. Len(done) # 0
    BY EmptySeq DEF PassDone, TypeOK
  <1>2. Len(scans) = 0 /\ Len(done) = 1
    BY <1>1, AtMostOne
  <1>3. scans = <<>>
    BY <1>2, EmptySeq DEF TypeOK
  <1>4. done' \in Seq(BOOLEAN) /\ Len(done') = 0
    BY <1>2, HeadTailProperties DEF PassDone, TypeOK
  <1>5. CASE dirty /\ Start
    <2>1. /\ scans' \in Seq(SUBSET Files) /\ Len(scans') = 1 /\ scans'[1] = Files
          /\ running' = TRUE /\ dirty' = FALSE
      BY <1>3, <1>5, StartPending DEF Start
    <2>2. TypeOK'
      BY <1>4, <2>1 DEF PassDone, TypeOK
    <2>3. Starting' /\ (dirty => running)' /\ SingleFlight' /\ Announced'
      BY <1>4, <2>1 DEF PassDone, Starting, SingleFlight, Announced
    <2>4. NoLostChange'
      BY <2>1 DEF NoLostChange
    <2> QED BY <2>2, <2>3, <2>4
  <1>6. CASE ~dirty /\ running' = FALSE /\ UNCHANGED <<dirty, scans>>
    <2>1. TypeOK'
      BY <1>4, <1>6 DEF PassDone, TypeOK
    <2>2. Starting' /\ (dirty => running)' /\ SingleFlight' /\ Announced'
      BY <1>2, <1>4, <1>6 DEF PassDone, Starting, SingleFlight, Announced
    <2>3. NoLostChange'
      BY <1>6 DEF PassDone, NoLostChange
    <2> QED BY <2>1, <2>2, <2>3
  <1> QED BY <1>5, <1>6 DEF PassDone

LEMMA CancelledInv == ASSUME IInv, Cancelled PROVE IInv'
  BY DEF IInv, Cancelled, TypeOK, Places, Starting, SingleFlight, Announced, NoLostChange

LEMMA StutterInv == ASSUME IInv, UNCHANGED vars PROVE IInv'
  BY DEF IInv, vars, TypeOK, Starting, SingleFlight, Announced, NoLostChange

LEMMA NextInv == IInv /\ [Next]_vars => IInv'
  <1> SUFFICES ASSUME IInv, [Next]_vars PROVE IInv'
    OBVIOUS
  <1>1. CASE Edit
    BY <1>1, EditFileInv, MakeDirInv DEF Edit
  <1>2. CASE Loop
    BY <1>2, CatchUpReturnsInv, AddRootInv, AddSubDirsInv, DirCreatedInv, FileChangedInv,
       TimerFiresInv, PassDoneInv DEF Loop
  <1>3. CASE Pass
    BY <1>3, VisitFileInv, PassReturnsInv DEF Pass
  <1>4. CASE Cancelled
    BY <1>4, CancelledInv
  <1>5. CASE UNCHANGED vars
    BY <1>5, StutterInv
  <1> QED BY <1>1, <1>2, <1>3, <1>4, <1>5 DEF Next

THEOREM Invariance == Spec => []IInv
  <1>1. Init => IInv
    BY InitInv
  <1>2. IInv /\ [Next]_vars => IInv'
    BY NextInv
  <1> QED BY <1>1, <1>2, PTL DEF Spec

\* The types of the watcher's state hold in every behaviour.
THEOREM TypeCorrect == Spec => []TypeOK
  <1>1. IInv => TypeOK
    BY DEF IInv
  <1> QED BY <1>1, Invariance, PTL

\* At most one reindex pass exists at any time, and the send on the done
\* channel never blocks, for any number of changes, failures and files.
THEOREM OnePassAtATime == Spec => []SingleFlight
  <1>1. IInv => SingleFlight
    BY DEF IInv
  <1> QED BY <1>1, Invariance, PTL

\* A change the loop was told of is never forgotten unless a pass failed.
THEOREM NothingForgotten == Spec => []NoLostChange
  <1>1. IInv => NoLostChange
    BY DEF IInv
  <1> QED BY <1>1, Invariance, PTL
=============================================================================
