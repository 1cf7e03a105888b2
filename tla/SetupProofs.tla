---------------------------- MODULE SetupProofs ----------------------------
(***************************************************************************)
(* What the commands before the server keep, for every plan of             *)
(* installation, every list of symbols, whatever files the hosts of the    *)
(* user have, and any number of processes and workers: what is installed   *)
(* is whole when the processes take turns, no enrichment undoes what       *)
(* another one saved, and init leaves the user what is the user's.         *)
(***************************************************************************)
EXTENDS Setup, Integers, FiniteSetTheorems, TLAPS

LEMMA Given == I!InstallAssumption
BY SetupGiven

-----------------------------------------------------------------------------
(* The installation, of processes that take turns.                         *)

ModelFiles == I!ToSet(Models)
UnpackLib == I!Unpack("lib", "runtime.archive")
InitLib == [do |-> "init", from |-> "lib", to |-> "lib"]
OpenLib == [do |-> "open", from |-> "lib", to |-> "lib"]
Unpacks == {UnpackLib, I!Unpack("providers_shared", "runtime.archive"), I!Unpack("providers_cuda", "runtime.archive"),
            I!Unpack("DirectML", "companion.archive")}
Fetches == {I!Fetch(f) : f \in I!Archives \union ModelFiles}
Drops == {I!Drop(a) : a \in I!Archives}
Steps == Fetches \union Unpacks \union Drops \union {InitLib, OpenLib}

\* Steps that can be taken one after the other by a process that holds some
\* archives: each is there when it is unpacked and dropped in the end, and the
\* library is the first of its archive to be unpacked.
Planned(st, held) ==
  /\ st \in Seq(Steps) /\ held \subseteq I!Archives
  /\ \A i \in 1 .. Len(st) : st[i] \in Unpacks =>
       /\ st[i].from \in held \/ \E j \in 1 .. i - 1 : st[j] = I!Fetch(st[i].from)
       /\ \A j \in 1 .. i - 1 : st[j] # I!Drop(st[i].from) /\ st[j] # st[i]
  /\ \A a \in held : \E j \in 1 .. Len(st) : st[j] = I!Drop(a)
  /\ \A i \in 1 .. Len(st) : \A a \in I!Archives : st[i] = I!Fetch(a) => \E j \in i + 1 .. Len(st) : st[j] = I!Drop(a)
  /\ \A i \in 1 .. Len(st) : st[i] \in {InitLib, OpenLib} => Len(st) = 1
  /\ \A i \in 1 .. Len(st) : st[i] = UnpackLib =>
       \A f \in I!ToSet(I!Extras) : \E j \in i + 1 .. Len(st) : st[j] = I!Unpack(f, "runtime.archive")
  /\ \A i, j \in 1 .. Len(st) : \A f \in I!ToSet(I!Extras) :
       i < j /\ st[i] \in Fetches /\ st[j] = I!Unpack(f, "runtime.archive") => \E k \in i + 1 .. Len(st) : st[k] = UnpackLib

PlannedGoal(g) ==
  /\ g.unless \subseteq I!Libraries \union ModelFiles /\ Planned(g.steps, {})
  /\ g.unless # {} => /\ InitLib \notin I!ToSet(g.steps) /\ OpenLib \notin I!ToSet(g.steps)
                      /\ \A s \in I!ToSet(g.steps) \intersect Unpacks : s.to \in g.unless

AtWork(p) == job[p].at # "off"
Copies(p, f) == job[p].at = "copy" /\ I!Step(p).to = f
InSteps(p, s) == s \in I!ToSet(job[p].steps)
InTodo(p, s) == \E i \in 1 .. Len(job[p].todo) : s \in I!ToSet(job[p].todo[i].steps)
Ahead(p, s) == AtWork(p) /\ (InSteps(p, s) \/ InTodo(p, s))

Chunk == {"good", "bad", "hole"}
Goals == [unless : SUBSET I!Paths, steps : Seq(Steps)]
Jobs == [at : {"off", "run", "write", "copy"}, todo : Seq(Goals), steps : Seq(Steps),
         out : Nat, in : Nat, off : Nat, stream : {"good", "bad"}, held : SUBSET I!Archives,
         result : {"none", "failed", "dead", "ready"}]

InstallTypeOK ==
  /\ data \in Seq(Seq(Chunk))
  /\ files \in [I!Paths -> 0 .. Len(data)] /\ parts \in [I!Paths -> 0 .. Len(data)]
  /\ job \in [Processes -> Jobs]
  /\ cutFiles \subseteq I!Paths /\ deaths \in Nat

\* No inode has two names.
Distinct ==
  \A f, g \in I!Paths : /\ files[f] # 0 /\ files[f] = files[g] => f = g
                        /\ parts[f] # 0 /\ parts[f] = parts[g] => f = g
                        /\ files[f] # 0 => files[f] # parts[g]

OneWorks == \A p, q \in Processes : AtWork(p) /\ AtWork(q) => p = q

\* What p has still to do.
PlanOf(p) ==
  IF AtWork(p)
  THEN /\ job[p].result = "none"
       /\ Planned(job[p].steps, job[p].held)
       /\ \A i \in 1 .. Len(job[p].todo) :
            /\ PlannedGoal(job[p].todo[i])
            /\ i > 1 \/ job[p].steps # <<>> => I!ToSet(job[p].todo[i].steps) \intersect Unpacks = {}
            /\ OpenLib \in I!ToSet(job[p].todo[i].steps) => i = Len(job[p].todo)
       /\ InSteps(p, OpenLib) => job[p].todo = <<>>
       /\ job[p].at = "write" => job[p].steps # <<>> /\ I!Step(p) \in Fetches
       /\ job[p].at = "copy" => job[p].steps # <<>> /\ I!Step(p) \in Unpacks
  ELSE job[p].steps = <<>> /\ job[p].held = {}

\* What p has written of a file so far, and the archive it reads.
Written(i, n, s) == data[i] = [c \in 1 .. n |-> s]
DataOf(p) ==
  /\ job[p].at \in {"write", "copy"} => job[p].off <= Chunks /\ job[p].out # 0
  /\ job[p].at = "write" => parts[I!Step(p).to] = job[p].out /\ Written(job[p].out, job[p].off, job[p].stream)
  /\ job[p].at = "copy" => /\ files[I!Step(p).to] = job[p].out /\ Written(job[p].out, job[p].off, "good")
                           /\ files[I!Step(p).from] = job[p].in /\ I!Step(p).from \in job[p].held
  /\ \A a \in job[p].held : I!Whole(a)

\* The library is only unpacked where there is none, and what p needs is there
\* or will be.
LibOf(p) ==
  AtWork(p) => /\ Ahead(p, UnpackLib) => ~I!Present("lib") \/ Copies(p, "lib")
               /\ I!Whole("lib") \/ Ahead(p, InitLib)
               /\ \A f \in I!ToSet(I!Companions) : I!Present(f) \/ Ahead(p, I!Unpack(f, "companion.archive"))

JobsInv == \A p \in Processes : PlanOf(p) /\ DataOf(p) /\ LibOf(p)

\* What comes with the library is whole, unless it is being unpacked or was cut
\* off.
ExtrasInv ==
  I!Present("lib") => \A f \in I!ToSet(I!Extras) :
    f \in cutFiles \/ I!Whole(f) \/ \E p \in Processes : AtWork(p) /\ InSteps(p, I!Unpack(f, "runtime.archive"))
CompanionsInv ==
  \A f \in I!ToSet(I!Companions) : I!Present(f) => f \in cutFiles \/ I!Whole(f) \/ \E p \in Processes : Copies(p, f)

\* Once a session is given out, nothing is unpacked any more.
ReadyInv ==
  \A p \in Processes : job[p].result = "ready" =>
    /\ I!Whole("lib") /\ \A f \in I!ToSet(I!Companions) : I!Present(f)
    /\ \A q \in Processes : AtWork(q) => \A s \in Unpacks : ~InSteps(q, s) /\ ~InTodo(q, s)
    /\ machine.asked \in {"cuda", "directml"} => machine.attaches

\* Who has a .tmp file or an archive; a .tmp may also have been left.
CleanInv ==
  deaths = 0 => /\ \A f \in I!Paths : parts[f] # 0 => f \in stranded \/ \E p \in Processes : job[p].at = "write" /\ I!Step(p).to = f
                /\ \A a \in I!Archives : I!Present(a) => \E p \in Processes : a \in job[p].held

InstallInv ==
  /\ InstallTypeOK /\ Distinct /\ OneWorks /\ JobsInv
  /\ I!DownloadsWhole /\ ExtrasInv /\ CompanionsInv /\ ReadyInv /\ CleanInv

-----------------------------------------------------------------------------
(* The plans.                                                              *)

\* Extras come with CUDA, a companion with DirectML.
LEMMA Plans ==
  \/ I!Extras = <<>> /\ I!Companions = <<>>
  \/ I!Extras = <<"providers_shared", "providers_cuda">> /\ I!Companions = <<>>
  \/ I!Extras = <<>> /\ I!Companions = <<"DirectML">>
BY DEF I!Extras, I!Companions

LEMMA ExtrasAre ==
  /\ I!ToSet(I!Extras) \subseteq {"providers_shared", "providers_cuda"}
  /\ I!ToSet(I!Companions) \subseteq {"DirectML"}
  /\ I!ToSet(I!Extras) = {} \/ I!ToSet(I!Companions) = {}
BY Plans DEF I!ToSet

LEMMA InRange == ASSUME NEW S, NEW st \in Seq(S) PROVE I!ToSet(st) = {st[i] : i \in 1 .. Len(st)}
BY DEF I!ToSet

LEMMA StepsDiffer ==
  /\ \A s \in Fetches : s.do = "fetch" /\ s = I!Fetch(s.to) /\ s.to \in I!Archives \union ModelFiles
  /\ \A s \in Unpacks : s.do = "unpack" /\ s.to \in I!Libraries /\ s.from \in I!Archives /\ s = I!Unpack(s.to, s.from)
  /\ \A s \in Drops : s.do = "drop" /\ s = I!Drop(s.to) /\ s.to \in I!Archives
  /\ InitLib.do = "init" /\ OpenLib.do = "open"
BY DEF Fetches, I!Fetch, Unpacks, I!Unpack, UnpackLib, Drops, I!Drop, InitLib, OpenLib, I!Libraries, I!Archives

\* The step that is done goes.
LEMMA TailIs ==
  ASSUME NEW S, NEW st \in Seq(S), st # <<>>
  PROVE  /\ Tail(st) \in Seq(S) /\ Len(st) >= 1 /\ Len(Tail(st)) = Len(st) - 1 /\ Head(st) = st[1] /\ st[1] \in S
         /\ \A i \in 1 .. Len(st) - 1 : Tail(st)[i] = st[i + 1]
         /\ I!ToSet(st) = {Head(st)} \union I!ToSet(Tail(st))
<1>1. /\ Tail(st) \in Seq(S) /\ Len(st) >= 1 /\ Len(Tail(st)) = Len(st) - 1 /\ Head(st) = st[1] /\ st[1] \in S
      /\ \A i \in 1 .. Len(st) - 1 : Tail(st)[i] = st[i + 1]
  OBVIOUS
<1>2. I!ToSet(st) = {st[i] : i \in 1 .. Len(st)} /\ I!ToSet(Tail(st)) = {Tail(st)[i] : i \in 1 .. Len(st) - 1}
  BY <1>1, InRange, ZenonT(40)
<1>3. I!ToSet(st) \subseteq {Head(st)} \union I!ToSet(Tail(st))
  <2>1. SUFFICES ASSUME NEW i \in 1 .. Len(st), i # 1 PROVE st[i] \in I!ToSet(Tail(st))
    BY <1>1, <1>2
  <2>2. i - 1 \in 1 .. Len(st) - 1 /\ Tail(st)[i - 1] = st[i]
    BY <1>1, <2>1
  <2>3. QED
    BY <1>2, <2>2
<1>4. {Head(st)} \union I!ToSet(Tail(st)) \subseteq I!ToSet(st)
  BY <1>1, <1>2
<1>5. QED
  BY <1>1, <1>3, <1>4

\* The archives a process holds after a step.
HeldAfter(held, s) ==
  IF s \in Fetches THEN held \union ({s.to} \intersect I!Archives) ELSE IF s \in Drops THEN held \ {s.to} ELSE held

LEMMA PlannedTail ==
  ASSUME NEW st, NEW held, Planned(st, held), st # <<>>
  PROVE  /\ Planned(Tail(st), HeldAfter(held, Head(st)))
         /\ Head(st) \in Unpacks => Head(st) \notin I!ToSet(Tail(st))
<1> DEFINE t == Tail(st)
           rest == HeldAfter(held, Head(st))
<1>0. rest = IF Head(st) \in Fetches THEN held \union ({Head(st).to} \intersect I!Archives)
             ELSE IF Head(st) \in Drops THEN held \ {Head(st).to} ELSE held
  BY DEF HeldAfter
<1>1. /\ t \in Seq(Steps) /\ Len(st) >= 1 /\ Len(t) = Len(st) - 1 /\ Head(st) = st[1] /\ st[1] \in Steps
      /\ \A i \in 1 .. Len(t) : t[i] = st[i + 1] /\ i + 1 \in 1 .. Len(st)
      /\ st \in Seq(Steps)
  BY TailIs DEF Planned
<1> HIDE DEF rest
<1>2. rest \subseteq I!Archives
  BY <1>0 DEF Planned
<1> HIDE DEF t
<1>3. ASSUME NEW i \in 1 .. Len(t), t[i] \in Unpacks
      PROVE  /\ t[i].from \in rest \/ \E j \in 1 .. i - 1 : t[j] = I!Fetch(t[i].from)
             /\ \A j \in 1 .. i - 1 : t[j] # I!Drop(t[i].from) /\ t[j] # t[i]
  <2>1. /\ t[i].from \in held \/ \E j \in 1 .. i : st[j] = I!Fetch(t[i].from)
        /\ \A j \in 1 .. i : st[j] # I!Drop(t[i].from) /\ st[j] # t[i]
    <3>1. i + 1 \in 1 .. Len(st) /\ st[i + 1] = t[i] /\ 1 .. (i + 1) - 1 = 1 .. i
      BY <1>1
    <3>2. \A k \in 1 .. Len(st) : st[k] \in Unpacks =>
            /\ st[k].from \in held \/ \E j \in 1 .. k - 1 : st[j] = I!Fetch(st[k].from)
            /\ \A j \in 1 .. k - 1 : st[j] # I!Drop(st[k].from) /\ st[j] # st[k]
      BY DEF Planned
    <3>3. QED
      BY <1>3, <3>1, <3>2
  <2>2. t[i].from \in I!Archives
    BY <1>3, StepsDiffer
  <2>3. t[i].from \in held => t[i].from \in rest
    <3>1. st[1] # I!Drop(t[i].from)
      BY <2>1
    <3>2. st[1] \in Drops => st[1].to # t[i].from
      BY <3>1, StepsDiffer
    <3>3. QED
      BY <1>1, <1>0, <3>2
  <2>4. ASSUME NEW j \in 1 .. i, st[j] = I!Fetch(t[i].from)
        PROVE  t[i].from \in rest \/ \E k \in 1 .. i - 1 : t[k] = I!Fetch(t[i].from)
    <3>1. CASE j = 1
      <4>1. st[1] \in Fetches /\ st[1].to = t[i].from
        BY <2>2, <2>4, <3>1 DEF Fetches, I!Fetch
      <4>2. QED
        BY <1>1, <1>0, <2>2, <4>1
    <3>2. CASE j # 1
      <4>1. j - 1 \in 1 .. i - 1 /\ t[j - 1] = st[j]
        BY <1>1, <3>2
      <4>2. QED
        BY <2>4, <4>1
    <3>3. QED
      BY <3>1, <3>2
  <2>5. \A j \in 1 .. i - 1 : t[j] = st[j + 1] /\ j + 1 \in 1 .. i
    BY <1>1, SMTT(40)
  <2>6. QED
    BY <2>1, <2>3, <2>4, <2>5
<1>4. ASSUME NEW a \in rest
      PROVE  \E j \in 1 .. Len(t) : t[j] = I!Drop(a)
  <2>1. PICK j \in 2 .. Len(st) : st[j] = I!Drop(a)
    <3>1. CASE a \in held
      <4>1. PICK j \in 1 .. Len(st) : st[j] = I!Drop(a)
        BY <3>1 DEF Planned
      <4>2. j # 1
        <5>1. SUFFICES ASSUME st[1] = I!Drop(a) PROVE FALSE
          BY <4>1
        <5>2. a \in I!Archives
          BY <1>2, <1>4
        <5>3. st[1] \in Drops /\ st[1].to = a /\ st[1].do = "drop"
          BY <5>1, <5>2 DEF Drops, I!Drop
        <5>4. st[1] \notin Fetches
          BY <5>3, StepsDiffer
        <5>5. QED
          BY <1>1, <1>4, <1>0, <5>3, <5>4
      <4>3. QED
        BY <4>1, <4>2
    <3>2. CASE a \notin held
      <4>1. Head(st) \in Fetches /\ a = Head(st).to /\ a \in I!Archives
        BY <1>4, <1>0, <3>2
      <4>2. st[1] = I!Fetch(a)
        BY <1>1, <4>1, StepsDiffer
      <4>3. \E j \in 1 + 1 .. Len(st) : st[j] = I!Drop(a)
        BY <1>1, <4>1, <4>2 DEF Planned
      <4>4. QED
        BY <4>3
    <3>3. QED
      BY <3>1, <3>2
  <2>2. j - 1 \in 1 .. Len(t) /\ t[j - 1] = st[j]
    BY <1>1
  <2>3. QED
    BY <2>1, <2>2
<1>5. \A i \in 1 .. Len(t) : \A j \in (i + 1) + 1 .. Len(st) : j - 1 \in i + 1 .. Len(t) /\ t[j - 1] = st[j]
  BY <1>1
<1>6. ASSUME NEW i \in 1 .. Len(t), NEW a \in I!Archives, t[i] = I!Fetch(a)
      PROVE  \E j \in i + 1 .. Len(t) : t[j] = I!Drop(a)
  <2>1. \E j \in (i + 1) + 1 .. Len(st) : st[j] = I!Drop(a)
    BY <1>1, <1>6 DEF Planned
  <2>2. QED
    BY <1>5, <2>1
<1>7. \A i \in 1 .. Len(t) : t[i] \notin {InitLib, OpenLib}
  BY <1>1 DEF Planned
<1>8. ASSUME NEW i \in 1 .. Len(t), NEW f \in I!ToSet(I!Extras), t[i] = UnpackLib
      PROVE  \E j \in i + 1 .. Len(t) : t[j] = I!Unpack(f, "runtime.archive")
  <2>1. \E j \in (i + 1) + 1 .. Len(st) : st[j] = I!Unpack(f, "runtime.archive")
    BY <1>1, <1>8 DEF Planned
  <2>2. QED
    BY <1>5, <2>1
<1>9. ASSUME NEW i \in 1 .. Len(t), NEW j \in 1 .. Len(t), NEW f \in I!ToSet(I!Extras),
             i < j, t[i] \in Fetches, t[j] = I!Unpack(f, "runtime.archive")
      PROVE  \E k \in i + 1 .. Len(t) : t[k] = UnpackLib
  <2>1. \E k \in (i + 1) + 1 .. Len(st) : st[k] = UnpackLib
    <3>1. /\ i + 1 \in 1 .. Len(st) /\ j + 1 \in 1 .. Len(st) /\ i + 1 < j + 1
          /\ st[i + 1] \in Fetches /\ st[j + 1] = I!Unpack(f, "runtime.archive")
      <4>1. i + 1 \in 1 .. Len(st) /\ j + 1 \in 1 .. Len(st) /\ t[i] = st[i + 1] /\ t[j] = st[j + 1]
        BY <1>1
      <4>2. i + 1 < j + 1
        BY <1>1, <1>9
      <4>3. QED
        BY <1>9, <4>1, <4>2
    <3>2. \A x, y \in 1 .. Len(st) : \A g \in I!ToSet(I!Extras) :
            x < y /\ st[x] \in Fetches /\ st[y] = I!Unpack(g, "runtime.archive") =>
              \E k \in x + 1 .. Len(st) : st[k] = UnpackLib
      BY DEF Planned
    <3>3. QED
      BY <3>1, <3>2
  <2>2. QED
    BY <1>5, <2>1
<1>10. Planned(t, rest)
  BY <1>1, <1>2, <1>3, <1>4, <1>6, <1>7, <1>8, <1>9 DEF Planned
<1>11. ASSUME st[1] \in Unpacks PROVE st[1] \notin I!ToSet(t)
  <2>1. SUFFICES ASSUME NEW i \in 1 .. Len(t), t[i] = st[1] PROVE FALSE
    BY <1>1, InRange
  <2>2. i + 1 \in 1 .. Len(st) /\ st[i + 1] = st[1] /\ 1 \in 1 .. (i + 1) - 1
    BY <1>1, <2>1
  <2>3. QED
    BY <1>11, <2>2 DEF Planned
<1>12. QED
  BY <1>1, <1>10, <1>11 DEF t, rest

LEMMA FlattenOne == ASSUME NEW s PROVE I!FlattenSeq(<<s>>) = s
<1> DEFINE Flat(f) == [i \in 1 .. Len(<<s>>) |-> IF i = 1 THEN <<s>>[i] ELSE f[i - 1] \o <<s>>[i]]
<1>1. \E f : f = Flat(f)
  <2>1. [i \in 1 .. Len(<<s>>) |-> s] = Flat([i \in 1 .. Len(<<s>>) |-> s])
    OBVIOUS
  <2>2. QED
    BY <2>1
<1>2. ASSUME NEW f, f = Flat(f) PROVE f[Len(<<s>>)] = s
  <2>1. f[1] = Flat(f)[1]
    BY <1>2
  <2>2. QED
    BY <2>1
<1>3. (CHOOSE f : f = Flat(f))[Len(<<s>>)] = s
  <2> HIDE DEF Flat
  <2>1. QED
    BY <1>1, <1>2
<1>4. I!FlattenSeq(<<s>>) = (CHOOSE f : f = Flat(f))[Len(<<s>>)]
  BY DEF I!FlattenSeq
<1>5. QED
  BY <1>3, <1>4

\* Short sequences, put together.
LEMMA Appends ==
  ASSUME NEW S, NEW s \in Seq(S), NEW c \in S
  PROVE  s \o <<c>> = Append(s, c) /\ \A t \in Seq(S) : s \o Append(t, c) = Append(s \o t, c)
OBVIOUS

LEMMA Append2 ==
  ASSUME NEW a, NEW b
  PROVE  Append(<<a>>, b) = <<a, b>>
<1>1. Append(<<a>>, b) = [i \in 1 .. 2 |-> IF i = 2 THEN b ELSE <<a>>[i]]
  OBVIOUS
<1>2. 1 .. 2 = {1, 2}
  OBVIOUS
<1>3. <<a, b>> = [i \in 1 .. 2 |-> IF i = 2 THEN b ELSE <<a>>[i]]
  BY <1>2
<1>4. QED
  BY <1>1, <1>3

LEMMA Append3 ==
  ASSUME NEW a, NEW b, NEW c
  PROVE  Append(<<a, b>>, c) = <<a, b, c>>
<1>1. Append(<<a, b>>, c) = [i \in 1 .. 3 |-> IF i = 3 THEN c ELSE <<a, b>>[i]]
  OBVIOUS
<1>2. 1 .. 3 = {1, 2, 3}
  OBVIOUS
<1>3. <<a, b, c>> = [i \in 1 .. 3 |-> IF i = 3 THEN c ELSE <<a, b>>[i]]
  BY <1>2
<1>4. QED
  BY <1>1, <1>3

LEMMA Append4 ==
  ASSUME NEW a, NEW b, NEW c, NEW d
  PROVE  Append(<<a, b, c>>, d) = <<a, b, c, d>>
<1>1. Append(<<a, b, c>>, d) = [i \in 1 .. 4 |-> IF i = 4 THEN d ELSE <<a, b, c>>[i]]
  OBVIOUS
<1>2. 1 .. 4 = {1, 2, 3, 4}
  OBVIOUS
<1>3. <<a, b, c, d>> = [i \in 1 .. 4 |-> IF i = 4 THEN d ELSE <<a, b, c>>[i]]
  BY <1>2
<1>4. QED
  BY <1>1, <1>3

LEMMA Append5 ==
  ASSUME NEW a, NEW b, NEW c, NEW d, NEW e
  PROVE  Append(<<a, b, c, d>>, e) = <<a, b, c, d, e>>
<1>1. Append(<<a, b, c, d>>, e) = [i \in 1 .. 5 |-> IF i = 5 THEN e ELSE <<a, b, c, d>>[i]]
  OBVIOUS
<1>2. 1 .. 5 = {1, 2, 3, 4, 5}
  OBVIOUS
<1>3. <<a, b, c, d, e>> = [i \in 1 .. 5 |-> IF i = 5 THEN e ELSE <<a, b, c, d>>[i]]
  BY <1>2
<1>4. QED
  BY <1>1, <1>3

LEMMA Append6 ==
  ASSUME NEW a, NEW b, NEW c, NEW d, NEW e, NEW f
  PROVE  Append(<<a, b, c, d, e>>, f) = <<a, b, c, d, e, f>>
<1>1. Append(<<a, b, c, d, e>>, f) = [i \in 1 .. 6 |-> IF i = 6 THEN f ELSE <<a, b, c, d, e>>[i]]
  OBVIOUS
<1>2. 1 .. 6 = {1, 2, 3, 4, 5, 6}
  OBVIOUS
<1>3. <<a, b, c, d, e, f>> = [i \in 1 .. 6 |-> IF i = 6 THEN f ELSE <<a, b, c, d, e>>[i]]
  BY <1>2
<1>4. QED
  BY <1>1, <1>3

LEMMA TwoAndTwo ==
  ASSUME NEW S, NEW a \in S, NEW b \in S, NEW c \in S, NEW d \in S
  PROVE  <<a, b>> \o <<c, d>> = <<a, b, c, d>>
<1>1. <<a, b>> \in Seq(S) /\ <<c>> \in Seq(S)
  OBVIOUS
<1>2. <<a, b>> \o <<c>> = Append(<<a, b>>, c)
  BY <1>1, Appends
<1>3. <<a, b>> \o Append(<<c>>, d) = Append(<<a, b>> \o <<c>>, d)
  BY <1>1, Appends
<1>4. Append(<<c>>, d) = <<c, d>> /\ Append(<<a, b>>, c) = <<a, b, c>> /\ Append(<<a, b, c>>, d) = <<a, b, c, d>>
  BY Append2, Append3, Append4
<1>5. QED
  BY <1>2, <1>3, <1>4

LEMMA TwoAndThree ==
  ASSUME NEW S, NEW a \in S, NEW b \in S, NEW c \in S, NEW d \in S, NEW e \in S
  PROVE  <<a, b>> \o <<c, d, e>> = <<a, b, c, d, e>>
<1>1. <<a, b>> \in Seq(S) /\ <<c, d>> \in Seq(S)
  OBVIOUS
<1>2. <<a, b>> \o Append(<<c, d>>, e) = Append(<<a, b>> \o <<c, d>>, e)
  BY <1>1, Appends
<1>3. <<a, b>> \o <<c, d>> = <<a, b, c, d>>
  BY TwoAndTwo
<1>4. QED
  BY <1>2, <1>3, Append3, Append5

LibFetched == <<I!Fetch("runtime.archive"), UnpackLib>>
Cpu == <<I!Fetch("runtime.archive"), UnpackLib, I!Drop("runtime.archive")>>
Cuda == <<I!Fetch("runtime.archive"), UnpackLib, I!Unpack("providers_shared", "runtime.archive"),
          I!Unpack("providers_cuda", "runtime.archive"), I!Drop("runtime.archive")>>
DirectML == <<I!Fetch("runtime.archive"), UnpackLib, I!Fetch("companion.archive"), I!Unpack("DirectML", "companion.archive"),
              I!Drop("companion.archive"), I!Drop("runtime.archive")>>
Companion == <<I!Fetch("companion.archive"), I!Unpack("DirectML", "companion.archive"), I!Drop("companion.archive")>>

LEMMA StepsIn ==
  /\ I!Fetch("runtime.archive") \in Steps /\ I!Fetch("companion.archive") \in Steps
  /\ I!Drop("runtime.archive") \in Steps /\ I!Drop("companion.archive") \in Steps
  /\ UnpackLib \in Steps /\ I!Unpack("providers_shared", "runtime.archive") \in Steps
  /\ I!Unpack("providers_cuda", "runtime.archive") \in Steps /\ I!Unpack("DirectML", "companion.archive") \in Steps
BY DEF Steps, Fetches, Unpacks, Drops, I!Archives

\* The goals ensureRuntime sets, written out.
LEMMA RuntimeGoalsAre ==
  \/ I!RuntimeGoals = <<>> /\ I!Present("lib") /\ \A f \in I!ToSet(I!Companions) : I!Present(f)
  \/ I!RuntimeGoals = <<I!Goal({}, Cpu)>> /\ ~I!Present("lib") /\ I!Extras = <<>> /\ I!Companions = <<>>
  \/ /\ I!RuntimeGoals = <<I!Goal({}, Cuda)>> /\ ~I!Present("lib")
     /\ I!Extras = <<"providers_shared", "providers_cuda">> /\ I!Companions = <<>>
  \/ I!RuntimeGoals = <<I!Goal({}, DirectML)>> /\ ~I!Present("lib") /\ I!Extras = <<>> /\ I!Companions = <<"DirectML">>
  \/ I!RuntimeGoals = <<I!Goal({"DirectML"}, Companion)>> /\ I!Present("lib") /\ I!Extras = <<>> /\ I!Companions = <<"DirectML">>
<1>1. CASE I!Present("lib") /\ \A f \in I!ToSet(I!Companions) : I!Present(f)
  BY <1>1 DEF I!RuntimeGoals
<1>2. CASE I!Present("lib") /\ ~ \A f \in I!ToSet(I!Companions) : I!Present(f)
  <2>1. I!Companions = <<"DirectML">> /\ I!Extras = <<>>
    BY <1>2, Plans DEF I!ToSet
  <2>2. I!RuntimeGoals = [i \in DOMAIN I!Companions |-> I!Goal({I!Companions[i]}, I!FetchCompanion(I!Companions[i]))]
    BY <1>2 DEF I!RuntimeGoals
  <2>3. I!RuntimeGoals = <<I!Goal({"DirectML"}, I!FetchCompanion("DirectML"))>>
    <3>1. DOMAIN I!Companions = {1} /\ I!Companions[1] = "DirectML"
      BY <2>1
    <3>2. I!RuntimeGoals = [i \in {1} |-> I!Goal({"DirectML"}, I!FetchCompanion("DirectML"))]
      BY <2>2, <3>1
    <3>3. <<I!Goal({"DirectML"}, I!FetchCompanion("DirectML"))>> = [i \in {1} |-> I!Goal({"DirectML"}, I!FetchCompanion("DirectML"))]
      OBVIOUS
    <3>4. QED
      BY <3>2, <3>3
  <2>4. QED
    BY <1>2, <2>1, <2>3 DEF I!FetchCompanion, Companion
<1>3. CASE ~I!Present("lib")
  <2> DEFINE extras == [i \in DOMAIN I!Extras |-> I!Unpack(I!Extras[i], "runtime.archive")]
             companions == [i \in DOMAIN I!Companions |-> I!FetchCompanion(I!Companions[i])]
  <2>1. I!RuntimeGoals = <<I!Goal({}, LibFetched \o extras \o I!FlattenSeq(companions) \o <<I!Drop("runtime.archive")>>)>>
    BY <1>3 DEF I!RuntimeGoals, LibFetched, UnpackLib
  <2>2. I!Companions = <<>> => I!FlattenSeq(companions) = <<>>
    <3>1. SUFFICES ASSUME I!Companions = <<>> PROVE I!FlattenSeq(companions) = <<>>
      OBVIOUS
    <3>2. companions = <<>> /\ I!FlattenSeq(<<>>) = <<>>
      BY <3>1 DEF I!FlattenSeq
    <3>3. QED
      BY <3>2
  <2>3. I!Companions = <<"DirectML">> => I!FlattenSeq(companions) = Companion
    <3>1. SUFFICES ASSUME I!Companions = <<"DirectML">> PROVE I!FlattenSeq(companions) = Companion
      OBVIOUS
    <3>2. companions = <<Companion>>
      BY <3>1 DEF I!FetchCompanion, Companion
    <3>3. QED
      BY <3>2, FlattenOne
  <2>4. I!Extras = <<>> => extras = <<>>
    OBVIOUS
  <2>5. I!Extras = <<"providers_shared", "providers_cuda">> =>
          extras = <<I!Unpack("providers_shared", "runtime.archive"), I!Unpack("providers_cuda", "runtime.archive")>>
    OBVIOUS
  <2> HIDE DEF extras, companions
  <2>6. CASE I!Extras = <<>> /\ I!Companions = <<>>
    <3>1. LibFetched \o extras \o I!FlattenSeq(companions) \o <<I!Drop("runtime.archive")>> = Cpu
      <4>1. LibFetched \in Seq(Steps) /\ LibFetched \o <<>> = LibFetched
        BY StepsIn DEF LibFetched
      <4>2. LibFetched \o <<I!Drop("runtime.archive")>> = Append(LibFetched, I!Drop("runtime.archive"))
        BY <4>1, StepsIn, Appends
      <4>3. Append(LibFetched, I!Drop("runtime.archive")) = Cpu
        BY Append3 DEF LibFetched, Cpu
      <4>4. QED
        BY <2>2, <2>4, <2>6, <4>1, <4>2, <4>3
    <3>2. QED
      BY <1>3, <2>1, <2>6, <3>1
  <2>7. CASE I!Extras = <<"providers_shared", "providers_cuda">> /\ I!Companions = <<>>
    <3>1. LibFetched \o extras \o I!FlattenSeq(companions) \o <<I!Drop("runtime.archive")>> = Cuda
      <4> DEFINE four == <<I!Fetch("runtime.archive"), UnpackLib, I!Unpack("providers_shared", "runtime.archive"),
                           I!Unpack("providers_cuda", "runtime.archive")>>
      <4>1. LibFetched \o extras = four
        <5>1. extras = <<I!Unpack("providers_shared", "runtime.archive"), I!Unpack("providers_cuda", "runtime.archive")>>
          BY <2>5, <2>7
        <5>2. LibFetched \o <<I!Unpack("providers_shared", "runtime.archive"), I!Unpack("providers_cuda", "runtime.archive")>> = four
          BY StepsIn, TwoAndTwo DEF LibFetched
        <5>3. QED
          BY <5>1, <5>2
      <4>2. four \in Seq(Steps) /\ four \o <<>> = four
        BY StepsIn
      <4>3. four \o <<I!Drop("runtime.archive")>> = Append(four, I!Drop("runtime.archive"))
        BY <4>2, StepsIn, Appends
      <4>4. Append(four, I!Drop("runtime.archive")) = Cuda
        BY Append5 DEF Cuda
      <4> HIDE DEF four
      <4>5. QED
        BY <2>2, <2>7, <4>1, <4>2, <4>3, <4>4
    <3>2. QED
      BY <1>3, <2>1, <2>7, <3>1
  <2>8. CASE I!Extras = <<>> /\ I!Companions = <<"DirectML">>
    <3>1. LibFetched \o extras \o I!FlattenSeq(companions) \o <<I!Drop("runtime.archive")>> = DirectML
      <4> DEFINE five == <<I!Fetch("runtime.archive"), UnpackLib, I!Fetch("companion.archive"),
                           I!Unpack("DirectML", "companion.archive"), I!Drop("companion.archive")>>
      <4>1. LibFetched \in Seq(Steps) /\ LibFetched \o <<>> = LibFetched
        BY StepsIn DEF LibFetched
      <4>2. LibFetched \o Companion = five
        BY StepsIn, TwoAndThree DEF LibFetched, Companion
      <4>3. five \in Seq(Steps)
        BY StepsIn
      <4>4. five \o <<I!Drop("runtime.archive")>> = Append(five, I!Drop("runtime.archive"))
        BY <4>3, StepsIn, Appends
      <4>5. Append(five, I!Drop("runtime.archive")) = DirectML
        BY Append6 DEF DirectML
      <4> HIDE DEF five
      <4>6. QED
        BY <2>3, <2>4, <2>8, <4>1, <4>2, <4>4, <4>5
    <3>2. QED
      BY <1>3, <2>1, <2>8, <3>1
  <2>9. QED
    BY <2>6, <2>7, <2>8, Plans
<1>4. QED
  BY <1>1, <1>2, <1>3

\* They are planned.
LEMMA OneStepPlanned ==
  ASSUME NEW s \in {I!Fetch(f) : f \in ModelFiles} \union {InitLib, OpenLib}
  PROVE  Planned(<<s>>, {})
<1>1. <<s>> \in Seq(Steps) /\ Len(<<s>>) = 1 /\ <<s>>[1] = s
  BY DEF Steps, Fetches
<1>2. s \notin Unpacks /\ \A a \in I!Archives : s # I!Fetch(a)
  BY Given, StepsDiffer DEF I!InstallAssumption, I!Fetch, ModelFiles, I!Archives, Fetches, InitLib, OpenLib
<1>3. \A f : s # I!Unpack(f, "runtime.archive")
  BY DEF I!Fetch, I!Unpack, InitLib, OpenLib
<1>4. QED
  BY <1>1, <1>2, <1>3 DEF Planned, UnpackLib

LEMMA CpuPlanned == I!Extras = <<>> => Planned(Cpu, {})
<1> DEFINE st == Cpu
<1>1. /\ st \in Seq(Steps) /\ Len(st) = 3 /\ 1 .. 3 = {1, 2, 3}
      /\ st[1] = I!Fetch("runtime.archive") /\ st[2] = UnpackLib /\ st[3] = I!Drop("runtime.archive")
  BY DEF Cpu, Steps, Fetches, Unpacks, Drops, I!Archives
<1> HIDE DEF st
<1>2. \A i \in 1 .. Len(st) : st[i] \in Unpacks => i = 2
  BY <1>1, StepsDiffer DEF I!Fetch, I!Drop
<1>3. /\ \A i \in 1 .. Len(st) : \A a \in I!Archives : st[i] = I!Fetch(a) => i = 1 /\ a = "runtime.archive"
      /\ \A i \in 1 .. Len(st) : st[i] \notin {InitLib, OpenLib}
  BY <1>1 DEF I!Fetch, I!Drop, UnpackLib, I!Unpack, InitLib, OpenLib
<1>4. st[2] \in Unpacks /\ UnpackLib.from = "runtime.archive" /\ st[1] # UnpackLib /\ st[1] # I!Drop("runtime.archive")
  BY <1>1 DEF Unpacks, I!Fetch, I!Drop, UnpackLib, I!Unpack
<1>5. \A i \in 1 .. Len(st) : st[i] \in Unpacks =>
        /\ st[i].from \in {} \/ \E j \in 1 .. i - 1 : st[j] = I!Fetch(st[i].from)
        /\ \A j \in 1 .. i - 1 : st[j] # I!Drop(st[i].from) /\ st[j] # st[i]
  <2>1. 1 .. 2 - 1 = {1}
    OBVIOUS
  <2>2. QED
    BY <1>1, <1>2, <1>4, <2>1
<1>6. \A i \in 1 .. Len(st) : \A a \in I!Archives : st[i] = I!Fetch(a) => \E j \in i + 1 .. Len(st) : st[j] = I!Drop(a)
  BY <1>1, <1>3
<1>7. I!Extras = <<>> => I!ToSet(I!Extras) = {}
  BY DEF I!ToSet
<1>8. QED
  BY <1>1, <1>3, <1>5, <1>6, <1>7 DEF Planned, st

LEMMA CompanionPlanned == I!Extras = <<>> => Planned(Companion, {})
<1> DEFINE st == Companion
<1>1. /\ st \in Seq(Steps) /\ Len(st) = 3 /\ 1 .. 3 = {1, 2, 3}
      /\ st[1] = I!Fetch("companion.archive") /\ st[2] = I!Unpack("DirectML", "companion.archive")
      /\ st[3] = I!Drop("companion.archive")
  BY StepsIn DEF Companion
<1> HIDE DEF st
<1>2. \A i \in 1 .. Len(st) : st[i] \in Unpacks => i = 2
  BY <1>1, StepsDiffer DEF I!Fetch, I!Drop
<1>3. /\ \A i \in 1 .. Len(st) : \A a \in I!Archives : st[i] = I!Fetch(a) => i = 1 /\ a = "companion.archive"
      /\ \A i \in 1 .. Len(st) : st[i] \notin {InitLib, OpenLib, UnpackLib}
  BY <1>1 DEF I!Fetch, I!Drop, UnpackLib, I!Unpack, InitLib, OpenLib
<1>4. st[2].from = "companion.archive" /\ st[1] # st[2] /\ st[1] # I!Drop("companion.archive")
  BY <1>1 DEF I!Fetch, I!Drop, I!Unpack
<1>5. \A i \in 1 .. Len(st) : st[i] \in Unpacks =>
        /\ st[i].from \in {} \/ \E j \in 1 .. i - 1 : st[j] = I!Fetch(st[i].from)
        /\ \A j \in 1 .. i - 1 : st[j] # I!Drop(st[i].from) /\ st[j] # st[i]
  <2>1. 1 .. 2 - 1 = {1}
    OBVIOUS
  <2>2. QED
    BY <1>1, <1>2, <1>4, <2>1
<1>6. \A i \in 1 .. Len(st) : \A a \in I!Archives : st[i] = I!Fetch(a) => \E j \in i + 1 .. Len(st) : st[j] = I!Drop(a)
  BY <1>1, <1>3
<1>7. I!Extras = <<>> => I!ToSet(I!Extras) = {}
  BY DEF I!ToSet
<1>8. QED
  BY <1>1, <1>3, <1>5, <1>6, <1>7 DEF Planned, st

LEMMA DirectMLPlanned == I!Extras = <<>> => Planned(DirectML, {})
<1> DEFINE st == DirectML
<1>1. /\ st \in Seq(Steps) /\ Len(st) = 6 /\ 1 .. 6 = {1, 2, 3, 4, 5, 6}
      /\ st[1] = I!Fetch("runtime.archive") /\ st[2] = UnpackLib /\ st[3] = I!Fetch("companion.archive")
      /\ st[4] = I!Unpack("DirectML", "companion.archive") /\ st[5] = I!Drop("companion.archive")
      /\ st[6] = I!Drop("runtime.archive")
  BY StepsIn DEF DirectML
<1> HIDE DEF st
<1>2. \A i \in 1 .. Len(st) : st[i] \in Unpacks => i \in {2, 4}
  BY <1>1, StepsDiffer DEF I!Fetch, I!Drop
<1>3. /\ \A i \in 1 .. Len(st) : \A a \in I!Archives :
           st[i] = I!Fetch(a) => (i = 1 /\ a = "runtime.archive") \/ (i = 3 /\ a = "companion.archive")
      /\ \A i \in 1 .. Len(st) : st[i] \notin {InitLib, OpenLib}
  <2>1. /\ \A i \in {2, 4, 5, 6} : st[i].do \in {"unpack", "drop"}
        /\ st[1].to = "runtime.archive" /\ st[3].to = "companion.archive"
        /\ st[1].do = "fetch" /\ st[3].do = "fetch"
    BY <1>1 DEF I!Fetch, I!Drop, UnpackLib, I!Unpack
  <2>2. \A a : I!Fetch(a).do = "fetch" /\ I!Fetch(a).to = a
    BY DEF I!Fetch
  <2>3. InitLib.do = "init" /\ OpenLib.do = "open"
    BY DEF InitLib, OpenLib
  <2>4. QED
    BY <1>1, <2>1, <2>2, <2>3
<1>4. /\ st[2].from = "runtime.archive" /\ st[1] # st[2] /\ st[1] # I!Drop("runtime.archive")
      /\ st[4].from = "companion.archive"
      /\ \A j \in {1, 2, 3} : st[j] # st[4] /\ st[j] # I!Drop("companion.archive")
  BY <1>1 DEF I!Fetch, I!Drop, I!Unpack, UnpackLib
<1>5. \A i \in 1 .. Len(st) : st[i] \in Unpacks =>
        /\ st[i].from \in {} \/ \E j \in 1 .. i - 1 : st[j] = I!Fetch(st[i].from)
        /\ \A j \in 1 .. i - 1 : st[j] # I!Drop(st[i].from) /\ st[j] # st[i]
  <2>1. 1 .. 2 - 1 = {1} /\ 1 .. 4 - 1 = {1, 2, 3}
    OBVIOUS
  <2>2. QED
    BY <1>1, <1>2, <1>4, <2>1
<1>6. \A i \in 1 .. Len(st) : \A a \in I!Archives : st[i] = I!Fetch(a) => \E j \in i + 1 .. Len(st) : st[j] = I!Drop(a)
  <2>1. 6 \in 1 + 1 .. 6 /\ 5 \in 3 + 1 .. 6
    OBVIOUS
  <2>2. QED
    BY <1>1, <1>3, <2>1
<1>7. I!Extras = <<>> => I!ToSet(I!Extras) = {}
  BY DEF I!ToSet
<1>8. QED
  BY <1>1, <1>3, <1>5, <1>6, <1>7 DEF Planned, st

LEMMA CudaPlanned == I!Extras = <<"providers_shared", "providers_cuda">> => Planned(Cuda, {})
<1> DEFINE st == Cuda
<1>1. /\ st \in Seq(Steps) /\ Len(st) = 5 /\ 1 .. 5 = {1, 2, 3, 4, 5}
      /\ st[1] = I!Fetch("runtime.archive") /\ st[2] = UnpackLib /\ st[3] = I!Unpack("providers_shared", "runtime.archive")
      /\ st[4] = I!Unpack("providers_cuda", "runtime.archive") /\ st[5] = I!Drop("runtime.archive")
  BY StepsIn DEF Cuda
<1> HIDE DEF st
<1>2. \A i \in 1 .. Len(st) : st[i] \in Unpacks => i \in {2, 3, 4}
  BY <1>1, StepsDiffer DEF I!Fetch, I!Drop
<1>3. /\ \A i \in 1 .. Len(st) : \A a \in I!Archives : st[i] = I!Fetch(a) => i = 1 /\ a = "runtime.archive"
      /\ \A i \in 1 .. Len(st) : st[i] \notin {InitLib, OpenLib}
      /\ \A i \in 1 .. Len(st) : (st[i] = UnpackLib => i = 2) /\ (st[i] \in Fetches => i = 1)
  <2>1. \A i \in 2 .. 5 : st[i].do # "fetch"
    BY <1>1 DEF I!Drop, UnpackLib, I!Unpack
  <2>2. QED
    BY <1>1, <2>1, StepsDiffer DEF I!Fetch, I!Drop, UnpackLib, I!Unpack, InitLib, OpenLib
<1>4. /\ \A i \in {2, 3, 4} : st[i].from = "runtime.archive"
      /\ \A j \in {1, 2, 3, 4} : st[j] # I!Drop("runtime.archive")
      /\ st[1] # st[2] /\ st[1] # st[3] /\ st[2] # st[3] /\ st[1] # st[4] /\ st[2] # st[4] /\ st[3] # st[4]
  BY <1>1 DEF I!Fetch, I!Drop, I!Unpack, UnpackLib
<1>5. \A i \in 1 .. Len(st) : st[i] \in Unpacks =>
        /\ st[i].from \in {} \/ \E j \in 1 .. i - 1 : st[j] = I!Fetch(st[i].from)
        /\ \A j \in 1 .. i - 1 : st[j] # I!Drop(st[i].from) /\ st[j] # st[i]
  <2>1. 1 .. 2 - 1 = {1} /\ 1 .. 3 - 1 = {1, 2} /\ 1 .. 4 - 1 = {1, 2, 3}
    OBVIOUS
  <2>2. QED
    BY <1>1, <1>2, <1>4, <2>1
<1>6. \A i \in 1 .. Len(st) : \A a \in I!Archives : st[i] = I!Fetch(a) => \E j \in i + 1 .. Len(st) : st[j] = I!Drop(a)
  BY <1>1, <1>3
<1>7. I!Extras = <<"providers_shared", "providers_cuda">> => I!ToSet(I!Extras) = {"providers_shared", "providers_cuda"}
  BY DEF I!ToSet
<1>8. ASSUME I!ToSet(I!Extras) = {"providers_shared", "providers_cuda"}
      PROVE  /\ \A i \in 1 .. Len(st) : st[i] = UnpackLib =>
                  \A f \in I!ToSet(I!Extras) : \E j \in i + 1 .. Len(st) : st[j] = I!Unpack(f, "runtime.archive")
             /\ \A i, j \in 1 .. Len(st) : \A f \in I!ToSet(I!Extras) :
                  i < j /\ st[i] \in Fetches /\ st[j] = I!Unpack(f, "runtime.archive") => \E k \in i + 1 .. Len(st) : st[k] = UnpackLib
  <2>1. 3 \in 2 + 1 .. 5 /\ 4 \in 2 + 1 .. 5 /\ 2 \in 1 + 1 .. 5
    OBVIOUS
  <2>2. QED
    BY <1>1, <1>3, <1>8, <2>1
<1>9. QED
  BY <1>1, <1>3, <1>5, <1>6, <1>7, <1>8 DEF Planned, st
-----------------------------------------------------------------------------
(* One process at work.                                                    *)

\* The invariant, of p alone.
Others(p) == \A q \in Processes \ {p} : ~AtWork(q)
ExtrasOf(p) ==
  I!Present("lib") => \A f \in I!ToSet(I!Extras) :
    f \in cutFiles \/ I!Whole(f) \/ (AtWork(p) /\ InSteps(p, I!Unpack(f, "runtime.archive")))
CompanionsOf(p) == \A f \in I!ToSet(I!Companions) : I!Present(f) => f \in cutFiles \/ I!Whole(f) \/ Copies(p, f)
ReadyOf(p) ==
  (\E r \in Processes : job[r].result = "ready") =>
    /\ I!Whole("lib") /\ \A f \in I!ToSet(I!Companions) : I!Present(f)
    /\ AtWork(p) => \A s \in Unpacks : ~InSteps(p, s) /\ ~InTodo(p, s)
    /\ machine.asked \in {"cuda", "directml"} => machine.attaches
CleanOf(p) ==
  deaths = 0 => /\ \A f \in I!Paths : parts[f] # 0 => f \in stranded \/ (job[p].at = "write" /\ I!Step(p).to = f)
                /\ \A a \in I!Archives : I!Present(a) => a \in job[p].held

LEMMA Alone ==
  ASSUME InstallInv, NEW p \in Processes, Others(p)
  PROVE  /\ PlanOf(p) /\ DataOf(p) /\ LibOf(p) /\ ExtrasOf(p) /\ CompanionsOf(p) /\ ReadyOf(p) /\ CleanOf(p)
         /\ job[p] \in Jobs
<1>1. \A q \in Processes \ {p} : job[q].at = "off" /\ job[q].held = {}
  BY DEF InstallInv, JobsInv, PlanOf, Others, AtWork
<1>2. PlanOf(p) /\ DataOf(p) /\ LibOf(p) /\ job[p] \in Jobs
  BY DEF InstallInv, JobsInv, InstallTypeOK
<1>3. ExtrasOf(p)
  BY DEF InstallInv, ExtrasInv, ExtrasOf, Others
<1>4. CompanionsOf(p)
  BY <1>1 DEF InstallInv, CompanionsInv, CompanionsOf, Copies
<1>5. ReadyOf(p)
  BY DEF InstallInv, ReadyInv, ReadyOf
<1>6. CleanOf(p)
  BY <1>1 DEF InstallInv, CleanInv, CleanOf
<1>7. QED
  BY <1>2, <1>3, <1>4, <1>5, <1>6

LEMMA Together ==
  ASSUME InstallInv, NEW p \in Processes, Others(p), \A q \in Processes \ {p} : job'[q] = job[q],
         InstallTypeOK', Distinct', I!DownloadsWhole', PlanOf(p)', DataOf(p)', LibOf(p)',
         ExtrasOf(p)', CompanionsOf(p)', ReadyOf(p)', CleanOf(p)'
  PROVE  InstallInv'
<1>1. \A q \in Processes \ {p} : ~AtWork(q)' /\ job'[q].at = "off" /\ job'[q].held = {} /\ job'[q].steps = <<>>
  BY DEF InstallInv, JobsInv, PlanOf, Others, AtWork
<1>2. OneWorks'
  BY <1>1 DEF OneWorks
<1>3. JobsInv'
  <2>1. \A q \in Processes \ {p} : PlanOf(q)'
    BY <1>1 DEF PlanOf
  <2>2. \A q \in Processes \ {p} : DataOf(q)'
    BY <1>1 DEF DataOf
  <2>3. \A q \in Processes \ {p} : LibOf(q)'
    BY <1>1 DEF LibOf
  <2>4. QED
    BY <2>1, <2>2, <2>3 DEF JobsInv
<1>4. ExtrasInv'
  BY DEF ExtrasInv, ExtrasOf
<1>5. CompanionsInv'
  BY DEF CompanionsInv, CompanionsOf
<1>6. ReadyInv'
  BY <1>1 DEF ReadyInv, ReadyOf
<1>7. CleanInv'
  BY DEF CleanInv, CleanOf
<1>8. QED
  BY <1>2, <1>3, <1>4, <1>5, <1>6, <1>7 DEF InstallInv

\* The other processes are off.
LEMMA Working == ASSUME InstallInv, NEW p \in Processes, AtWork(p) PROVE Others(p)
BY DEF InstallInv, OneWorks, Others

LEMMA SameMachine ==
  ASSUME machine' = machine
  PROVE  /\ I!Extras' = I!Extras /\ I!Companions' = I!Companions
         /\ \A st : \A held : Planned(st, held)' <=> Planned(st, held)
         /\ \A g : PlannedGoal(g)' <=> PlannedGoal(g)
<1>1. I!Extras' = I!Extras /\ I!Companions' = I!Companions
  BY DEF I!Extras, I!Companions, I!OrtProvider
<1>2. ASSUME NEW st, NEW held PROVE Planned(st, held)' <=> Planned(st, held)
  BY <1>1 DEF Planned
<1>3. ASSUME NEW g PROVE PlannedGoal(g)' <=> PlannedGoal(g)
  BY <1>2 DEF PlannedGoal
<1>4. QED
  BY <1>1, <1>2, <1>3

\* The step that p is about to take.
LEMMA StepIs ==
  ASSUME InstallInv, NEW p \in Processes, AtWork(p), job[p].steps # <<>>
  PROVE  /\ I!Step(p) \in Steps /\ I!Step(p) = job[p].steps[1] /\ InSteps(p, I!Step(p))
         /\ I!Step(p).do = "fetch" => I!Step(p) \in Fetches
         /\ I!Step(p).do = "unpack" => I!Step(p) \in Unpacks
         /\ I!Step(p).do = "drop" => I!Step(p) \in Drops
         /\ I!Step(p).do = "init" => I!Step(p) = InitLib
         /\ I!Step(p).do = "open" => I!Step(p) = OpenLib
         /\ Planned(job[p].steps, job[p].held) /\ job[p].result = "none"
<1>1. Planned(job[p].steps, job[p].held) /\ job[p].result = "none"
  BY Working, Alone DEF PlanOf
<1>2. job[p].steps \in Seq(Steps)
  BY <1>1 DEF Planned
<1>3. I!Step(p) \in Steps /\ I!Step(p) = job[p].steps[1] /\ InSteps(p, I!Step(p))
  BY <1>2, TailIs DEF I!Step, InSteps
<1>4. QED
  BY <1>1, <1>3, StepsDiffer DEF Steps

\* The plan of a process that has done its step.
LEMMA PlanDone ==
  ASSUME InstallInv, NEW p \in Processes, AtWork(p), job[p].steps # <<>>, machine' = machine,
         job'[p].at = "run", job'[p].todo = job[p].todo, job'[p].steps = Tail(job[p].steps), job'[p].result = "none",
         job'[p].held = HeldAfter(job[p].held, I!Step(p))
  PROVE  /\ PlanOf(p)' /\ I!ToSet(job[p].steps) = {I!Step(p)} \union I!ToSet(job'[p].steps)
         /\ I!Step(p) \in Unpacks => I!Step(p) \notin I!ToSet(job'[p].steps)
<1>1. PlanOf(p) /\ job[p] \in Jobs
  BY Working, Alone
<1>2. Planned(job[p].steps, job[p].held)
  BY StepIs
<1>3. /\ Planned(job'[p].steps, job'[p].held)
      /\ I!Step(p) \in Unpacks => I!Step(p) \notin I!ToSet(job'[p].steps)
  BY <1>2, PlannedTail DEF I!Step
<1>4. I!ToSet(job[p].steps) = {I!Step(p)} \union I!ToSet(job'[p].steps)
  BY <1>2, TailIs DEF Planned, I!Step
<1>5. /\ \A i \in 1 .. Len(job[p].todo) :
           /\ PlannedGoal(job[p].todo[i])
           /\ I!ToSet(job[p].todo[i].steps) \intersect Unpacks = {}
           /\ OpenLib \in I!ToSet(job[p].todo[i].steps) => i = Len(job[p].todo)
      /\ InSteps(p, OpenLib) => job[p].todo = <<>>
  BY <1>1 DEF PlanOf
<1>6. Planned(job[p].steps, job[p].held)' /\ \A g : PlannedGoal(g)' <=> PlannedGoal(g)
  BY <1>3, SameMachine
<1>7. PlanOf(p)'
  BY <1>4, <1>5, <1>6 DEF PlanOf, InSteps, AtWork
<1>8. QED
  BY <1>3, <1>4, <1>7

\* What is not touched stays whole.
LEMMA Untouched ==
  ASSUME NEW g, files'[g] = files[g], files[g] # 0 => data'[files[g]] = data[files[g]]
  PROVE  (I!Present(g)' <=> I!Present(g)) /\ (I!Whole(g)' <=> I!Whole(g))
BY DEF I!Present, I!Whole

LEMMA Updated ==
  ASSUME InstallInv, NEW p \in Processes, NEW j \in Jobs, job' = [job EXCEPT ![p] = j]
  PROVE  job' \in [Processes -> Jobs] /\ job'[p] = j /\ \A q \in Processes \ {p} : job'[q] = job[q]
BY DEF InstallInv, InstallTypeOK
-----------------------------------------------------------------------------
(* Files.                                                                  *)

LEMMA Truncation ==
  ASSUME data \in Seq(Seq(Chunk)), NEW i \in 0 .. Len(data)
  PROVE  /\ I!Truncated(i) \in Seq(Seq(Chunk)) /\ Len(data) <= Len(I!Truncated(i))
         /\ I!InodeFor(i) \in 1 .. Len(I!Truncated(i)) /\ I!InodeFor(i) \in {i, Len(data) + 1}
         /\ i # 0 => I!InodeFor(i) = i
         /\ \A s : I!Truncated(i)[I!InodeFor(i)] = [c \in 1 .. 0 |-> s]
         /\ \A k \in 1 .. Len(data) : k # i => I!Truncated(i)[k] = data[k]
<1>1. \A s : <<>> = [c \in 1 .. 0 |-> s]
  OBVIOUS
<1>2. <<>> \in Seq(Chunk)
  OBVIOUS
<1>3. CASE i = 0
  BY <1>1, <1>2, <1>3 DEF I!Truncated, I!InodeFor
<1>4. CASE i # 0
  <2>1. i \in 1 .. Len(data) /\ I!Truncated(i) = [data EXCEPT ![i] = <<>>] /\ I!InodeFor(i) = i
    BY <1>4 DEF I!Truncated, I!InodeFor
  <2>2. I!Truncated(i) \in Seq(Seq(Chunk)) /\ Len(I!Truncated(i)) = Len(data) /\ I!Truncated(i)[i] = <<>>
    BY <1>2, <2>1
  <2>3. \A k \in 1 .. Len(data) : k # i => I!Truncated(i)[k] = data[k]
    BY <2>1
  <2>4. QED
    BY <1>1, <2>1, <2>2, <2>3
<1>5. QED
  BY <1>3, <1>4

LEMMA MaxNext == ASSUME NEW n \in Nat PROVE I!Max({n + 1, n}) = n + 1
<1>1. n + 1 \in {n + 1, n} /\ \A y \in {n + 1, n} : n + 1 >= y
  OBVIOUS
<1>2. \A x \in {n + 1, n} : (\A y \in {n + 1, n} : x >= y) => x = n + 1
  OBVIOUS
<1>3. QED
  BY <1>1, <1>2 DEF I!Max

\* A file that is written in order has no holes.
LEMMA PutNext ==
  ASSUME NEW n \in Nat, NEW x \in Chunk
  PROVE  /\ I!Put([c \in 1 .. n |-> x], n + 1, x) = [c \in 1 .. n + 1 |-> x]
         /\ [c \in 1 .. n + 1 |-> x] \in Seq(Chunk)
<1> DEFINE s == [c \in 1 .. n |-> x]
<1>1. s \in Seq(Chunk) /\ Len(s) = n /\ \A c \in 1 .. n : s[c] = x
  OBVIOUS
<1> HIDE DEF s
<1>2. I!Put(s, n + 1, x) = [c \in 1 .. n + 1 |-> IF c = n + 1 THEN x ELSE IF c <= n THEN s[c] ELSE "hole"]
  BY <1>1, MaxNext DEF I!Put
<1>3. \A c \in 1 .. n + 1 : (IF c = n + 1 THEN x ELSE IF c <= n THEN s[c] ELSE "hole") = x
  BY <1>1
<1>4. I!Put(s, n + 1, x) = [c \in 1 .. n + 1 |-> x]
  BY <1>2, <1>3
<1>5. QED
  BY <1>4 DEF s

LEMMA Writing ==
  ASSUME data \in Seq(Seq(Chunk)), NEW k \in 1 .. Len(data), NEW n \in Nat, NEW x \in Chunk, Written(k, n, x),
         data' = [data EXCEPT ![k] = I!Put(@, n + 1, x)]
  PROVE  /\ data' \in Seq(Seq(Chunk)) /\ Len(data') = Len(data)
         /\ data'[k] = [c \in 1 .. n + 1 |-> x]
         /\ \A m \in 1 .. Len(data) : m # k => data'[m] = data[m]
<1> DEFINE t == [c \in 1 .. n + 1 |-> x]
<1>1. data' = [data EXCEPT ![k] = t]
  BY PutNext, ZenonT(40) DEF Written
<1>2. t \in Seq(Chunk)
  BY PutNext
<1> HIDE DEF t
<1>3. data' \in Seq(Seq(Chunk)) /\ Len(data') = Len(data) /\ data'[k] = t /\ \A m \in 1 .. Len(data) : m # k => data'[m] = data[m]
  BY <1>1, <1>2
<1>4. QED
  BY <1>3 DEF t

\* What is written to the file of one name is in no other.
LEMMA Apart ==
  ASSUME InstallTypeOK, Distinct, NEW f \in I!Paths
  PROVE  /\ \A g \in I!Paths : files[g] # 0 /\ parts[f] # 0 => files[g] # parts[f]
         /\ \A g \in I!Paths : g # f /\ files[g] # 0 /\ files[f] # 0 => files[g] # files[f]
         /\ \A g \in I!Paths : files[g] # 0 => files[g] \in 1 .. Len(data)
         /\ \A g \in I!Paths : parts[g] # 0 => parts[g] \in 1 .. Len(data)
BY DEF InstallTypeOK, Distinct

LEMMA PathsAre ==
  /\ I!Archives \subseteq I!Paths /\ ModelFiles \subseteq I!Paths /\ I!Libraries \subseteq I!Paths
  /\ ModelFiles \intersect I!Archives = {} /\ ModelFiles \intersect I!Libraries = {} /\ I!Archives \intersect I!Libraries = {}
  /\ "lib" \in I!Libraries /\ I!ToSet(I!Extras) \subseteq I!Libraries /\ I!ToSet(I!Companions) \subseteq I!Libraries
  /\ "lib" \notin I!ToSet(I!Extras) /\ "lib" \notin I!ToSet(I!Companions)
  /\ \A f \in I!ToSet(I!Extras) : I!Unpack(f, "runtime.archive") \in Unpacks
  /\ \A f \in I!ToSet(I!Companions) : I!Unpack(f, "companion.archive") \in Unpacks
  /\ UnpackLib \in Unpacks
BY Given, ExtrasAre DEF I!InstallAssumption, I!Paths, ModelFiles, I!Libraries, I!Archives, Unpacks
-----------------------------------------------------------------------------
(* The steps.                                                              *)

\* What the steps change of a job.
Chosen(r, goals, steps) == [r EXCEPT !.todo = goals, !.steps = steps]
Writes(r, o, s) == [r EXCEPT !.at = "write", !.out = o, !.off = 0, !.stream = s]
Unpacking(r, o, i) == [r EXCEPT !.at = "copy", !.out = o, !.in = i, !.off = 0]
Advanced(r, n) == [r EXCEPT !.off = n]
DoneWith(r, held) == [r EXCEPT !.at = "run", !.steps = Tail(@), !.held = held]

Same(j, r) == j.todo = r.todo /\ j.steps = r.steps /\ j.held = r.held /\ j.result = r.result

LEMMA ChosenIs ==
  ASSUME NEW r \in Jobs, NEW goals \in Seq(Goals), NEW steps \in Seq(Steps)
  PROVE  LET j == Chosen(r, goals, steps)
         IN j \in Jobs /\ j.at = r.at /\ j.todo = goals /\ j.steps = steps /\ j.held = r.held /\ j.result = r.result
BY DEF Jobs, Chosen

LEMMA WritesIs ==
  ASSUME NEW r \in Jobs, NEW o \in Nat, NEW s \in {"good", "bad"}
  PROVE  LET j == Writes(r, o, s) IN j \in Jobs /\ j.at = "write" /\ Same(j, r) /\ j.out = o /\ j.off = 0 /\ j.stream = s
BY DEF Jobs, Writes, Same

LEMMA UnpackingIs ==
  ASSUME NEW r \in Jobs, NEW o \in Nat, NEW i \in Nat
  PROVE  Unpacking(r, o, i) \in Jobs /\ Unpacking(r, o, i).at = "copy"
BY DEF Jobs, Unpacking

LEMMA UnpackingSame == ASSUME NEW r \in Jobs, NEW o, NEW i PROVE Same(Unpacking(r, o, i), r)
BY DEF Jobs, Unpacking, Same

LEMMA AdvancedIs ==
  ASSUME NEW r \in Jobs, NEW n \in Nat
  PROVE  LET j == Advanced(r, n)
         IN j \in Jobs /\ j.at = r.at /\ Same(j, r) /\ j.out = r.out /\ j.in = r.in /\ j.off = n /\ j.stream = r.stream
BY DEF Jobs, Advanced, Same

LEMMA DoneWithIs ==
  ASSUME NEW r \in Jobs, NEW held \in SUBSET I!Archives, r.steps # <<>>
  PROVE  LET j == DoneWith(r, held)
         IN j \in Jobs /\ j.at = "run" /\ j.todo = r.todo /\ j.steps = Tail(r.steps) /\ j.held = held /\ j.result = r.result
<1>1. r.steps \in Seq(Steps)
  BY DEF Jobs
<1>2. Tail(r.steps) \in Seq(Steps)
  BY <1>1, TailIs
<1>3. QED
  BY <1>2 DEF Jobs, DoneWith

LEMMA NoSteps == ASSUME NEW held, Planned(<<>>, held) PROVE held = {}
BY DEF Planned

LEMMA NothingPlanned == Planned(<<>>, {})
BY DEF Planned

LEMMA NextGoalKeeps == ASSUME InstallInv, NEW p \in Processes, I!NextGoal(p) PROVE InstallInv'
<1> DEFINE goals == job[p].todo
           goal == Head(goals)
           there == goal.unless # {} /\ \A f \in goal.unless : I!Present(f)
           j == [job[p] EXCEPT !.todo = Tail(goals), !.steps = IF there THEN <<>> ELSE goal.steps]
<1>1. /\ job[p].at = "run" /\ job[p].steps = <<>> /\ goals # <<>> /\ job' = [job EXCEPT ![p] = j]
      /\ UNCHANGED <<machine, files, parts, data, deaths, cutFiles, stranded>>
  BY DEF I!NextGoal, InstallInv, InstallTypeOK
<1>2. AtWork(p) /\ Others(p)
  BY <1>1, Working DEF AtWork
<1>3. PlanOf(p) /\ DataOf(p) /\ LibOf(p) /\ ExtrasOf(p) /\ CompanionsOf(p) /\ ReadyOf(p) /\ CleanOf(p) /\ job[p] \in Jobs
  BY <1>2, Alone
<1>4. /\ Tail(goals) \in Seq(Goals) /\ Len(goals) >= 1 /\ goal = goals[1]
      /\ Len(Tail(goals)) = Len(goals) - 1 /\ goal \in Goals
      /\ \A i \in 1 .. Len(Tail(goals)) : Tail(goals)[i] = goals[i + 1] /\ i + 1 \in 1 .. Len(goals) /\ i + 1 > 1
      /\ 1 \in 1 .. Len(goals) /\ (Len(Tail(goals)) = 0 => Tail(goals) = <<>>)
      /\ \A i \in 1 .. Len(Tail(goals)) : i + 1 = Len(goals) => i = Len(Tail(goals))
      /\ 1 = Len(goals) => Len(Tail(goals)) = 0
  <2> DEFINE G == Goals
  <2>1. goals \in Seq(G) /\ goals # <<>>
    BY <1>1, <1>3 DEF Jobs
  <2> HIDE DEF G
  <2>2. /\ Tail(goals) \in Seq(G) /\ Len(goals) >= 1 /\ goal = goals[1] /\ goal \in G
        /\ Len(Tail(goals)) = Len(goals) - 1 /\ Len(goals) \in Nat
        /\ \A i \in 1 .. Len(goals) - 1 : Tail(goals)[i] = goals[i + 1]
    BY <2>1, TailIs
  <2>3. \A i \in 1 .. Len(Tail(goals)) : i \in 1 .. Len(goals) - 1 /\ i + 1 \in 1 .. Len(goals) /\ i + 1 > 1
    BY <2>2
  <2>4. \A t \in Seq(G) : Len(t) \in Nat /\ (Len(t) = 0 => t = <<>>)
    OBVIOUS
  <2>5. 1 \in 1 .. Len(goals) /\ \A i \in 1 .. Len(Tail(goals)) : i + 1 = Len(goals) => i = Len(Tail(goals))
    BY <2>2
  <2>6. 1 = Len(goals) => Len(Tail(goals)) = 0
    BY <2>2
  <2>7. QED
    BY <2>2, <2>3, <2>4, <2>5, <2>6 DEF G
<1>5. j \in Jobs /\ j.at = "run" /\ j.todo = Tail(goals) /\ j.steps = (IF there THEN <<>> ELSE goal.steps)
      /\ j.held = job[p].held /\ j.result = job[p].result
  <2> DEFINE steps == IF there THEN <<>> ELSE goal.steps
  <2>1. steps \in Seq(Steps) /\ <<>> \in Seq(Steps)
    BY <1>4 DEF Goals
  <2> HIDE DEF steps
  <2>2. j = Chosen(job[p], Tail(goals), steps)
    BY DEF steps, Chosen
  <2> HIDE DEF j
  <2>3. j \in Jobs /\ j.at = "run" /\ j.todo = Tail(goals) /\ j.steps = steps /\ j.held = job[p].held /\ j.result = job[p].result
    <3>1. job[p] \in Jobs /\ Tail(goals) \in Seq(Goals) /\ steps \in Seq(Steps) /\ job[p].at = "run"
      BY <1>1, <1>3, <1>4, <2>1
    <3>2. /\ Chosen(job[p], Tail(goals), steps) \in Jobs
          /\ Chosen(job[p], Tail(goals), steps).at = job[p].at
          /\ Chosen(job[p], Tail(goals), steps).todo = Tail(goals)
          /\ Chosen(job[p], Tail(goals), steps).steps = steps
          /\ Chosen(job[p], Tail(goals), steps).held = job[p].held
          /\ Chosen(job[p], Tail(goals), steps).result = job[p].result
      <4> DEFINE rest == Tail(goals)
                 was == job[p]
      <4>1. was \in Jobs /\ rest \in Seq(Goals) /\ steps \in Seq(Steps)
        BY <3>1
      <4> HIDE DEF rest, was
      <4>2. LET k == Chosen(was, rest, steps)
            IN k \in Jobs /\ k.at = was.at /\ k.todo = rest /\ k.steps = steps /\ k.held = was.held /\ k.result = was.result
        BY <4>1, ChosenIs
      <4>3. QED
        BY <4>2 DEF rest, was
    <3>3. QED
      BY <2>2, <3>1, <3>2
  <2>4. QED
    BY <2>3 DEF steps
<1> HIDE DEF j
<1>6. job' \in [Processes -> Jobs] /\ job'[p] = j /\ \A q \in Processes \ {p} : job'[q] = job[q]
  BY <1>1, <1>5, Updated
<1>7. /\ I!Extras' = I!Extras /\ I!Companions' = I!Companions
      /\ \A st : \A held : Planned(st, held)' <=> Planned(st, held)
      /\ \A g : PlannedGoal(g)' <=> PlannedGoal(g)
  BY <1>1, SameMachine
<1>8. \A g : (I!Present(g)' <=> I!Present(g)) /\ (I!Whole(g)' <=> I!Whole(g))
  BY <1>1, Untouched
<1>9. job[p].held = {} /\ job[p].result = "none" /\ PlannedGoal(goal) /\ \A i \in 1 .. Len(goals) : PlannedGoal(goals[i])
  BY <1>1, <1>2, <1>3, <1>4, NoSteps DEF PlanOf
\* What is ahead stays ahead, but for the goals whose files are there.
<1>10. \A s : (InSteps(p, s) \/ InTodo(p, s))' => InTodo(p, s)
  <2>1. \A s : s \in I!ToSet(j.steps) => s \in I!ToSet(goals[1].steps)
    BY <1>4, <1>5 DEF I!ToSet
  <2>2. \A s : InSteps(p, s)' => InTodo(p, s)
    BY <1>4, <1>6, <2>1 DEF InSteps, InTodo
  <2>3. ASSUME NEW s, InTodo(p, s)' PROVE InTodo(p, s)
    <3>1. PICK i \in 1 .. Len(Tail(goals)) : s \in I!ToSet(Tail(goals)[i].steps)
      BY <1>5, <1>6, <2>3 DEF InTodo
    <3>2. QED
      BY <1>4, <3>1 DEF InTodo
  <2>4. QED
    BY <2>2, <2>3
<1>11. ASSUME NEW s, InTodo(p, s), ~there \/ s \notin I!ToSet(goal.steps) PROVE Ahead(p, s)'
  <2>1. PICK i \in 1 .. Len(goals) : s \in I!ToSet(goals[i].steps)
    BY <1>11 DEF InTodo
  <2>2. CASE i = 1
    BY <1>4, <1>5, <1>6, <1>11, <2>1, <2>2 DEF Ahead, InSteps, AtWork
  <2>3. CASE i # 1
    <3>1. i - 1 \in 1 .. Len(Tail(goals)) /\ Tail(goals)[i - 1] = goals[i]
      BY <1>4, <2>3
    <3>2. QED
      BY <1>5, <1>6, <2>1, <3>1 DEF Ahead, InTodo, AtWork
  <2>4. QED
    BY <2>2, <2>3
<1>12. PlanOf(p)'
  <2>1. Planned(j.steps, j.held)
    BY <1>5, <1>9, NothingPlanned DEF PlannedGoal
  <2>5. \A i \in 1 .. Len(goals) :
          /\ PlannedGoal(goals[i])
          /\ i > 1 => I!ToSet(goals[i].steps) \intersect Unpacks = {}
          /\ OpenLib \in I!ToSet(goals[i].steps) => i = Len(goals)
    BY <1>2, <1>3 DEF PlanOf
  <2>2. \A i \in 1 .. Len(Tail(goals)) :
          /\ PlannedGoal(Tail(goals)[i])
          /\ I!ToSet(Tail(goals)[i].steps) \intersect Unpacks = {}
          /\ OpenLib \in I!ToSet(Tail(goals)[i].steps) => i = Len(Tail(goals))
    <3>1. SUFFICES ASSUME NEW i \in 1 .. Len(Tail(goals))
                   PROVE  /\ PlannedGoal(Tail(goals)[i])
                          /\ I!ToSet(Tail(goals)[i].steps) \intersect Unpacks = {}
                          /\ OpenLib \in I!ToSet(Tail(goals)[i].steps) => i + 1 = Len(goals)
      BY <1>4
    <3>2. Tail(goals)[i] = goals[i + 1] /\ i + 1 \in 1 .. Len(goals) /\ i + 1 > 1
      BY <1>4
    <3>3. QED
      BY <2>5, <3>2
  <2>3. OpenLib \in I!ToSet(j.steps) => Tail(goals) = <<>>
    <3>1. SUFFICES ASSUME OpenLib \in I!ToSet(j.steps) PROVE Len(Tail(goals)) = 0
      BY <1>4
    <3>2. OpenLib \in I!ToSet(goals[1].steps)
      BY <1>4, <1>5, <3>1 DEF I!ToSet
    <3>3. 1 = Len(goals)
      BY <1>4, <2>5, <3>2
    <3>4. QED
      BY <1>4, <3>3
  <2>4. QED
    BY <1>5, <1>6, <1>7, <1>9, <2>1, <2>2, <2>3 DEF PlanOf, InSteps, AtWork
<1>13. DataOf(p)'
  BY <1>5, <1>6, <1>9 DEF DataOf
<1>14. LibOf(p)'
  <2>1. Ahead(p, UnpackLib)' => Ahead(p, UnpackLib)
    BY <1>2, <1>10 DEF Ahead
  <2>2. ~Copies(p, "lib")
    BY <1>1 DEF Copies
  <2>3. ~I!Whole("lib") => Ahead(p, InitLib)'
    <3>1. SUFFICES ASSUME ~I!Whole("lib") PROVE Ahead(p, InitLib)'
      OBVIOUS
    <3>2. InTodo(p, InitLib)
      BY <1>1, <1>2, <1>3, <3>1 DEF LibOf, Ahead, InSteps, I!ToSet
    <3>3. there => InitLib \notin I!ToSet(goal.steps)
      BY <1>9 DEF PlannedGoal
    <3>4. QED
      BY <1>11, <3>2, <3>3
  <2>4. ASSUME NEW f \in I!ToSet(I!Companions), ~I!Present(f) PROVE Ahead(p, I!Unpack(f, "companion.archive"))'
    <3>1. InTodo(p, I!Unpack(f, "companion.archive"))
      BY <1>1, <1>2, <1>3, <2>4 DEF LibOf, Ahead, InSteps, I!ToSet
    <3>2. there => I!Unpack(f, "companion.archive") \notin I!ToSet(goal.steps)
      <4>1. I!Unpack(f, "companion.archive").to = f /\ I!Unpack(f, "companion.archive") \in Unpacks
        BY PathsAre DEF I!Unpack
      <4>2. QED
        BY <1>9, <2>4, <4>1 DEF PlannedGoal
    <3>3. QED
      BY <1>11, <3>1, <3>2
  <2>5. QED
    BY <1>2, <1>3, <1>7, <1>8, <2>1, <2>2, <2>3, <2>4 DEF LibOf
<1>15. ExtrasOf(p)'
  <2>1. \A s : ~InSteps(p, s)
    BY <1>1 DEF InSteps, I!ToSet
  <2>2. QED
    BY <1>1, <1>3, <1>7, <1>8, <2>1 DEF ExtrasOf
<1>16. CompanionsOf(p)'
  BY <1>1, <1>3, <1>7, <1>8 DEF CompanionsOf, Copies
<1>17. ReadyOf(p)'
  <2>1. (\E r \in Processes : job[r].result = "ready")' => \E r \in Processes : job[r].result = "ready"
    BY <1>5, <1>6
  <2>2. ASSUME \E r \in Processes : job[r].result = "ready"
        PROVE  \A s \in Unpacks : ~InSteps(p, s)' /\ ~InTodo(p, s)'
    BY <1>2, <1>3, <1>10, <2>2 DEF ReadyOf
  <2>3. QED
    BY <1>1, <1>3, <1>7, <1>8, <2>1, <2>2 DEF ReadyOf
<1>18. CleanOf(p)'
  BY <1>1, <1>3, <1>5, <1>6, <1>8 DEF CleanOf
<1>19. InstallTypeOK' /\ Distinct' /\ I!DownloadsWhole'
  BY <1>1, <1>6, <1>8 DEF InstallInv, InstallTypeOK, Distinct, I!DownloadsWhole
<1>20. QED
  BY <1>2, <1>6, <1>12, <1>13, <1>14, <1>15, <1>16, <1>17, <1>18, <1>19, Together

\* A download has begun or goes on.
LEMMA DownloadKeeps ==
  ASSUME InstallInv, NEW p \in Processes, AtWork(p), job[p].at \in {"run", "write"},
         job[p].steps # <<>>, I!Step(p) \in Fetches,
         NEW j \in Jobs, job' = [job EXCEPT ![p] = j],
         j.at = "write", Same(j, job[p]),
         UNCHANGED <<machine, files, deaths, cutFiles, stranded>>,
         parts' = [parts EXCEPT ![I!Step(p).to] = j.out], j.out = parts[I!Step(p).to] \/ j.out > Len(data),
         data' \in Seq(Seq(Chunk)), Len(data) <= Len(data'), j.out \in 1 .. Len(data'),
         \A k \in 1 .. Len(data) : k # j.out => data'[k] = data[k],
         j.off <= Chunks, data'[j.out] = [c \in 1 .. j.off |-> j.stream]
  PROVE  InstallInv'
<1> DEFINE f == I!Step(p).to
<1>1. /\ PlanOf(p) /\ DataOf(p) /\ LibOf(p) /\ ExtrasOf(p) /\ CompanionsOf(p) /\ ReadyOf(p) /\ CleanOf(p)
      /\ job[p] \in Jobs /\ Others(p)
  BY Working, Alone
<1>2. job' \in [Processes -> Jobs] /\ job'[p] = j /\ \A q \in Processes \ {p} : job'[q] = job[q]
  BY Updated
<1>3. /\ I!Extras' = I!Extras /\ I!Companions' = I!Companions
      /\ \A st : \A held : Planned(st, held)' <=> Planned(st, held)
      /\ \A g : PlannedGoal(g)' <=> PlannedGoal(g)
  BY SameMachine
<1>4. f \in I!Paths /\ f \in I!Archives \union ModelFiles
  BY StepsDiffer, PathsAre
<1>5. InstallTypeOK /\ Distinct /\ I!DownloadsWhole
  BY DEF InstallInv
<1>6. files \in [I!Paths -> 0 .. Len(data)] /\ parts \in [I!Paths -> 0 .. Len(data)] /\ Len(data) \in Nat /\ Len(data') \in Nat
  BY <1>5, SMTT(30) DEF InstallTypeOK
<1>7. \A g \in I!Paths : files[g] # 0 => files[g] \in 1 .. Len(data) /\ files[g] # j.out
  BY <1>4, <1>5, <1>6, SMTT(30) DEF Distinct
<1>8. \A g \in I!Paths : (I!Present(g)' <=> I!Present(g)) /\ (I!Whole(g)' <=> I!Whole(g))
  BY <1>7, Untouched
<1>9. \A s : (InSteps(p, s)' <=> InSteps(p, s)) /\ (InTodo(p, s)' <=> InTodo(p, s))
  BY <1>2 DEF InSteps, InTodo, Same
<1>10. AtWork(p)' /\ I!Step(p)' = I!Step(p) /\ \A g : ~Copies(p, g) /\ ~Copies(p, g)'
  BY <1>2 DEF AtWork, I!Step, Copies, Same
<1>11. PlanOf(p)'
  BY <1>1, <1>2, <1>3, <1>9, <1>10 DEF PlanOf, Same
<1>12. DataOf(p)'
  <2>1. \A a \in j.held : I!Whole(a)'
    <3>1. \A a \in job[p].held : I!Whole(a)
      BY <1>1 DEF DataOf
    <3>2. job[p].held \subseteq I!Paths
      BY <1>1, PathsAre DEF Jobs
    <3>3. QED
      BY <1>8, <3>1, <3>2 DEF Same
  <2>2. j.out # 0 /\ parts'[f] = j.out /\ Written(j.out, j.off, j.stream)'
    BY <1>4, <1>6 DEF Written
  <2>3. QED
    BY <1>2, <1>10, <2>1, <2>2 DEF DataOf, Written, Same
<1>13. LibOf(p)'
  BY <1>1, <1>3, <1>8, <1>9, <1>10, PathsAre DEF LibOf, Ahead
<1>14. ExtrasOf(p)'
  BY <1>1, <1>3, <1>8, <1>9, <1>10, PathsAre DEF ExtrasOf
<1>15. CompanionsOf(p)'
  BY <1>1, <1>3, <1>8, <1>10, PathsAre DEF CompanionsOf
<1>16. ReadyOf(p)'
  BY <1>1, <1>2, <1>3, <1>8, <1>9, <1>10, PathsAre DEF ReadyOf, Same
<1>17. CleanOf(p)'
  <2>1. ASSUME deaths = 0, NEW g \in I!Paths, g # f PROVE parts'[g] = 0 \/ g \in stranded
    BY <1>1, <1>4, <1>6, <2>1 DEF CleanOf
  <2>2. QED
    BY <1>1, <1>2, <1>8, <1>10, <2>1, PathsAre DEF CleanOf, Same
<1>18. InstallTypeOK'
  <2>1. parts' \in [I!Paths -> 0 .. Len(data')] /\ files' \in [I!Paths -> 0 .. Len(data')]
    BY <1>4, <1>6
  <2>2. QED
    BY <1>2, <1>5, <2>1 DEF InstallTypeOK
<1>19. Distinct'
  BY <1>4, <1>5, <1>6, <1>7, SMTT(30) DEF Distinct
<1>20. I!DownloadsWhole'
  BY <1>5, <1>8, PathsAre DEF I!DownloadsWhole, ModelFiles
<1>21. QED
  BY <1>1, <1>2, <1>11, <1>12, <1>13, <1>14, <1>15, <1>16, <1>17, <1>18, <1>19, <1>20, Together

LEMMA BeginDownloadKeeps == ASSUME InstallInv, NEW p \in Processes, I!BeginDownload(p) PROVE InstallInv'
<1>1. job[p].at = "run" /\ job[p].steps # <<>> /\ I!Step(p).do = "fetch" /\ AtWork(p)
  BY DEF I!BeginDownload, I!Doing, AtWork
<1>2. I!Step(p) \in Fetches /\ I!Step(p).to \in I!Paths
  BY <1>1, StepIs, StepsDiffer, PathsAre
<1> DEFINE i == parts[I!Step(p).to]
<1>3. InstallTypeOK /\ job[p] \in Jobs
  BY DEF InstallInv, InstallTypeOK
<1>4. PICK s \in {"good", "bad"} :
        /\ data' = I!Truncated(i) /\ parts' = [parts EXCEPT ![I!Step(p).to] = I!InodeFor(i)]
        /\ job' = [job EXCEPT ![p].at = "write", ![p].out = I!InodeFor(i), ![p].off = 0, ![p].stream = s]
        /\ UNCHANGED <<machine, files, deaths, cutFiles, stranded>>
  BY DEF I!BeginDownload
<1>5. i \in 0 .. Len(data) /\ data \in Seq(Seq(Chunk)) /\ Len(data) \in Nat
  BY <1>2, <1>3 DEF InstallTypeOK
<1> HIDE DEF i
<1>6. /\ I!Truncated(i) \in Seq(Seq(Chunk)) /\ Len(data) <= Len(I!Truncated(i))
      /\ I!InodeFor(i) \in 1 .. Len(I!Truncated(i)) /\ (I!InodeFor(i) = i \/ I!InodeFor(i) > Len(data))
      /\ I!Truncated(i)[I!InodeFor(i)] = [c \in 1 .. 0 |-> s]
      /\ \A k \in 1 .. Len(data) : k # I!InodeFor(i) => I!Truncated(i)[k] = data[k]
  BY <1>5, Truncation
<1> DEFINE j == Writes(job[p], I!InodeFor(i), s)
<1>7. job' = [job EXCEPT ![p] = j]
  BY <1>3, <1>4 DEF InstallTypeOK, Writes
<1>8. j \in Jobs /\ j.at = "write" /\ Same(j, job[p]) /\ j.out = I!InodeFor(i) /\ j.off = 0 /\ j.stream = s
  <2>1. I!InodeFor(i) \in Nat
    BY <1>5 DEF I!InodeFor
  <2>2. j \in Jobs
    BY <1>3, <2>1, WritesIs
  <2>3. j.at = "write"
    BY <1>3, <2>1 DEF Jobs, Writes
  <2>4. Same(j, job[p])
    BY <1>3, <2>1, WritesIs
  <2>5. j.stream = s
    BY <1>3, <2>1 DEF Jobs, Writes
  <2>6. j.off = 0 /\ j.out = I!InodeFor(i)
    BY <1>3, <2>1 DEF Jobs, Writes
  <2>7. QED
    BY <2>2, <2>3, <2>4, <2>5, <2>6
<1> HIDE DEF j
<1>9. 0 <= Chunks
  BY Given DEF I!InstallAssumption
<1>10. /\ parts' = [parts EXCEPT ![I!Step(p).to] = j.out] /\ (j.out = parts[I!Step(p).to] \/ j.out > Len(data))
       /\ data' \in Seq(Seq(Chunk)) /\ Len(data) <= Len(data') /\ j.out \in 1 .. Len(data')
       /\ \A k \in 1 .. Len(data) : k # j.out => data'[k] = data[k]
       /\ j.off <= Chunks /\ data'[j.out] = [c \in 1 .. j.off |-> j.stream]
  BY <1>4, <1>6, <1>8, <1>9 DEF i
<1>11. QED
  BY <1>1, <1>2, <1>4, <1>7, <1>8, <1>10, DownloadKeeps

LEMMA WriteChunkKeeps == ASSUME InstallInv, NEW p \in Processes, I!WriteChunk(p) PROVE InstallInv'
<1>1. job[p].at = "write" /\ job[p].off < Chunks /\ AtWork(p)
  BY DEF I!WriteChunk, AtWork
<1>2. PlanOf(p) /\ DataOf(p) /\ job[p] \in Jobs
  BY <1>1, Working, Alone
<1>3. job[p].steps # <<>> /\ I!Step(p) \in Fetches /\ I!Step(p).to \in I!Paths
  BY <1>1, <1>2, StepsDiffer, PathsAre DEF PlanOf
<1>4. InstallTypeOK
  BY DEF InstallInv
<1> DEFINE o == job[p].out
           n == job[p].off
           x == job[p].stream
           j == Advanced(job[p], n + 1)
<1>5. parts[I!Step(p).to] = o /\ o # 0 /\ Written(o, n, x) /\ n \in Nat /\ x \in Chunk
  BY <1>1, <1>2 DEF DataOf, Jobs, Chunk
<1>6. o \in 1 .. Len(data) /\ data \in Seq(Seq(Chunk))
  BY <1>3, <1>4, <1>5 DEF InstallTypeOK
<1>7. data' = [data EXCEPT ![o] = I!Put(@, n + 1, x)] /\ job' = [job EXCEPT ![p] = j] /\ UNCHANGED <<machine, files, parts, deaths, cutFiles, stranded>>
  BY <1>2 DEF I!WriteChunk, Jobs, Advanced
<1>8. j \in Jobs /\ j.at = "write" /\ Same(j, job[p]) /\ j.out = o /\ j.off = n + 1 /\ j.stream = x
  <2>1. n + 1 \in Nat
    BY <1>5
  <2>2. QED
    BY <1>1, <1>2, <2>1, AdvancedIs
<1> HIDE DEF j, o, n, x
<1>9. /\ data' \in Seq(Seq(Chunk)) /\ Len(data') = Len(data) /\ data'[o] = [c \in 1 .. n + 1 |-> x]
      /\ \A m \in 1 .. Len(data) : m # o => data'[m] = data[m]
  <2>1. data \in Seq(Seq(Chunk)) /\ o \in 1 .. Len(data) /\ n \in Nat /\ x \in Chunk /\ Written(o, n, x)
    BY <1>5, <1>6
  <2>2. data' = [data EXCEPT ![o] = I!Put(@, n + 1, x)]
    BY <1>7
  <2>3. QED
    BY <2>1, <2>2, Writing
<1>10. parts' = [parts EXCEPT ![I!Step(p).to] = o]
  BY <1>3, <1>4, <1>5, <1>7 DEF InstallTypeOK
<1>11. n + 1 <= Chunks /\ Len(data) <= Len(data')
  BY <1>1, <1>5, <1>6, <1>9, Given, SMTT(30) DEF I!InstallAssumption, n
<1>12. /\ parts' = [parts EXCEPT ![I!Step(p).to] = j.out] /\ (j.out = parts[I!Step(p).to] \/ j.out > Len(data))
       /\ j.out \in 1 .. Len(data') /\ \A k \in 1 .. Len(data) : k # j.out => data'[k] = data[k]
       /\ j.off <= Chunks /\ data'[j.out] = [c \in 1 .. j.off |-> j.stream]
  BY <1>5, <1>6, <1>8, <1>9, <1>10, <1>11
<1>13. QED
  BY <1>1, <1>3, <1>7, <1>8, <1>9, <1>11, <1>12, DownloadKeeps

\* A file of an archive is being unpacked: its archive is whole, and so are its
\* copies of it so far.
LEMMA UnpackKeeps ==
  ASSUME InstallInv, NEW p \in Processes, AtWork(p), job[p].at \in {"run", "copy"},
         job[p].steps # <<>>, I!Step(p) \in Unpacks, I!Step(p).to = "lib" => ~I!Whole("lib"),
         NEW j \in Jobs, job' = [job EXCEPT ![p] = j],
         j.at = "copy", Same(j, job[p]), j.in = files[I!Step(p).from],
         UNCHANGED <<machine, parts, deaths, cutFiles, stranded>>,
         files' = [files EXCEPT ![I!Step(p).to] = j.out], j.out = files[I!Step(p).to] \/ j.out > Len(data),
         data' \in Seq(Seq(Chunk)), Len(data) <= Len(data'), j.out \in 1 .. Len(data'),
         \A k \in 1 .. Len(data) : k # j.out => data'[k] = data[k],
         j.off <= Chunks, data'[j.out] = [c \in 1 .. j.off |-> "good"]
  PROVE  InstallInv'
<1> DEFINE f == I!Step(p).to
           a == I!Step(p).from
<1>1. /\ PlanOf(p) /\ DataOf(p) /\ LibOf(p) /\ ExtrasOf(p) /\ CompanionsOf(p) /\ ReadyOf(p) /\ CleanOf(p)
      /\ job[p] \in Jobs /\ Others(p)
  BY Working, Alone
<1>2. job' \in [Processes -> Jobs] /\ job'[p] = j /\ \A q \in Processes \ {p} : job'[q] = job[q]
  BY Updated
<1>3. /\ I!Extras' = I!Extras /\ I!Companions' = I!Companions
      /\ \A st : \A held : Planned(st, held)' <=> Planned(st, held)
      /\ \A g : PlannedGoal(g)' <=> PlannedGoal(g)
  BY SameMachine
<1>4. f \in I!Paths /\ f \in I!Libraries /\ a \in I!Archives /\ a \in I!Paths /\ a # f /\ I!Step(p) = I!Unpack(f, a) /\ InSteps(p, I!Step(p))
  BY StepsDiffer, PathsAre, StepIs
<1>5. InstallTypeOK /\ Distinct /\ I!DownloadsWhole
  BY DEF InstallInv
<1>6. files \in [I!Paths -> 0 .. Len(data)] /\ parts \in [I!Paths -> 0 .. Len(data)] /\ Len(data) \in Nat /\ Len(data') \in Nat
  BY <1>5 DEF InstallTypeOK
<1>7. /\ \A g \in I!Paths : g # f /\ files[g] # 0 => files[g] \in 1 .. Len(data) /\ files[g] # j.out
      /\ \A g \in I!Paths : parts[g] # 0 => parts[g] \in 1 .. Len(data) /\ parts[g] # j.out
      /\ \A g \in I!Paths : g # f => files'[g] = files[g]
      /\ files'[f] = j.out /\ j.out # 0
  <2>1. j.out # 0 /\ \A k \in 1 .. Len(data) : k # files[f] => k # j.out
    BY <1>4, <1>6, SMTT(30)
  <2>2. ASSUME NEW g \in I!Paths, g # f, files[g] # 0 PROVE files[g] \in 1 .. Len(data) /\ files[g] # j.out
    <3>1. files[g] \in 1 .. Len(data)
      BY <1>6, <2>2
    <3>2. files[g] # files[f]
      BY <1>4, <1>5, <2>2 DEF Distinct
    <3>3. QED
      BY <2>1, <3>1, <3>2
  <2>3. ASSUME NEW g \in I!Paths, parts[g] # 0 PROVE parts[g] \in 1 .. Len(data) /\ parts[g] # j.out
    <3>1. parts[g] \in 1 .. Len(data)
      BY <1>6, <2>3
    <3>2. parts[g] # files[f]
      BY <1>4, <1>5, <2>3 DEF Distinct
    <3>3. QED
      BY <2>1, <3>1, <3>2
  <2>4. files'[f] = j.out /\ \A g \in I!Paths : g # f => files'[g] = files[g]
    BY <1>4, <1>6
  <2>5. QED
    BY <2>1, <2>2, <2>3, <2>4
<1>8. \A g \in I!Paths : g # f => (I!Present(g)' <=> I!Present(g)) /\ (I!Whole(g)' <=> I!Whole(g))
  BY <1>7, Untouched
<1>9. \A s : (InSteps(p, s)' <=> InSteps(p, s)) /\ (InTodo(p, s)' <=> InTodo(p, s))
  BY <1>2 DEF InSteps, InTodo, Same
<1>10. AtWork(p)' /\ I!Step(p)' = I!Step(p) /\ Copies(p, f)' /\ I!Present(f)'
  BY <1>2, <1>7 DEF AtWork, I!Step, Copies, Same, I!Present
<1>11. \A g : Copies(p, g) => g = f
  BY DEF Copies
<1>12. PlanOf(p)'
  BY <1>1, <1>2, <1>3, <1>9, <1>10, SMTT(40) DEF PlanOf, Same
<1>13. \A b \in job[p].held : I!Whole(b) /\ I!Whole(b)'
  <2>1. \A b \in job[p].held : I!Whole(b) /\ b \in I!Paths /\ b # f
    BY <1>1, <1>4, PathsAre, SMTT(30) DEF DataOf, Jobs
  <2>2. QED
    BY <1>8, <2>1
<1>14. a \in job[p].held
  <2>1. Planned(job[p].steps, job[p].held) /\ I!Step(p) = job[p].steps[1]
    BY StepIs, SMTT(30)
  <2>2. Len(job[p].steps) >= 1 /\ job[p].steps \in Seq(Steps)
    BY <2>1, TailIs DEF Planned
  <2>3. 1 \in 1 .. Len(job[p].steps) /\ 1 .. 1 - 1 = {}
    BY <2>2
  <2>4. QED
    BY <2>1, <2>3, SMTT(40) DEF Planned
<1>15. DataOf(p)'
  <2>1. \A b \in j.held : I!Whole(b)'
    BY <1>13 DEF Same
  <2>2. files'[f] = j.out /\ files'[a] = j.in /\ Written(j.out, j.off, "good")' /\ a \in j.held
    BY <1>4, <1>7, <1>14 DEF Written, Same
  <2>3. QED
    BY <1>2, <1>7, <1>10, <2>1, <2>2 DEF DataOf, Written
<1>16. LibOf(p)'
  <2>1. Ahead(p, UnpackLib)' => ~I!Present("lib")' \/ Copies(p, "lib")'
    BY <1>1, <1>4, <1>8, <1>9, <1>10, <1>11, PathsAre DEF LibOf, Ahead
  <2>2. I!Whole("lib")' \/ Ahead(p, InitLib)'
    BY <1>1, <1>8, <1>9, <1>10, PathsAre DEF LibOf, Ahead
  <2>3. \A g \in I!ToSet(I!Companions) : I!Present(g)' \/ Ahead(p, I!Unpack(g, "companion.archive"))'
    BY <1>1, <1>8, <1>9, <1>10, PathsAre DEF LibOf, Ahead
  <2>4. QED
    BY <1>3, <2>1, <2>2, <2>3 DEF LibOf
<1>17. ExtrasOf(p)'
  <2>1. SUFFICES ASSUME I!Present("lib")', NEW g \in I!ToSet(I!Extras), g \notin cutFiles, ~I!Whole(g)'
                 PROVE  InSteps(p, I!Unpack(g, "runtime.archive"))
    BY <1>3, <1>9, <1>10 DEF ExtrasOf
  <2>2. CASE f = g
    <3>1. \A s \in Unpacks : s.to = g => s = I!Unpack(g, "runtime.archive")
      <4>1. g \in {"providers_shared", "providers_cuda"}
        BY ExtrasAre
      <4>2. QED
        BY <4>1 DEF Unpacks, I!Unpack, UnpackLib
    <3>2. QED
      BY <1>4, <2>2, <3>1
  <2>3. CASE f = "lib"
    <3>1. I!Step(p) = UnpackLib
      BY <1>4, <2>3 DEF Unpacks, I!Unpack, UnpackLib
    <3>2. Planned(job[p].steps, job[p].held) /\ I!Step(p) = job[p].steps[1]
      BY StepIs, SMTT(30)
    <3>3. Len(job[p].steps) >= 1 /\ job[p].steps \in Seq(Steps)
      BY <3>2, TailIs DEF Planned
    <3>4. 1 \in 1 .. Len(job[p].steps) /\ \A i \in 1 + 1 .. Len(job[p].steps) : i \in 1 .. Len(job[p].steps)
      BY <3>3, SMTT(30)
    <3>5. PICK i \in 1 + 1 .. Len(job[p].steps) : job[p].steps[i] = I!Unpack(g, "runtime.archive")
      BY <3>1, <3>2, <3>4, SMTT(40) DEF Planned
    <3>6. QED
      BY <3>3, <3>4, <3>5, InRange DEF InSteps
  <2>4. CASE f # "lib" /\ f # g
    BY <1>1, <1>8, <2>1, <2>4, PathsAre DEF ExtrasOf
  <2>5. QED
    BY <2>2, <2>3, <2>4
<1>18. CompanionsOf(p)'
  <2>1. SUFFICES ASSUME NEW g \in I!ToSet(I!Companions), I!Present(g)', g # f
                 PROVE  g \in cutFiles \/ I!Whole(g)'
    BY <1>3, <1>10 DEF CompanionsOf
  <2>2. QED
    BY <1>1, <1>8, <1>11, <2>1, PathsAre DEF CompanionsOf
<1>19. ReadyOf(p)'
  <2>1. ~ \E r \in Processes : job[r].result = "ready"
    BY <1>1, <1>4 DEF ReadyOf
  <2>2. QED
    BY <1>2, <2>1 DEF ReadyOf, Same
<1>20. CleanOf(p)'
  BY <1>1, <1>2, <1>4, <1>8, PathsAre DEF CleanOf, Same
<1>21. InstallTypeOK'
  <2>1. parts' \in [I!Paths -> 0 .. Len(data')] /\ files' \in [I!Paths -> 0 .. Len(data')]
    BY <1>4, <1>6, SMTT(30)
  <2>2. QED
    BY <1>2, <1>5, <2>1 DEF InstallTypeOK
<1>22. Distinct'
  BY <1>4, <1>5, <1>6, <1>7, SMTT(30) DEF Distinct
<1>23. I!DownloadsWhole'
  BY <1>4, <1>5, <1>8, PathsAre DEF I!DownloadsWhole, ModelFiles
<1>24. QED
  BY <1>1, <1>2, <1>12, <1>15, <1>16, <1>17, <1>18, <1>19, <1>20, <1>21, <1>22, <1>23, Together

LEMMA OpenEntryKeeps == ASSUME InstallInv, NEW p \in Processes, I!OpenEntry(p) PROVE InstallInv'
<1> DEFINE f == I!Step(p).to
           i == files[f]
<1>1. job[p].at = "run" /\ job[p].steps # <<>> /\ I!Step(p).do = "unpack" /\ AtWork(p)
  BY DEF I!OpenEntry, I!Doing, AtWork
<1>2. /\ PlanOf(p) /\ DataOf(p) /\ LibOf(p) /\ job[p] \in Jobs
      /\ I!Step(p) \in Unpacks /\ f \in I!Paths /\ f \in I!Libraries /\ InSteps(p, I!Step(p)) /\ I!Step(p).from \in I!Paths
  BY <1>1, Working, Alone, StepIs, StepsDiffer, PathsAre
<1>3. InstallTypeOK
  BY DEF InstallInv
<1>4. I!Step(p).from \in job[p].held
  <2>1. Planned(job[p].steps, job[p].held) /\ I!Step(p) = job[p].steps[1]
    BY <1>1, StepIs
  <2>2. Len(job[p].steps) >= 1 /\ job[p].steps \in Seq(Steps)
    BY <1>1, <2>1, TailIs DEF Planned
  <2>3. 1 \in 1 .. Len(job[p].steps) /\ 1 .. 1 - 1 = {}
    BY <2>2
  <2>4. QED
    BY <1>2, <2>1, <2>3 DEF Planned
<1>5. I!Present(I!Step(p).from)
  BY <1>2, <1>4 DEF DataOf, I!Whole
<1>6. i \in 0 .. Len(data) /\ data \in Seq(Seq(Chunk)) /\ Len(data) \in Nat /\ files[I!Step(p).from] \in Nat
  BY <1>2, <1>3 DEF InstallTypeOK
<1>7. /\ data' = I!Truncated(i) /\ files' = [files EXCEPT ![f] = I!InodeFor(i)]
      /\ job' = [job EXCEPT ![p].at = "copy", ![p].out = I!InodeFor(i), ![p].in = files[I!Step(p).from], ![p].off = 0]
      /\ UNCHANGED <<machine, parts, deaths, cutFiles, stranded>>
  BY <1>5 DEF I!OpenEntry
<1> DEFINE j == Unpacking(job[p], I!InodeFor(i), files[I!Step(p).from])
<1>8. job' = [job EXCEPT ![p] = j]
  BY <1>3, <1>7 DEF InstallTypeOK, Unpacking
<1> HIDE DEF i
<1>9. /\ I!Truncated(i) \in Seq(Seq(Chunk)) /\ Len(data) <= Len(I!Truncated(i))
      /\ I!InodeFor(i) \in 1 .. Len(I!Truncated(i)) /\ (I!InodeFor(i) = i \/ I!InodeFor(i) > Len(data))
      /\ I!Truncated(i)[I!InodeFor(i)] = [c \in 1 .. 0 |-> "good"]
      /\ \A k \in 1 .. Len(data) : k # I!InodeFor(i) => I!Truncated(i)[k] = data[k]
  <2>1. /\ I!Truncated(i) \in Seq(Seq(Chunk)) /\ Len(data) <= Len(I!Truncated(i))
        /\ I!InodeFor(i) \in 1 .. Len(I!Truncated(i)) /\ I!InodeFor(i) \in {i, Len(data) + 1}
        /\ i # 0 => I!InodeFor(i) = i
        /\ \A s : I!Truncated(i)[I!InodeFor(i)] = [c \in 1 .. 0 |-> s]
        /\ \A k \in 1 .. Len(data) : k # i => I!Truncated(i)[k] = data[k]
    BY <1>6, Truncation
  <2>2. I!Truncated(i)[I!InodeFor(i)] = [c \in 1 .. 0 |-> "good"]
    BY <2>1
  <2>3. \A k \in 1 .. Len(data) : k # I!InodeFor(i) => k # i
    BY <1>6, <2>1
  <2>4. I!InodeFor(i) = i \/ I!InodeFor(i) > Len(data)
    BY <1>6, <2>1
  <2>5. QED
    BY <2>1, <2>2, <2>3, <2>4
<1>10. I!InodeFor(i) \in Nat
  BY <1>6 DEF I!InodeFor
<1>11. j \in Jobs
  BY <1>2, <1>6, <1>10, UnpackingIs
<1>12. j.at = "copy"
  BY <1>2, <1>6, <1>10, UnpackingIs
<1>13. Same(j, job[p])
  BY <1>2, UnpackingSame
<1>14. j.in = files[I!Step(p).from]
  BY <1>2 DEF Jobs, Unpacking, Same
<1>15. j.out = I!InodeFor(i)
  BY <1>2 DEF Jobs, Unpacking, Same
<1>16. j.off = 0
  BY <1>2 DEF Jobs, Unpacking, Same
<1> HIDE DEF j
<1>17. 0 <= Chunks
  BY Given DEF I!InstallAssumption
<1>18. f = "lib" => ~I!Whole("lib")
  <2>1. SUFFICES ASSUME f = "lib" PROVE ~I!Present("lib")
    BY DEF I!Whole
  <2>2. I!Step(p) = UnpackLib
    BY <1>2, <2>1 DEF Unpacks, I!Unpack, UnpackLib
  <2>3. ~Copies(p, "lib")
    BY <1>1 DEF Copies
  <2>4. QED
    BY <1>1, <1>2, <2>2, <2>3 DEF LibOf, Ahead
<1>19. /\ files' = [files EXCEPT ![f] = j.out] /\ (j.out = files[f] \/ j.out > Len(data))
       /\ data' \in Seq(Seq(Chunk)) /\ Len(data) <= Len(data') /\ j.out \in 1 .. Len(data')
       /\ \A k \in 1 .. Len(data) : k # j.out => data'[k] = data[k]
       /\ j.off <= Chunks /\ data'[j.out] = [c \in 1 .. j.off |-> "good"]
  BY <1>7, <1>9, <1>15, <1>16, <1>17 DEF i
<1>20. QED
  BY <1>1, <1>2, <1>7, <1>8, <1>11, <1>12, <1>13, <1>14, <1>18, <1>19, UnpackKeeps

LEMMA CopyChunkKeeps == ASSUME InstallInv, NEW p \in Processes, I!CopyChunk(p) PROVE InstallInv'
<1> DEFINE f == I!Step(p).to
           o == job[p].out
           n == job[p].off
           j == Advanced(job[p], n + 1)
<1>1. job[p].at = "copy" /\ job[p].off < Chunks /\ AtWork(p)
  BY DEF I!CopyChunk, AtWork
<1>2. PlanOf(p) /\ DataOf(p) /\ job[p] \in Jobs
  BY <1>1, Working, Alone
<1>3. job[p].steps # <<>> /\ I!Step(p) \in Unpacks /\ f \in I!Paths
  BY <1>1, <1>2, StepsDiffer, PathsAre DEF PlanOf
<1>4. InstallTypeOK
  BY DEF InstallInv
<1>5. /\ files[f] = o /\ o # 0 /\ Written(o, n, "good") /\ n \in Nat /\ files[I!Step(p).from] = job[p].in
      /\ I!Whole(I!Step(p).from)
  BY <1>1, <1>2 DEF DataOf, Jobs
<1>6. o \in 1 .. Len(data) /\ data \in Seq(Seq(Chunk))
  BY <1>3, <1>4, <1>5 DEF InstallTypeOK
<1>7. Chunks \in Nat /\ n + 1 \in 1 .. Chunks /\ n + 1 \in Nat
  BY <1>1, <1>5, Given DEF I!InstallAssumption
<1>8. n + 1 <= Len(data[job[p].in]) /\ data[job[p].in][n + 1] = "good"
  <2>1. data[job[p].in] = [c \in 1 .. Chunks |-> "good"]
    BY <1>5 DEF I!Whole
  <2>2. QED
    BY <1>7, <2>1
<1>9. data' = [data EXCEPT ![o] = I!Put(@, n + 1, "good")] /\ UNCHANGED <<machine, files, parts, deaths, cutFiles, stranded>>
  BY <1>8 DEF I!CopyChunk
<1>10. job' = [job EXCEPT ![p] = j]
  BY <1>4, <1>8 DEF I!CopyChunk, Advanced, InstallTypeOK
<1>11. j \in Jobs
  BY <1>2, <1>7, AdvancedIs
<1>12. j.at = "copy"
  BY <1>1, <1>2, <1>7, AdvancedIs
<1>13. Same(j, job[p])
  BY <1>2, <1>7, AdvancedIs
<1>14. j.in = job[p].in
  BY <1>2, <1>7, AdvancedIs
<1>15. j.out = o
  BY <1>2, <1>7, AdvancedIs
<1>16. j.off = n + 1
  BY <1>2, <1>7, AdvancedIs
<1>17. f = "lib" => ~I!Whole("lib")
  <2>1. SUFFICES ASSUME [c \in 1 .. n |-> "good"] = [c \in 1 .. Chunks |-> "good"] PROVE FALSE
    BY <1>5 DEF I!Whole, Written
  <2>2. 1 .. n = 1 .. Chunks
    BY <2>1
  <2>3. QED
    BY <1>1, <1>5, <1>7, <2>2
<1> HIDE DEF j, o, n
<1>18. /\ data' \in Seq(Seq(Chunk)) /\ Len(data') = Len(data) /\ data'[o] = [c \in 1 .. n + 1 |-> "good"]
       /\ \A m \in 1 .. Len(data) : m # o => data'[m] = data[m]
  <2>1. "good" \in Chunk
    BY DEF Chunk
  <2>2. QED
    BY <1>5, <1>6, <1>9, <2>1, Writing, ZenonT(40)
<1>19. files' = [files EXCEPT ![f] = o]
  BY <1>3, <1>4, <1>5, <1>9 DEF InstallTypeOK
<1>20. /\ files' = [files EXCEPT ![f] = j.out] /\ (j.out = files[f] \/ j.out > Len(data)) /\ j.in = files[I!Step(p).from]
       /\ data' \in Seq(Seq(Chunk)) /\ Len(data) <= Len(data') /\ j.out \in 1 .. Len(data')
       /\ \A k \in 1 .. Len(data) : k # j.out => data'[k] = data[k]
       /\ j.off <= Chunks /\ data'[j.out] = [c \in 1 .. j.off |-> "good"]
  BY <1>5, <1>6, <1>7, <1>14, <1>15, <1>16, <1>18, <1>19
<1>21. QED
  BY <1>1, <1>3, <1>9, <1>10, <1>11, <1>12, <1>13, <1>17, <1>20, UnpackKeeps

\* A step is done.
LEMMA DoneKeeps ==
  ASSUME InstallInv, NEW p \in Processes, AtWork(p), job[p].steps # <<>>,
         job' = [job EXCEPT ![p] = DoneWith(job[p], HeldAfter(job[p].held, I!Step(p)))],
         UNCHANGED <<machine, data, deaths, cutFiles, stranded>>,
         files' \in [I!Paths -> 0 .. Len(data)], parts' \in [I!Paths -> 0 .. Len(data)], Distinct', I!DownloadsWhole',
         \A f \in I!Libraries : files'[f] = files[f],
         \A a \in HeldAfter(job[p].held, I!Step(p)) : I!Whole(a)',
         deaths = 0 => /\ \A f \in I!Paths : parts'[f] = 0 \/ f \in stranded
                       /\ \A a \in I!Archives : I!Present(a)' => a \in HeldAfter(job[p].held, I!Step(p)),
         I!Step(p) \in Unpacks => I!Whole(I!Step(p).to), I!Step(p) = InitLib => I!Whole("lib")
  PROVE  InstallInv'
<1> DEFINE h == HeldAfter(job[p].held, I!Step(p))
           j == DoneWith(job[p], h)
<1>1. /\ PlanOf(p) /\ DataOf(p) /\ LibOf(p) /\ ExtrasOf(p) /\ CompanionsOf(p) /\ ReadyOf(p) /\ CleanOf(p)
      /\ job[p] \in Jobs /\ Others(p)
  BY Working, Alone
<1>2. h \subseteq I!Archives
  BY <1>1 DEF HeldAfter, Jobs
<1> HIDE DEF h
<1>3. j \in Jobs /\ j.at = "run" /\ j.todo = job[p].todo /\ j.steps = Tail(job[p].steps) /\ j.held = h
      /\ j.result = job[p].result
  BY <1>1, <1>2, DoneWithIs
<1>4. job' = [job EXCEPT ![p] = j]
  BY DEF h
<1> HIDE DEF j
<1>5. job' \in [Processes -> Jobs] /\ job'[p] = j /\ \A q \in Processes \ {p} : job'[q] = job[q]
  BY <1>3, <1>4, Updated
<1>6. job[p].result = "none" /\ AtWork(p)' /\ \A g : ~Copies(p, g)'
  BY <1>1, <1>3, <1>5 DEF PlanOf, AtWork, Copies
<1>7. /\ PlanOf(p)' /\ I!ToSet(job[p].steps) = {I!Step(p)} \union I!ToSet(job'[p].steps)
      /\ I!Step(p) \in Unpacks => I!Step(p) \notin I!ToSet(job'[p].steps)
  BY <1>3, <1>5, <1>6, PlanDone DEF h
<1>8. I!Extras' = I!Extras /\ I!Companions' = I!Companions
  BY SameMachine
<1>9. \A f \in I!Libraries : (I!Present(f)' <=> I!Present(f)) /\ (I!Whole(f)' <=> I!Whole(f))
  BY Untouched
<1>10. \A s : /\ InSteps(p, s) <=> s = I!Step(p) \/ InSteps(p, s)'
              /\ InTodo(p, s)' <=> InTodo(p, s)
  BY <1>3, <1>5, <1>7 DEF InSteps, InTodo
<1>11. \A s \in Unpacks : ~InTodo(p, s)
  BY <1>1 DEF PlanOf, InTodo
<1>12. \A f : Copies(p, f) => I!Step(p) \in Unpacks /\ I!Step(p).to = f
  BY <1>1 DEF Copies, PlanOf, AtWork
<1>13. DataOf(p)'
  BY <1>3, <1>5 DEF DataOf, h
<1>14. LibOf(p)'
  <2>1. ASSUME Ahead(p, UnpackLib)' PROVE ~I!Present("lib")
    <3>1. InSteps(p, UnpackLib)' /\ Ahead(p, UnpackLib)
      BY <1>6, <1>10, <1>11, <2>1, PathsAre DEF Ahead
    <3>2. I!Step(p) \in Unpacks => I!Step(p) # UnpackLib
      BY <1>7, <3>1 DEF InSteps
    <3>3. ~Copies(p, "lib")
      BY <1>12, <3>2 DEF Unpacks, I!Unpack, UnpackLib
    <3>4. QED
      BY <1>1, <3>1, <3>3 DEF LibOf, Ahead
  <2>2. I!Whole("lib") \/ Ahead(p, InitLib)'
    BY <1>1, <1>6, <1>10 DEF LibOf, Ahead
  <2>3. \A f \in I!ToSet(I!Companions) : I!Present(f) \/ Ahead(p, I!Unpack(f, "companion.archive"))'
    <3>1. SUFFICES ASSUME NEW f \in I!ToSet(I!Companions), ~I!Present(f) PROVE Ahead(p, I!Unpack(f, "companion.archive"))'
      OBVIOUS
    <3>2. I!Step(p) # I!Unpack(f, "companion.archive")
      <4>1. I!Unpack(f, "companion.archive") \in Unpacks /\ I!Unpack(f, "companion.archive").to = f
        BY PathsAre DEF I!Unpack
      <4>2. QED
        BY <3>1, <4>1 DEF I!Whole
    <3>3. QED
      BY <1>1, <1>6, <1>10, <3>1, <3>2 DEF LibOf, Ahead
  <2>4. QED
    BY <1>8, <1>9, <2>1, <2>2, <2>3, PathsAre DEF LibOf
<1>15. ExtrasOf(p)'
  <2>1. SUFFICES ASSUME I!Present("lib"), NEW f \in I!ToSet(I!Extras), f \notin cutFiles, ~I!Whole(f)
                 PROVE  InSteps(p, I!Unpack(f, "runtime.archive"))'
    BY <1>6, <1>8, <1>9, PathsAre DEF ExtrasOf
  <2>2. I!Step(p) # I!Unpack(f, "runtime.archive")
    <3>1. I!Unpack(f, "runtime.archive") \in Unpacks /\ I!Unpack(f, "runtime.archive").to = f
      BY PathsAre DEF I!Unpack
    <3>2. QED
      BY <2>1, <3>1
  <2>3. QED
    BY <1>1, <1>10, <2>1, <2>2 DEF ExtrasOf
<1>16. CompanionsOf(p)'
  <2>1. SUFFICES ASSUME NEW f \in I!ToSet(I!Companions), I!Present(f), f \notin cutFiles PROVE I!Whole(f)
    BY <1>8, <1>9, PathsAre DEF CompanionsOf
  <2>2. QED
    BY <1>1, <1>12, <2>1 DEF CompanionsOf
<1>17. ReadyOf(p)'
  BY <1>1, <1>3, <1>5, <1>6, <1>8, <1>9, <1>10, PathsAre DEF ReadyOf
<1>18. CleanOf(p)'
  BY <1>3, <1>5 DEF CleanOf, h
<1>19. InstallTypeOK'
  BY <1>5 DEF InstallInv, InstallTypeOK
<1>20. QED
  BY <1>1, <1>5, <1>7, <1>13, <1>14, <1>15, <1>16, <1>17, <1>18, <1>19, Together

LEMMA CloseEntryKeeps == ASSUME InstallInv, NEW p \in Processes, I!CloseEntry(p) PROVE InstallInv'
<1>1. /\ job[p].at = "copy" /\ job[p].off = Chunks /\ AtWork(p)
      /\ UNCHANGED <<machine, files, parts, data, deaths, cutFiles, stranded>> /\ job' = [job EXCEPT ![p] = I!StepDone(p)]
  BY DEF I!CloseEntry, AtWork
<1>2. PlanOf(p) /\ DataOf(p) /\ CleanOf(p) /\ job[p] \in Jobs /\ InstallTypeOK /\ Distinct /\ I!DownloadsWhole
  BY <1>1, Working, Alone DEF InstallInv
<1>3. job[p].steps # <<>> /\ I!Step(p) \in Unpacks
  BY <1>1, <1>2 DEF PlanOf
<1>4. HeldAfter(job[p].held, I!Step(p)) = job[p].held /\ I!Step(p) # InitLib
  BY <1>3, StepsDiffer DEF HeldAfter
<1>5. I!StepDone(p) = DoneWith(job[p], job[p].held)
  BY <1>2 DEF I!StepDone, DoneWith, Jobs
<1>6. I!Whole(I!Step(p).to)
  BY <1>1, <1>2 DEF DataOf, Written, I!Whole, I!Present
<1>7. \A g : (I!Present(g)' <=> I!Present(g)) /\ (I!Whole(g)' <=> I!Whole(g))
  BY <1>1, Untouched
<1>8. Distinct' /\ I!DownloadsWhole'
  BY <1>1, <1>2, <1>7 DEF Distinct, I!DownloadsWhole
<1>9. \A a \in job[p].held : I!Whole(a)'
  BY <1>2, <1>7 DEF DataOf
<1>10. deaths = 0 => (\A f \in I!Paths : parts'[f] = 0 \/ f \in stranded) /\ \A a \in I!Archives : I!Present(a)' => a \in job[p].held
  BY <1>1, <1>2, <1>7 DEF CleanOf
<1>11. files' \in [I!Paths -> 0 .. Len(data)] /\ parts' \in [I!Paths -> 0 .. Len(data)]
  BY <1>1, <1>2 DEF InstallTypeOK
<1>12. QED
  BY <1>1, <1>3, <1>4, <1>5, <1>6, <1>8, <1>9, <1>10, <1>11, DoneKeeps

LEMMA DropArchiveKeeps == ASSUME InstallInv, NEW p \in Processes, I!DropArchive(p) PROVE InstallInv'
<1>0. PICK d : d = I!Step(p).to
  OBVIOUS
<1>1. /\ job[p].at = "run" /\ job[p].steps # <<>> /\ I!Step(p).do = "drop" /\ AtWork(p)
      /\ UNCHANGED <<machine, parts, data, deaths, cutFiles, stranded>> /\ files' = [files EXCEPT ![d] = 0]
      /\ job' = [job EXCEPT ![p] = [I!StepDone(p) EXCEPT !.held = @ \ {d}]]
  BY <1>0 DEF I!DropArchive, I!Doing, AtWork
<1>2. DataOf(p) /\ CleanOf(p) /\ job[p] \in Jobs /\ InstallTypeOK /\ Distinct /\ I!DownloadsWhole
  BY <1>1, Working, Alone DEF InstallInv
<1>3. I!Step(p) \in Drops /\ d \in I!Archives /\ d \in I!Paths /\ d \notin I!Libraries /\ d \notin ModelFiles
  BY <1>0, <1>1, StepIs, StepsDiffer, PathsAre
<1>4. HeldAfter(job[p].held, I!Step(p)) = job[p].held \ {d} /\ I!Step(p) # InitLib /\ I!Step(p) \notin Unpacks
  BY <1>0, <1>1, <1>3, StepsDiffer DEF HeldAfter
<1>5. [I!StepDone(p) EXCEPT !.held = @ \ {d}] = DoneWith(job[p], job[p].held \ {d})
  BY <1>2 DEF I!StepDone, DoneWith, Jobs
<1>6. \A g \in I!Paths : g # d => files'[g] = files[g] /\ (I!Present(g)' <=> I!Present(g)) /\ (I!Whole(g)' <=> I!Whole(g))
  BY <1>1, <1>2, Untouched DEF InstallTypeOK
<1>7. ~I!Present(d)'
  <2>1. files \in [I!Paths -> 0 .. Len(data)]
    BY <1>2 DEF InstallTypeOK
  <2>2. files'[d] = 0
    BY <1>1, <1>3, <2>1
  <2>3. QED
    BY <2>2 DEF I!Present
<1>8. files' \in [I!Paths -> 0 .. Len(data)] /\ parts' \in [I!Paths -> 0 .. Len(data)]
  <2>1. 0 \in 0 .. Len(data)
    BY <1>2 DEF InstallTypeOK
  <2>2. QED
    BY <1>1, <1>2, <2>1 DEF InstallTypeOK
<1>9. Distinct'
  BY <1>1, <1>2, <1>3, <1>6, <1>7 DEF Distinct, I!Present
<1>10. I!DownloadsWhole'
  BY <1>2, <1>3, <1>6, PathsAre DEF I!DownloadsWhole, ModelFiles
<1>11. \A a \in job[p].held \ {d} : I!Whole(a)'
  BY <1>2, <1>6, PathsAre DEF DataOf, Jobs
<1>12. deaths = 0 => (\A f \in I!Paths : parts'[f] = 0 \/ f \in stranded) /\ \A a \in I!Archives : I!Present(a)' => a \in job[p].held \ {d}
  <2>1. deaths = 0 => (\A f \in I!Paths : parts[f] = 0 \/ f \in stranded) /\ \A a \in I!Archives : I!Present(a) => a \in job[p].held
    BY <1>1, <1>2 DEF CleanOf
  <2>2. \A a \in I!Archives : I!Present(a)' => I!Present(a) /\ a # d
    BY <1>6, <1>7, PathsAre
  <2>3. QED
    BY <1>1, <2>1, <2>2
<1>13. \A f \in I!Libraries : files'[f] = files[f]
  BY <1>3, <1>6, PathsAre
<1>14. QED
  BY <1>1, <1>4, <1>5, <1>8, <1>9, <1>10, <1>11, <1>12, <1>13, DoneKeeps

LEMMA InitializeEnvironmentDone ==
  ASSUME InstallInv, NEW p \in Processes, I!InitializeEnvironment(p), I!Whole("lib") PROVE InstallInv'
<1>1. /\ job[p].at = "run" /\ job[p].steps # <<>> /\ I!Step(p).do = "init" /\ AtWork(p)
      /\ UNCHANGED <<machine, files, parts, data, deaths, cutFiles, stranded>> /\ job' = [job EXCEPT ![p] = I!StepDone(p)]
  BY DEF I!InitializeEnvironment, I!Doing, AtWork
<1>2. DataOf(p) /\ CleanOf(p) /\ job[p] \in Jobs /\ InstallTypeOK /\ Distinct /\ I!DownloadsWhole
  BY <1>1, Working, Alone DEF InstallInv
<1>3. HeldAfter(job[p].held, I!Step(p)) = job[p].held /\ I!Step(p) \notin Unpacks
  BY <1>1, StepsDiffer DEF HeldAfter
<1>4. I!StepDone(p) = DoneWith(job[p], job[p].held)
  BY <1>2 DEF I!StepDone, DoneWith, Jobs
<1>5. \A g : (I!Present(g)' <=> I!Present(g)) /\ (I!Whole(g)' <=> I!Whole(g))
  BY <1>1, Untouched
<1>6. Distinct' /\ I!DownloadsWhole'
  BY <1>1, <1>2, <1>5 DEF Distinct, I!DownloadsWhole
<1>7. \A a \in job[p].held : I!Whole(a)'
  BY <1>2, <1>5 DEF DataOf
<1>8. deaths = 0 => (\A f \in I!Paths : parts'[f] = 0 \/ f \in stranded) /\ \A a \in I!Archives : I!Present(a)' => a \in job[p].held
  BY <1>1, <1>2, <1>5 DEF CleanOf
<1>9. files' \in [I!Paths -> 0 .. Len(data)] /\ parts' \in [I!Paths -> 0 .. Len(data)]
  BY <1>1, <1>2 DEF InstallTypeOK
<1>10. QED
  BY <1>1, <1>3, <1>4, <1>6, <1>7, <1>8, <1>9, DoneKeeps

LEMMA DownloadDone ==
  ASSUME InstallInv, NEW p \in Processes, I!FinishDownload(p), I!Verified(p), parts[I!Step(p).to] # 0 PROVE InstallInv'
<1>0. PICK f : f = I!Step(p).to
  OBVIOUS
<1> DEFINE h == job[p].held \union ({f} \intersect I!Archives)
<1>1. /\ job[p].at = "write" /\ job[p].off = Chunks /\ AtWork(p)
      /\ UNCHANGED <<machine, data, deaths, cutFiles, stranded>> /\ parts' = [parts EXCEPT ![f] = 0]
      /\ files' = [files EXCEPT ![f] = parts[f]]
      /\ job' = [job EXCEPT ![p] = [I!StepDone(p) EXCEPT !.held = @ \union ({f} \intersect I!Archives)]]
  BY <1>0 DEF I!FinishDownload, AtWork
<1>2. PlanOf(p) /\ DataOf(p) /\ CleanOf(p) /\ job[p] \in Jobs /\ InstallTypeOK /\ Distinct /\ I!DownloadsWhole
  BY <1>1, Working, Alone DEF InstallInv
<1>3. job[p].steps # <<>> /\ I!Step(p) \in Fetches
  BY <1>1, <1>2 DEF PlanOf
<1>4. f \in I!Paths /\ f \notin I!Libraries /\ I!Step(p) \notin Unpacks /\ I!Step(p) # InitLib
  BY <1>0, <1>3, StepsDiffer, PathsAre
<1>5. HeldAfter(job[p].held, I!Step(p)) = h
  BY <1>0, <1>3 DEF HeldAfter
<1>6. [I!StepDone(p) EXCEPT !.held = @ \union ({f} \intersect I!Archives)] = DoneWith(job[p], h)
  BY <1>2 DEF I!StepDone, DoneWith, Jobs
<1>7. files \in [I!Paths -> 0 .. Len(data)] /\ parts \in [I!Paths -> 0 .. Len(data)] /\ Len(data) \in Nat
  BY <1>2 DEF InstallTypeOK
<1>8. /\ files'[f] = parts[f] /\ parts'[f] = 0
      /\ \A g \in I!Paths : g # f => files'[g] = files[g] /\ parts'[g] = parts[g]
  BY <1>1, <1>4, <1>7
<1>9. \A g \in I!Paths : g # f => (I!Present(g)' <=> I!Present(g)) /\ (I!Whole(g)' <=> I!Whole(g))
  BY <1>1, <1>8, Untouched
<1>10. I!Whole(f)' /\ I!Present(f)'
  <2>1. data[parts[f]] = [c \in 1 .. Chunks |-> "good"]
    BY <1>0, <1>1, <1>2 DEF DataOf, Written, I!Verified
  <2>2. QED
    BY <1>0, <1>1, <1>8, <2>1 DEF I!Whole, I!Present
<1>11. files' \in [I!Paths -> 0 .. Len(data)] /\ parts' \in [I!Paths -> 0 .. Len(data)]
  <2>1. 0 \in 0 .. Len(data) /\ parts[f] \in 0 .. Len(data)
    BY <1>4, <1>7
  <2>2. QED
    BY <1>1, <1>7, <2>1
<1>12. Distinct'
  <2>1. SUFFICES ASSUME NEW g \in I!Paths, NEW k \in I!Paths
                 PROVE  /\ files'[g] # 0 /\ files'[g] = files'[k] => g = k
                        /\ parts'[g] # 0 /\ parts'[g] = parts'[k] => g = k
                        /\ files'[g] # 0 => files'[g] # parts'[k]
    BY DEF Distinct
  <2>2. /\ files[g] # 0 /\ files[g] = files[k] => g = k
        /\ parts[g] # 0 /\ parts[g] = parts[k] => g = k
        /\ files[g] # 0 => files[g] # parts[k] /\ files[g] # parts[f]
        /\ files[k] # 0 => files[k] # parts[f]
        /\ k # f => parts[k] # parts[f]
    BY <1>0, <1>2, <1>4 DEF Distinct
  <2>3. QED
    BY <1>8, <2>2
<1>13. I!DownloadsWhole'
  BY <1>2, <1>9, <1>10, PathsAre DEF I!DownloadsWhole, ModelFiles
<1>14. \A a \in h : I!Whole(a)'
  BY <1>2, <1>9, <1>10, PathsAre DEF DataOf, Jobs
<1>15. deaths = 0 => (\A g \in I!Paths : parts'[g] = 0 \/ g \in stranded) /\ \A a \in I!Archives : I!Present(a)' => a \in h
  <2>1. deaths = 0 => (\A g \in I!Paths : parts[g] # 0 => g = f \/ g \in stranded) /\ \A a \in I!Archives : I!Present(a) => a \in job[p].held
    BY <1>0, <1>2 DEF CleanOf
  <2>2. \A a \in I!Archives : I!Present(a)' => I!Present(a) \/ a = f
    BY <1>9, PathsAre
  <2>3. QED
    BY <1>8, <2>1, <2>2
<1>16. \A g \in I!Libraries : files'[g] = files[g]
  BY <1>4, <1>8, PathsAre
<1>17. QED
  BY <1>1, <1>3, <1>4, <1>5, <1>6, <1>11, <1>12, <1>13, <1>14, <1>15, <1>16, DoneKeeps

\* p ends, and whatever it leaves is known to be cut off.
LEMMA Stops ==
  ASSUME InstallInv, NEW p \in Processes, AtWork(p), NEW r \in {"failed", "dead", "ready"}, job' = [job EXCEPT ![p] = I!Off(r)],
         UNCHANGED <<machine, data>>, deaths' \in Nat, stranded \subseteq stranded', cutFiles \subseteq cutFiles', cutFiles' \subseteq I!Paths,
         \A f \in I!Paths : files'[f] \in {files[f], 0} /\ parts'[f] \in {parts[f], 0},
         files' \in [I!Paths -> 0 .. Len(data)], parts' \in [I!Paths -> 0 .. Len(data)],
         \A f \in I!Paths \ I!Archives : files'[f] = files[f],
         \A f \in I!ToSet(I!Extras) : I!Present("lib") /\ InSteps(p, I!Unpack(f, "runtime.archive")) => f \in cutFiles',
         \A f \in I!ToSet(I!Companions) : Copies(p, f) => f \in cutFiles',
         deaths' = 0 => /\ deaths = 0 /\ \A a \in job[p].held : files'[a] = 0
                        /\ \A f \in I!Paths : job[p].at = "write" /\ I!Step(p).to = f => parts'[f] = 0 \/ f \in stranded',
         r = "ready" => /\ I!Whole("lib") /\ \A f \in I!ToSet(I!Companions) : I!Present(f)
                        /\ machine.asked \in {"cuda", "directml"} => machine.attaches
  PROVE  InstallInv'
<1>1. /\ PlanOf(p) /\ DataOf(p) /\ LibOf(p) /\ ExtrasOf(p) /\ CompanionsOf(p) /\ ReadyOf(p) /\ CleanOf(p)
      /\ job[p] \in Jobs /\ Others(p)
  BY Working, Alone
<1>2. /\ I!Off(r) \in Jobs /\ I!Off(r).at = "off" /\ I!Off(r).steps = <<>> /\ I!Off(r).held = {} /\ I!Off(r).result = r
  BY DEF I!Off, Jobs
<1>3. job' \in [Processes -> Jobs] /\ job'[p] = I!Off(r) /\ \A q \in Processes \ {p} : job'[q] = job[q]
  BY <1>2, Updated
<1>4. ~AtWork(p)' /\ job'[p].at = "off" /\ job'[p].steps = <<>> /\ job'[p].held = {} /\ job'[p].result = r
  BY <1>2, <1>3 DEF AtWork
<1>5. I!Extras' = I!Extras /\ I!Companions' = I!Companions
  BY SameMachine
<1>6. \A f \in I!Libraries \union ModelFiles : (I!Present(f)' <=> I!Present(f)) /\ (I!Whole(f)' <=> I!Whole(f))
  BY Untouched, PathsAre
<1>7. PlanOf(p)' /\ DataOf(p)' /\ LibOf(p)'
  BY <1>4 DEF PlanOf, DataOf, LibOf
<1>8. ExtrasOf(p)'
  <2>1. SUFFICES ASSUME I!Present("lib"), NEW f \in I!ToSet(I!Extras), f \notin cutFiles', ~I!Whole(f) PROVE FALSE
    BY <1>5, <1>6, PathsAre DEF ExtrasOf
  <2>2. QED
    BY <1>1, <2>1 DEF ExtrasOf
<1>9. CompanionsOf(p)'
  <2>1. SUFFICES ASSUME NEW f \in I!ToSet(I!Companions), I!Present(f), f \notin cutFiles' PROVE I!Whole(f)
    BY <1>5, <1>6, PathsAre DEF CompanionsOf
  <2>2. QED
    BY <1>1, <2>1 DEF CompanionsOf
<1>10. ReadyOf(p)'
  <2>1. SUFFICES ASSUME \E q \in Processes : job'[q].result = "ready"
                 PROVE  /\ I!Whole("lib") /\ \A f \in I!ToSet(I!Companions) : I!Present(f)
                        /\ machine.asked \in {"cuda", "directml"} => machine.attaches
    BY <1>4, <1>5, <1>6, PathsAre DEF ReadyOf
  <2>2. CASE r = "ready"
    BY <2>2
  <2>3. CASE r # "ready"
    BY <1>1, <1>3, <1>4, <2>1, <2>3 DEF ReadyOf
  <2>4. QED
    BY <2>2, <2>3
<1>11. CleanOf(p)'
  <2>1. SUFFICES ASSUME deaths' = 0
                 PROVE  (\A f \in I!Paths : parts'[f] = 0 \/ f \in stranded') /\ \A a \in I!Archives : files'[a] = 0
    BY DEF CleanOf, I!Present
  <2>2. ASSUME NEW f \in I!Paths PROVE parts'[f] = 0 \/ f \in stranded'
    BY <1>1, <2>1 DEF CleanOf
  <2>3. ASSUME NEW a \in I!Archives PROVE files'[a] = 0
    BY <1>1, <2>1, PathsAre DEF CleanOf, I!Present
  <2>4. QED
    BY <2>2, <2>3
<1>12. InstallTypeOK'
  BY <1>3 DEF InstallInv, InstallTypeOK
<1>13. Distinct'
  <2>1. SUFFICES ASSUME NEW g \in I!Paths, NEW k \in I!Paths
                 PROVE  /\ files'[g] # 0 /\ files'[g] = files'[k] => g = k
                        /\ parts'[g] # 0 /\ parts'[g] = parts'[k] => g = k
                        /\ files'[g] # 0 => files'[g] # parts'[k]
    BY DEF Distinct
  <2>2. /\ files[g] # 0 /\ files[g] = files[k] => g = k
        /\ parts[g] # 0 /\ parts[g] = parts[k] => g = k
        /\ files[g] # 0 => files[g] # parts[k]
    BY DEF InstallInv, Distinct
  <2>3. QED
    BY <2>2
<1>14. I!DownloadsWhole'
  BY <1>6 DEF InstallInv, I!DownloadsWhole, ModelFiles
<1>15. QED
  BY <1>1, <1>3, <1>7, <1>8, <1>9, <1>10, <1>11, <1>12, <1>13, <1>14, Together

\* Nothing of an archive is half unpacked where p is not unpacking any.
LEMMA WritingLib ==
  ASSUME InstallInv, NEW p \in Processes, job[p].at = "write" \/ (AtWork(p) /\ job[p].at # "copy" /\ job[p].steps # <<>> /\ I!Step(p) \in Fetches),
         NEW f \in I!ToSet(I!Extras), InSteps(p, I!Unpack(f, "runtime.archive"))
  PROVE  ~I!Present("lib")
<1>1. AtWork(p) /\ job[p].at # "copy"
  BY DEF AtWork
<1>2. PlanOf(p) /\ LibOf(p)
  BY <1>1, Working, Alone
<1>3. job[p].steps # <<>> /\ I!Step(p) \in Fetches
  BY <1>1, <1>2 DEF PlanOf
<1>4. Planned(job[p].steps, job[p].held) /\ I!Step(p) = job[p].steps[1]
  BY <1>1, <1>3, StepIs
<1>5. job[p].steps \in Seq(Steps) /\ Len(job[p].steps) >= 1
  BY <1>3, <1>4, TailIs DEF Planned
<1>6. PICK i \in 1 .. Len(job[p].steps) : job[p].steps[i] = I!Unpack(f, "runtime.archive")
  BY <1>5, InRange DEF InSteps
<1>7. i # 1 /\ 1 \in 1 .. Len(job[p].steps)
  <2>1. I!Unpack(f, "runtime.archive").do # "fetch"
    BY DEF I!Unpack
  <2>2. QED
    BY <1>3, <1>4, <1>5, <1>6, <2>1, StepsDiffer
<1>8. PICK k \in 1 + 1 .. Len(job[p].steps) : job[p].steps[k] = UnpackLib
  <2>1. 1 < i
    BY <1>5, <1>6, <1>7
  <2>2. QED
    BY <1>3, <1>4, <1>6, <1>7, <2>1 DEF Planned
<1>9. k \in 1 .. Len(job[p].steps)
  BY <1>5, <1>8
<1>10. Ahead(p, UnpackLib)
  BY <1>1, <1>5, <1>8, <1>9, InRange DEF Ahead, InSteps
<1>11. QED
  BY <1>1, <1>2, <1>10 DEF LibOf, Copies

\* p returns an error, and what it had half unpacked is known to be cut off.
LEMMA ReturnKeeps ==
  ASSUME InstallInv, NEW p \in Processes, AtWork(p), I!ReturnError(p), UNCHANGED <<machine, data, deaths>>, stranded \subseteq stranded',
         cutFiles \subseteq cutFiles', cutFiles' \subseteq I!Paths,
         \/ parts' = IF job[p].at = "write" THEN [parts EXCEPT ![I!Step(p).to] = 0] ELSE parts
         \/ UNCHANGED parts /\ I!Step(p).to \in stranded',
         \A f \in I!ToSet(I!Extras) : I!Present("lib") /\ InSteps(p, I!Unpack(f, "runtime.archive")) => f \in cutFiles',
         \A f \in I!ToSet(I!Companions) : Copies(p, f) => f \in cutFiles'
  PROVE  InstallInv'
<1>0. PICK d : d = I!Step(p).to
  OBVIOUS
<1>1. /\ files' = [f \in I!Paths |-> IF f \in job[p].held THEN 0 ELSE files[f]]
      /\ job' = [job EXCEPT ![p] = I!Off("failed")]
  BY DEF I!ReturnError
<1>2. InstallTypeOK /\ job[p] \in Jobs /\ deaths' \in Nat
  BY Working, Alone DEF InstallInv, InstallTypeOK
<1>3. /\ files \in [I!Paths -> 0 .. Len(data)] /\ parts \in [I!Paths -> 0 .. Len(data)] /\ 0 \in 0 .. Len(data)
      /\ job[p].held \subseteq I!Archives
  BY <1>2 DEF InstallTypeOK, Jobs
<1>4. \A f \in I!Paths : files'[f] \in {files[f], 0} /\ (f \in job[p].held => files'[f] = 0)
  BY <1>1, <1>3
<1>5. \A f \in I!Paths \ I!Archives : files'[f] = files[f]
  BY <1>1, <1>3
<1>6. files' \in [I!Paths -> 0 .. Len(data)]
  BY <1>1, <1>3
<1>7. \A f \in I!Paths : parts'[f] \in {parts[f], 0} /\ (job[p].at = "write" /\ d = f => parts'[f] = 0 \/ f \in stranded')
  BY <1>0, <1>3
<1>8. parts' \in [I!Paths -> 0 .. Len(data)]
  BY <1>0, <1>3
<1>9. \A a \in job[p].held : files'[a] = 0
  BY <1>3, <1>4, PathsAre
<1>10. deaths' = 0 => deaths = 0
  OBVIOUS
<1>11. QED
  BY <1>0, <1>1, <1>2, <1>4, <1>5, <1>6, <1>7, <1>8, <1>9, <1>10, Stops

LEMMA DownloadFailed ==
  ASSUME InstallInv, NEW p \in Processes, I!FinishDownload(p), ~(I!Verified(p) /\ parts[I!Step(p).to] # 0) PROVE InstallInv'
<1>1. /\ job[p].at = "write" /\ AtWork(p) /\ I!ReturnError(p) /\ UNCHANGED <<machine, data, deaths, cutFiles, stranded>>
      /\ parts' = [parts EXCEPT ![I!Step(p).to] = 0]
  BY DEF I!FinishDownload, AtWork
<1>2. \A f \in I!ToSet(I!Extras) : I!Present("lib") => ~InSteps(p, I!Unpack(f, "runtime.archive"))
  BY <1>1, WritingLib
<1>3. \A f : ~Copies(p, f)
  BY <1>1 DEF Copies
<1>4. cutFiles \subseteq cutFiles' /\ cutFiles' \subseteq I!Paths
  BY <1>1 DEF InstallInv, InstallTypeOK
<1>5. QED
  BY <1>1, <1>2, <1>3, <1>4, ReturnKeeps

\* The steps that install nothing are the only ones of their goals.
LEMMA OnlyStep ==
  ASSUME InstallInv, NEW p \in Processes, AtWork(p), job[p].steps # <<>>, I!Step(p) \in {InitLib, OpenLib}
  PROVE  job[p].held = {} /\ \A s : InSteps(p, s) => s = I!Step(p)
<1>1. Planned(job[p].steps, job[p].held) /\ I!Step(p) = job[p].steps[1]
  BY StepIs
<1>2. job[p].steps \in Seq(Steps) /\ Len(job[p].steps) >= 1 /\ Len(job[p].steps) \in Nat
  BY <1>1, TailIs DEF Planned
<1>3. 1 \in 1 .. Len(job[p].steps)
  BY <1>2
<1>4. Len(job[p].steps) = 1
  BY <1>1, <1>3 DEF Planned
<1>5. \A i \in 1 .. Len(job[p].steps) : job[p].steps[i] = I!Step(p)
  BY <1>1, <1>4
<1>6. \A s : InSteps(p, s) => s = I!Step(p)
  BY <1>2, <1>5, InRange DEF InSteps
<1>7. \A a : I!Step(p) # I!Drop(a)
  BY DEF I!Drop, InitLib, OpenLib
<1>8. QED
  BY <1>1, <1>5, <1>6, <1>7 DEF Planned

LEMMA OnlyReturns ==
  ASSUME InstallInv, NEW p \in Processes, job[p].at = "run", job[p].steps # <<>>, I!Step(p).do \in {"init", "open"}, I!ReturnError(p),
         UNCHANGED <<machine, parts, data, deaths, cutFiles, stranded>>
  PROVE  InstallInv'
<1>1. AtWork(p)
  BY DEF AtWork
<1>2. I!Step(p) \in {InitLib, OpenLib}
  BY <1>1, StepIs
<1>3. \A f : ~InSteps(p, I!Unpack(f, "runtime.archive"))
  <2>1. \A f : I!Unpack(f, "runtime.archive") \notin {InitLib, OpenLib}
    BY DEF I!Unpack, InitLib, OpenLib
  <2>2. QED
    BY <1>1, <1>2, <2>1, OnlyStep
<1>4. \A f : ~Copies(p, f)
  BY DEF Copies
<1>5. cutFiles \subseteq cutFiles' /\ cutFiles' \subseteq I!Paths
  BY DEF InstallInv, InstallTypeOK
<1>6. QED
  BY <1>1, <1>3, <1>4, <1>5, ReturnKeeps

LEMMA NewSessionKeeps == ASSUME InstallInv, NEW p \in Processes, I!NewSession(p) PROVE InstallInv'
<1>1. /\ job[p].at = "run" /\ job[p].steps # <<>> /\ I!Step(p).do = "open" /\ AtWork(p)
      /\ UNCHANGED <<machine, parts, data, deaths, cutFiles, stranded>>
  BY DEF I!NewSession, I!Doing, AtWork
<1>2. CASE I!ReturnError(p)
  BY <1>1, <1>2, OnlyReturns
<1>3. CASE (I!Attached \/ I!Tolerated) /\ job' = [job EXCEPT ![p] = I!Off("ready")] /\ UNCHANGED files
  <2>1. PlanOf(p) /\ LibOf(p) /\ InstallTypeOK
    BY <1>1, Working, Alone DEF InstallInv
  <2>2. I!Step(p) = OpenLib /\ InSteps(p, OpenLib)
    BY <1>1, StepIs
  <2>3. job[p].held = {} /\ \A s : InSteps(p, s) => s = OpenLib
    BY <1>1, <2>2, OnlyStep
  <2>4. \A s : ~InTodo(p, s)
    BY <1>1, <2>1, <2>2 DEF PlanOf, InTodo
  <2>5. OpenLib # InitLib /\ \A f \in I!ToSet(I!Companions) : I!Unpack(f, "companion.archive") # OpenLib
    BY DEF OpenLib, InitLib, I!Unpack
  <2>6. I!Whole("lib") /\ \A f \in I!ToSet(I!Companions) : I!Present(f)
    BY <1>1, <2>1, <2>3, <2>4, <2>5 DEF LibOf, Ahead
  <2>7. machine.asked \in {"cuda", "directml"} => machine.attaches
    BY <1>3 DEF I!Attached, I!Tolerated, I!OrtProvider
  <2>8. \A f : ~Copies(p, f)
    BY <1>1 DEF Copies
  <2>9. \A f : ~InSteps(p, I!Unpack(f, "runtime.archive"))
    BY <2>3 DEF I!Unpack, OpenLib
  <2>10. files \in [I!Paths -> 0 .. Len(data)] /\ parts \in [I!Paths -> 0 .. Len(data)] /\ deaths \in Nat /\ cutFiles \subseteq I!Paths
    BY <2>1 DEF InstallTypeOK
  <2>11. QED
    BY <1>1, <1>3, <2>3, <2>6, <2>7, <2>8, <2>9, <2>10, Stops
<1>4. QED
  BY <1>2, <1>3 DEF I!NewSession

LEMMA InitializeEnvironmentKeeps ==
  ASSUME InstallInv, NEW p \in Processes, I!InitializeEnvironment(p) PROVE InstallInv'
<1>1. CASE I!Whole("lib")
  BY <1>1, InitializeEnvironmentDone
<1>2. CASE ~I!Whole("lib")
  BY <1>2, OnlyReturns DEF I!InitializeEnvironment, I!Doing
<1>3. QED
  BY <1>1, <1>2

LEMMA FinishDownloadKeeps == ASSUME InstallInv, NEW p \in Processes, I!FinishDownload(p) PROVE InstallInv'
BY DownloadDone, DownloadFailed

\* The history takes what is half unpacked.
LEMMA HalfIs ==
  ASSUME InstallInv, NEW p \in Processes, AtWork(p)
  PROVE  /\ I!HalfUnpacked(p) \subseteq I!Paths
         /\ \A f \in I!ToSet(I!Extras) : I!Present("lib") /\ InSteps(p, I!Unpack(f, "runtime.archive")) => f \in I!HalfUnpacked(p)
         /\ \A f : Copies(p, f) => f \in I!HalfUnpacked(p)
<1>1. PlanOf(p)
  BY Working, Alone
<1>2. job[p].at = "copy" => I!Step(p).to \in I!Paths
  BY <1>1, StepsDiffer, PathsAre DEF PlanOf
<1>3. I!HalfUnpacked(p) \subseteq I!Paths
  BY <1>2, PathsAre DEF I!HalfUnpacked
<1>4. QED
  BY <1>3 DEF I!HalfUnpacked, InSteps, Copies

LEMMA FailsKeeps == ASSUME InstallInv, NEW p \in Processes, I!Fails(p) PROVE InstallInv'
<1>1. /\ AtWork(p) /\ I!ReturnError(p) /\ UNCHANGED <<machine, data, deaths, stranded>> /\ cutFiles' = cutFiles \union I!HalfUnpacked(p)
      /\ parts' = IF job[p].at = "write" THEN [parts EXCEPT ![I!Step(p).to] = 0] ELSE parts
  BY DEF I!Fails, I!Doing, AtWork
<1>2. cutFiles \subseteq cutFiles' /\ cutFiles' \subseteq I!Paths
  BY <1>1, HalfIs DEF InstallInv, InstallTypeOK
<1>3. QED
  BY <1>1, <1>2, HalfIs, ReturnKeeps

LEMMA RenameFailsKeeps == ASSUME InstallInv, NEW p \in Processes, I!RenameFails(p) PROVE InstallInv'
<1>1. /\ AtWork(p) /\ I!ReturnError(p) /\ UNCHANGED <<machine, parts, data, deaths>> /\ cutFiles' = cutFiles \union I!HalfUnpacked(p)
      /\ stranded' = stranded \union {I!Step(p).to}
  BY DEF I!RenameFails, AtWork
<1>2. cutFiles \subseteq cutFiles' /\ cutFiles' \subseteq I!Paths
  BY <1>1, HalfIs DEF InstallInv, InstallTypeOK
<1>3. QED
  BY <1>1, <1>2, HalfIs, ReturnKeeps

LEMMA DiesKeeps == ASSUME InstallInv, NEW p \in Processes, I!Dies(p) PROVE InstallInv'
<1>1. /\ AtWork(p) /\ UNCHANGED <<machine, files, parts, data, stranded>> /\ cutFiles' = cutFiles \union I!HalfUnpacked(p)
      /\ job' = [job EXCEPT ![p] = I!Off("dead")] /\ deaths' = deaths + 1
  BY DEF I!Dies, AtWork
<1>2. InstallTypeOK
  BY DEF InstallInv
<1>3. files \in [I!Paths -> 0 .. Len(data)] /\ parts \in [I!Paths -> 0 .. Len(data)] /\ cutFiles \subseteq I!Paths
  BY <1>2 DEF InstallTypeOK
<1>4. deaths' \in Nat /\ deaths' # 0
  BY <1>1, <1>2 DEF InstallTypeOK
<1>5. cutFiles \subseteq cutFiles' /\ cutFiles' \subseteq I!Paths
  BY <1>1, <1>3, HalfIs
<1>6. QED
  BY <1>1, <1>3, <1>4, <1>5, HalfIs, Stops

LEMMA Joined ==
  ASSUME NEW S, NEW x \in Seq(S), NEW y \in Seq(S), NEW z, z = x \o y
  PROVE  /\ z \in Seq(S) /\ Len(x) \in Nat /\ Len(y) \in Nat /\ Len(z) = Len(x) + Len(y)
         /\ \A i \in 1 .. Len(x) : z[i] = x[i] /\ i \in 1 .. Len(z)
         /\ \A i \in 1 .. Len(z) : i \in 1 .. Len(x) \/ \E k \in 1 .. Len(y) : i = Len(x) + k /\ z[i] = y[k]
<1>1. x \o y \in Seq(S) /\ Len(x) \in Nat /\ Len(y) \in Nat /\ Len(x \o y) = Len(x) + Len(y)
  OBVIOUS
<1>2. \A i \in 1 .. Len(x) + Len(y) : (x \o y)[i] = IF i <= Len(x) THEN x[i] ELSE y[i - Len(x)]
  OBVIOUS
<1>3. \A i \in 1 .. Len(x) : i \in 1 .. Len(x) + Len(y) /\ i <= Len(x)
  BY <1>1
<1>4. ASSUME NEW i \in 1 .. Len(x \o y), i \notin 1 .. Len(x)
      PROVE  \E k \in 1 .. Len(y) : i = Len(x) + k /\ (x \o y)[i] = y[k]
  <2>1. i - Len(x) \in 1 .. Len(y) /\ i = Len(x) + (i - Len(x)) /\ ~(i <= Len(x)) /\ i \in 1 .. Len(x) + Len(y)
    BY <1>1, <1>4
  <2>2. QED
    BY <1>2, <2>1
<1>5. QED
  BY <1>1, <1>2, <1>3, <1>4

LEMMA Ended ==
  ASSUME NEW S, NEW x \in Seq(S), NEW a \in S, NEW z, z = x \o <<a>>
  PROVE  /\ z \in Seq(S) /\ Len(x) \in Nat /\ Len(z) = Len(x) + 1 /\ z[Len(z)] = a
         /\ \A i \in 1 .. Len(x) : z[i] = x[i] /\ i \in 1 .. Len(z)
         /\ \A i \in 1 .. Len(z) : i \in 1 .. Len(x) \/ i = Len(z)
<1>1. z = Append(x, a)
  BY Appends
<1>2. z \in Seq(S) /\ Len(x) \in Nat /\ Len(z) = Len(x) + 1
  BY <1>1
<1>3. z[Len(z)] = a
  BY <1>1
<1>4. \A i \in 1 .. Len(x) : z[i] = x[i] /\ i \in 1 .. Len(z)
  BY <1>1
<1>5. QED
  BY <1>2, <1>3, <1>4

\* A goal of ensureRuntime.
RuntimeGoal(g) ==
  \/ g = I!Goal({}, Cpu) /\ I!Extras = <<>> /\ I!Companions = <<>>
  \/ g = I!Goal({}, Cuda) /\ I!Extras = <<"providers_shared", "providers_cuda">> /\ I!Companions = <<>>
  \/ g = I!Goal({}, DirectML) /\ I!Extras = <<>> /\ I!Companions = <<"DirectML">>
  \/ g = I!Goal({"DirectML"}, Companion) /\ I!Extras = <<>> /\ I!Companions = <<"DirectML">>

LEMMA RuntimeGoalIs ==
  ASSUME NEW g, RuntimeGoal(g)
  PROVE  /\ g \in Goals /\ PlannedGoal(g) /\ OpenLib \notin I!ToSet(g.steps)
         /\ \A f \in I!ToSet(I!Companions) : I!Unpack(f, "companion.archive") \in I!ToSet(g.steps)
<1>1. Planned(g.steps, {})
  BY CpuPlanned, CudaPlanned, DirectMLPlanned, CompanionPlanned DEF RuntimeGoal, I!Goal
<1>2. g.unless \in {{}, {"DirectML"}}
  BY DEF RuntimeGoal, I!Goal
<1>3. g.steps \in Seq(Steps) /\ g.unless \subseteq I!Libraries
  BY <1>1, <1>2 DEF Planned, I!Libraries
<1>4. g = [unless |-> g.unless, steps |-> g.steps]
  BY DEF RuntimeGoal, I!Goal
<1>5. g \in Goals
  BY <1>3, <1>4, PathsAre DEF Goals
<1>6. Len(g.steps) > 1
  <2>1. g.steps \in {Cpu, Cuda, DirectML, Companion}
    BY DEF RuntimeGoal, I!Goal
  <2>2. Len(Cpu) > 1 /\ Len(Cuda) > 1 /\ Len(DirectML) > 1 /\ Len(Companion) > 1
    BY DEF Cpu, Cuda, DirectML, Companion
  <2>3. QED
    BY <2>1, <2>2
<1>7. \A s \in I!ToSet(g.steps) : s \notin {InitLib, OpenLib}
  <2>1. I!ToSet(g.steps) = {g.steps[i] : i \in 1 .. Len(g.steps)}
    BY <1>3, InRange
  <2>2. QED
    BY <1>1, <1>6, <2>1 DEF Planned
<1>8. g.unless # {} => \A s \in I!ToSet(g.steps) \intersect Unpacks : s.to \in g.unless
  <2>1. SUFFICES ASSUME g.unless # {}, NEW s \in I!ToSet(g.steps) \intersect Unpacks PROVE s.to \in g.unless
    OBVIOUS
  <2>2. g = I!Goal({"DirectML"}, Companion)
    BY <2>1 DEF RuntimeGoal, I!Goal
  <2>3. I!ToSet(Companion) = {I!Fetch("companion.archive"), I!Unpack("DirectML", "companion.archive"), I!Drop("companion.archive")}
    BY DEF Companion, I!ToSet
  <2>4. g.steps = Companion /\ g.unless = {"DirectML"}
    BY <2>2 DEF I!Goal
  <2>5. s.do = "unpack"
    BY <2>1, StepsDiffer
  <2>6. s = I!Unpack("DirectML", "companion.archive")
    BY <2>1, <2>3, <2>4, <2>5 DEF I!Fetch, I!Drop
  <2>7. QED
    BY <2>4, <2>6 DEF I!Unpack
<1>9. ASSUME NEW f \in I!ToSet(I!Companions) PROVE I!Unpack(f, "companion.archive") \in I!ToSet(g.steps)
  <2>1. f = "DirectML"
    BY ExtrasAre
  <2>2. I!Companions # <<>>
    BY DEF I!ToSet
  <2>3. g.steps \in {DirectML, Companion}
    BY <2>2 DEF RuntimeGoal, I!Goal
  <2>4. I!Unpack("DirectML", "companion.archive") \in I!ToSet(DirectML)
    BY DEF DirectML, I!ToSet
  <2>5. I!Unpack("DirectML", "companion.archive") \in I!ToSet(Companion)
    BY DEF Companion, I!ToSet
  <2>6. QED
    BY <2>1, <2>3, <2>4, <2>5
<1>10. PlannedGoal(g)
  BY <1>1, <1>3, <1>7, <1>8 DEF PlannedGoal
<1>11. QED
  BY <1>5, <1>7, <1>9, <1>10

LEMMA RuntimeGoalsPlanned ==
  /\ I!RuntimeGoals \in Seq(Goals) /\ Len(I!RuntimeGoals) <= 1
  /\ I!RuntimeGoals = <<>> => I!Present("lib") /\ \A f \in I!ToSet(I!Companions) : I!Present(f)
  /\ \A i \in 1 .. Len(I!RuntimeGoals) :
       RuntimeGoal(I!RuntimeGoals[i]) /\ ~(I!Present("lib") /\ \A f \in I!ToSet(I!Companions) : I!Present(f))
  /\ \A i \in 1 .. Len(I!RuntimeGoals) : UnpackLib \in I!ToSet(I!RuntimeGoals[i].steps) => ~I!Present("lib")
<1>1. CASE I!RuntimeGoals = <<>> /\ I!Present("lib") /\ \A f \in I!ToSet(I!Companions) : I!Present(f)
  BY <1>1
<1>2. ASSUME NEW g, I!RuntimeGoals = <<g>>, RuntimeGoal(g), ~(I!Present("lib") /\ \A f \in I!ToSet(I!Companions) : I!Present(f)),
             UnpackLib \in I!ToSet(g.steps) => ~I!Present("lib")
      PROVE  /\ I!RuntimeGoals \in Seq(Goals) /\ Len(I!RuntimeGoals) <= 1 /\ I!RuntimeGoals # <<>>
             /\ \A i \in 1 .. Len(I!RuntimeGoals) : I!RuntimeGoals[i] = g
  <2>1. g \in Goals
    BY <1>2, RuntimeGoalIs
  <2>2. QED
    BY <1>2, <2>1
<1>3. CASE I!RuntimeGoals = <<I!Goal({}, Cpu)>> /\ ~I!Present("lib") /\ I!Extras = <<>> /\ I!Companions = <<>>
  <2>1. RuntimeGoal(I!Goal({}, Cpu))
    BY <1>3 DEF RuntimeGoal
  <2>2. QED
    BY <1>2, <1>3, <2>1
<1>4. CASE /\ I!RuntimeGoals = <<I!Goal({}, Cuda)>> /\ ~I!Present("lib")
           /\ I!Extras = <<"providers_shared", "providers_cuda">> /\ I!Companions = <<>>
  <2>1. RuntimeGoal(I!Goal({}, Cuda))
    BY <1>4 DEF RuntimeGoal
  <2>2. QED
    BY <1>2, <1>4, <2>1
<1>5. CASE I!RuntimeGoals = <<I!Goal({}, DirectML)>> /\ ~I!Present("lib") /\ I!Extras = <<>> /\ I!Companions = <<"DirectML">>
  <2>1. RuntimeGoal(I!Goal({}, DirectML))
    BY <1>5 DEF RuntimeGoal
  <2>2. QED
    BY <1>2, <1>5, <2>1
<1>6. CASE I!RuntimeGoals = <<I!Goal({"DirectML"}, Companion)>> /\ I!Present("lib") /\ I!Extras = <<>> /\ I!Companions = <<"DirectML">>
           /\ ~ \A f \in I!ToSet(I!Companions) : I!Present(f)
  <2>1. RuntimeGoal(I!Goal({"DirectML"}, Companion))
    BY <1>6 DEF RuntimeGoal
  <2>2. UnpackLib \notin I!ToSet(Companion)
    BY DEF I!ToSet, Companion, UnpackLib, I!Unpack, I!Fetch, I!Drop
  <2>3. I!Goal({"DirectML"}, Companion).steps = Companion
    BY DEF I!Goal
  <2>4. QED
    BY <1>2, <1>6, <2>1, <2>2, <2>3
<1>7. (\A f \in I!ToSet(I!Companions) : I!Present(f)) /\ I!Present("lib") => I!RuntimeGoals = <<>>
  BY DEF I!RuntimeGoals
<1>8. QED
  BY <1>1, <1>3, <1>4, <1>5, <1>6, <1>7, RuntimeGoalsAre

\* A goal of one step that installs no runtime.
LEMMA OneStepGoal ==
  ASSUME NEW s, NEW u, \/ u = {} /\ s \in {InitLib, OpenLib}
                       \/ \E m \in ModelFiles : u = {m} /\ s = I!Fetch(m)
  PROVE  /\ I!Goal(u, <<s>>) \in Goals /\ PlannedGoal(I!Goal(u, <<s>>)) /\ I!ToSet(I!Goal(u, <<s>>).steps) = {s}
         /\ s \notin Unpacks /\ (u # {} => s # OpenLib)
<1>1. I!Goal(u, <<s>>).unless = u /\ I!Goal(u, <<s>>).steps = <<s>> /\ I!ToSet(<<s>>) = {s}
  BY DEF I!Goal, I!ToSet
<1>2. s \in {I!Fetch(f) : f \in ModelFiles} \union {InitLib, OpenLib}
  OBVIOUS
<1>3. Planned(<<s>>, {})
  BY <1>2, OneStepPlanned
<1>4. s \notin Unpacks
  BY <1>2, StepsDiffer DEF I!Fetch, InitLib, OpenLib
<1>5. u \subseteq ModelFiles /\ (u # {} => s # InitLib /\ s # OpenLib)
  BY DEF I!Fetch, InitLib, OpenLib
<1>6. PlannedGoal(I!Goal(u, <<s>>))
  BY <1>1, <1>3, <1>4, <1>5 DEF PlannedGoal
<1>7. I!Goal(u, <<s>>) \in Goals
  <2>1. <<s>> \in Seq(Steps) /\ u \subseteq I!Paths
    BY <1>3, <1>5, PathsAre DEF Planned
  <2>2. QED
    BY <2>1 DEF I!Goal, Goals
<1>8. QED
  BY <1>1, <1>4, <1>5, <1>6, <1>7

\* What a process that starts has to do.
NewTodo == I!RuntimeGoals \o <<I!InitRuntime>> \o I!ModelGoals \o <<I!OpenSession>>
Started == [I!Off("none") EXCEPT !.at = "run", !.todo = NewTodo]

LEMMA NewTodoIs ==
  /\ NewTodo \in Seq(Goals)
  /\ \A i \in 1 .. Len(NewTodo) : /\ PlannedGoal(NewTodo[i])
                                  /\ i > 1 => I!ToSet(NewTodo[i].steps) \intersect Unpacks = {}
                                  /\ OpenLib \in I!ToSet(NewTodo[i].steps) => i = Len(NewTodo)
  /\ \E i \in 1 .. Len(NewTodo) : InitLib \in I!ToSet(NewTodo[i].steps)
  /\ \A i \in 1 .. Len(NewTodo) : UnpackLib \in I!ToSet(NewTodo[i].steps) => ~I!Present("lib")
  /\ ~(I!Present("lib") /\ \A f \in I!ToSet(I!Companions) : I!Present(f)) =>
       \A f \in I!ToSet(I!Companions) : \E i \in 1 .. Len(NewTodo) : I!Unpack(f, "companion.archive") \in I!ToSet(NewTodo[i].steps)
  /\ I!Present("lib") /\ (\A f \in I!ToSet(I!Companions) : I!Present(f)) =>
       \A i \in 1 .. Len(NewTodo) : I!ToSet(NewTodo[i].steps) \intersect Unpacks = {}
<1>1. /\ I!InitRuntime \in Goals /\ PlannedGoal(I!InitRuntime) /\ I!ToSet(I!InitRuntime.steps) = {InitLib} /\ InitLib \notin Unpacks
      /\ I!OpenSession \in Goals /\ PlannedGoal(I!OpenSession) /\ I!ToSet(I!OpenSession.steps) = {OpenLib} /\ OpenLib \notin Unpacks
  <2>1. I!InitRuntime = I!Goal({}, <<InitLib>>) /\ I!OpenSession = I!Goal({}, <<OpenLib>>)
    BY DEF I!InitRuntime, I!OpenSession, InitLib, OpenLib
  <2>2. QED
    BY <2>1, OneStepGoal
<1>2. /\ I!ModelGoals \in Seq(Goals)
      /\ \A k \in 1 .. Len(I!ModelGoals) :
           /\ PlannedGoal(I!ModelGoals[k]) /\ I!ToSet(I!ModelGoals[k].steps) \intersect Unpacks = {}
           /\ OpenLib \notin I!ToSet(I!ModelGoals[k].steps)
  <2>1. Models \in Seq(STRING) /\ DOMAIN Models = 1 .. Len(Models)
    BY Given DEF I!InstallAssumption
  <2>2. \A k \in 1 .. Len(Models) : Models[k] \in ModelFiles /\ I!ModelGoals[k] = I!Goal({Models[k]}, <<I!Fetch(Models[k])>>)
    BY <2>1, InRange DEF ModelFiles, I!ModelGoals
  <2>3. ASSUME NEW k \in 1 .. Len(Models)
        PROVE  /\ I!ModelGoals[k] \in Goals /\ PlannedGoal(I!ModelGoals[k]) /\ I!ToSet(I!ModelGoals[k].steps) \intersect Unpacks = {}
               /\ OpenLib \notin I!ToSet(I!ModelGoals[k].steps)
    <3>1. PICK s, u : s = I!Fetch(Models[k]) /\ u = {Models[k]}
      OBVIOUS
    <3>2. /\ I!Goal(u, <<s>>) \in Goals /\ PlannedGoal(I!Goal(u, <<s>>)) /\ I!ToSet(I!Goal(u, <<s>>).steps) = {s}
          /\ s \notin Unpacks /\ s # OpenLib
      BY <2>2, <3>1, OneStepGoal
    <3>3. I!ModelGoals[k] = I!Goal(u, <<s>>)
      BY <2>2, <3>1
    <3>4. QED
      BY <3>2, <3>3
  <2>4. DOMAIN I!ModelGoals = 1 .. Len(Models) /\ Len(Models) \in Nat /\ I!ModelGoals = [k \in 1 .. Len(Models) |-> I!ModelGoals[k]]
    BY <2>1 DEF I!ModelGoals
  <2> DEFINE G == Goals
  <2>5. I!ModelGoals \in Seq(G) /\ Len(I!ModelGoals) = Len(Models)
    <3>1. \A k \in 1 .. Len(Models) : I!ModelGoals[k] \in G
      BY <2>3
    <3> HIDE DEF G
    <3>2. QED
      BY <2>4, <3>1
  <2>6. QED
    BY <2>3, <2>5
<1>3. PICK r : r = I!RuntimeGoals
  OBVIOUS
<1>4. PICK u : u = r \o <<I!InitRuntime>>
  OBVIOUS
<1>5. PICK v : v = u \o I!ModelGoals
  OBVIOUS
<1>6. PICK t : t = NewTodo
  OBVIOUS
<1>7. /\ r \in Seq(Goals) /\ Len(r) <= 1
      /\ r = <<>> => I!Present("lib") /\ \A f \in I!ToSet(I!Companions) : I!Present(f)
      /\ \A i \in 1 .. Len(r) : RuntimeGoal(r[i]) /\ ~(I!Present("lib") /\ \A f \in I!ToSet(I!Companions) : I!Present(f))
      /\ \A i \in 1 .. Len(r) : UnpackLib \in I!ToSet(r[i].steps) => ~I!Present("lib")
  BY <1>3, RuntimeGoalsPlanned
<1>8. t = v \o <<I!OpenSession>>
  BY <1>3, <1>4, <1>5, <1>6 DEF NewTodo
<1>9. /\ t \in Seq(Goals) /\ Len(r) \in Nat /\ Len(t) \in Nat /\ Len(r) + 2 <= Len(t)
      /\ \A i \in 1 .. Len(r) : t[i] = r[i]
      /\ t[Len(r) + 1] = I!InitRuntime /\ t[Len(t)] = I!OpenSession
      /\ \A i \in 1 .. Len(t) : \/ i \in 1 .. Len(r) \/ i = Len(r) + 1 \/ i = Len(t)
                                \/ \E k \in 1 .. Len(I!ModelGoals) : t[i] = I!ModelGoals[k]
  <2> DEFINE G == Goals
  <2>1. r \in Seq(G) /\ I!ModelGoals \in Seq(G) /\ I!InitRuntime \in G /\ I!OpenSession \in G
    BY <1>1, <1>2, <1>7
  <2> HIDE DEF G
  <2>2. /\ t \in Seq(G) /\ Len(r) \in Nat /\ Len(t) \in Nat /\ Len(r) + 2 <= Len(t)
        /\ \A i \in 1 .. Len(r) : t[i] = r[i]
        /\ t[Len(r) + 1] = I!InitRuntime /\ t[Len(t)] = I!OpenSession
        /\ \A i \in 1 .. Len(t) : \/ i \in 1 .. Len(r) \/ i = Len(r) + 1 \/ i = Len(t)
                                  \/ \E k \in 1 .. Len(I!ModelGoals) : t[i] = I!ModelGoals[k]
    <3>1. PICK a, b : a = I!InitRuntime /\ b = I!OpenSession
      OBVIOUS
    <3>2. u = r \o <<a>> /\ t = v \o <<b>> /\ a \in G /\ b \in G
      BY <1>4, <1>8, <2>1, <3>1
    <3>3. PICK m : m = I!ModelGoals
      OBVIOUS
    <3>4. v = u \o m /\ m \in Seq(G)
      BY <1>5, <2>1, <3>3
    <3>5. /\ t \in Seq(G) /\ Len(r) \in Nat /\ Len(t) \in Nat /\ Len(r) + 2 <= Len(t)
          /\ \A i \in 1 .. Len(r) : t[i] = r[i]
          /\ t[Len(r) + 1] = a /\ t[Len(t)] = b
          /\ \A i \in 1 .. Len(t) : \/ i \in 1 .. Len(r) \/ i = Len(r) + 1 \/ i = Len(t)
                                    \/ \E k \in 1 .. Len(m) : t[i] = m[k]
      <4>1. /\ u \in Seq(G) /\ Len(r) \in Nat /\ Len(u) = Len(r) + 1 /\ u[Len(r) + 1] = a
            /\ \A i \in 1 .. Len(r) : u[i] = r[i] /\ i \in 1 .. Len(u)
            /\ \A i \in 1 .. Len(u) : i \in 1 .. Len(r) \/ i = Len(r) + 1
        BY <2>1, <3>2, Ended
      <4>2. /\ v \in Seq(G) /\ Len(m) \in Nat /\ Len(v) = Len(u) + Len(m)
            /\ \A i \in 1 .. Len(u) : v[i] = u[i] /\ i \in 1 .. Len(v)
            /\ \A i \in 1 .. Len(v) : i \in 1 .. Len(u) \/ \E k \in 1 .. Len(m) : i = Len(u) + k /\ v[i] = m[k]
        <5>1. u \in Seq(G)
          BY <4>1
        <5>2. QED
          BY <3>4, <5>1, Joined, SMTT(30)
      <4>3. /\ t \in Seq(G) /\ Len(v) \in Nat /\ Len(t) = Len(v) + 1 /\ t[Len(t)] = b
            /\ \A i \in 1 .. Len(v) : t[i] = v[i] /\ i \in 1 .. Len(t)
            /\ \A i \in 1 .. Len(t) : i \in 1 .. Len(v) \/ i = Len(t)
        <5>1. v \in Seq(G)
          BY <4>2
        <5>2. QED
          BY <3>2, <5>1, Ended
      <4>4. Len(r) + 2 <= Len(t) /\ Len(t) \in Nat
        BY <4>1, <4>2, <4>3
      <4>5. t[Len(r) + 1] = a
        <5>1. Len(r) + 1 \in 1 .. Len(u)
          BY <4>1
        <5>2. QED
          BY <4>1, <4>2, <4>3, <5>1
      <4>6. QED
        BY <4>1, <4>2, <4>3, <4>4, <4>5, ZenonT(40)
    <3>6. QED
      BY <3>1, <3>3, <3>5
  <2>3. QED
    BY <2>2 DEF G
<1>10. /\ 1 .. Len(r) = {} \/ 1 .. Len(r) = {1}
       /\ Len(r) + 1 \in 1 .. Len(t) /\ \A i \in 1 .. Len(r) : i \in 1 .. Len(t)
       /\ \A i \in 1 .. Len(r) : ~(i > 1)
  BY <1>7, <1>9
<1>11. \A i \in 1 .. Len(t) :
         /\ PlannedGoal(t[i])
         /\ OpenLib \in I!ToSet(t[i].steps) => i = Len(t)
         /\ i \in 1 .. Len(r) \/ I!ToSet(t[i].steps) \intersect Unpacks = {}
  <2>1. ASSUME NEW i \in 1 .. Len(r) PROVE PlannedGoal(t[i]) /\ OpenLib \notin I!ToSet(t[i].steps)
    BY <1>7, <1>9, RuntimeGoalIs
  <2>2. /\ PlannedGoal(t[Len(r) + 1]) /\ OpenLib \notin I!ToSet(t[Len(r) + 1].steps)
        /\ I!ToSet(t[Len(r) + 1].steps) \intersect Unpacks = {}
    BY <1>1, <1>9 DEF InitLib, OpenLib
  <2>3. PlannedGoal(t[Len(t)]) /\ I!ToSet(t[Len(t)].steps) \intersect Unpacks = {}
    BY <1>1, <1>9
  <2>4. \A i \in 1 .. Len(t) : (\E k \in 1 .. Len(I!ModelGoals) : t[i] = I!ModelGoals[k]) =>
          PlannedGoal(t[i]) /\ OpenLib \notin I!ToSet(t[i].steps) /\ I!ToSet(t[i].steps) \intersect Unpacks = {}
    BY <1>2
  <2>5. QED
    BY <1>9, <2>1, <2>2, <2>3, <2>4
<1>12. \A i \in 1 .. Len(t) : i > 1 => I!ToSet(t[i].steps) \intersect Unpacks = {}
  BY <1>10, <1>11
<1>13. \E i \in 1 .. Len(t) : InitLib \in I!ToSet(t[i].steps)
  BY <1>1, <1>9, <1>10
<1>14. \A i \in 1 .. Len(t) : UnpackLib \in I!ToSet(t[i].steps) => ~I!Present("lib")
  <2>1. UnpackLib \in Unpacks
    BY PathsAre
  <2>2. QED
    BY <1>7, <1>9, <1>11, <2>1
<1>15. ~(I!Present("lib") /\ \A f \in I!ToSet(I!Companions) : I!Present(f)) =>
         \A f \in I!ToSet(I!Companions) : \E i \in 1 .. Len(t) : I!Unpack(f, "companion.archive") \in I!ToSet(t[i].steps)
  <2>1. SUFFICES ASSUME ~(I!Present("lib") /\ \A f \in I!ToSet(I!Companions) : I!Present(f)), NEW f \in I!ToSet(I!Companions)
                 PROVE  \E i \in 1 .. Len(t) : I!Unpack(f, "companion.archive") \in I!ToSet(t[i].steps)
    OBVIOUS
  <2>2. 1 \in 1 .. Len(r)
    <3>1. r # <<>>
      BY <1>7, <2>1
    <3> DEFINE G == Goals
    <3>2. r \in Seq(G)
      BY <1>7
    <3> HIDE DEF G
    <3>3. QED
      BY <3>1, <3>2
  <2>3. RuntimeGoal(r[1]) /\ t[1] = r[1] /\ 1 \in 1 .. Len(t)
    BY <1>7, <1>9, <1>10, <2>2
  <2>4. QED
    BY <2>1, <2>3, RuntimeGoalIs
<1>16. I!Present("lib") /\ (\A f \in I!ToSet(I!Companions) : I!Present(f)) =>
         \A i \in 1 .. Len(t) : I!ToSet(t[i].steps) \intersect Unpacks = {}
  BY <1>7, <1>11
<1>17. QED
  BY <1>6, <1>9, <1>11, <1>12, <1>13, <1>14, <1>15, <1>16

LEMMA StartedIs ==
  /\ Started \in Jobs /\ Started.at = "run" /\ Started.todo = NewTodo /\ Started.steps = <<>>
  /\ Started.held = {} /\ Started.result = "none"
<1>1. NewTodo \in Seq(Goals) /\ <<>> \in Seq(Steps)
  BY NewTodoIs
<1>2. PICK t : t = NewTodo
  OBVIOUS
<1>3. Started = [I!Off("none") EXCEPT !.at = "run", !.todo = t]
  BY <1>2 DEF Started
<1>4. QED
  BY <1>1, <1>2, <1>3 DEF I!Off, Jobs

LEMMA NewEmbedderKeeps == ASSUME InstallInv, ~Overlap, NEW p \in Processes, I!NewEmbedder(p) PROVE InstallInv'
<1>1. /\ job[p].at = "off" /\ \A q \in Processes : job[q].at = "off"
      /\ UNCHANGED <<machine, files, parts, data, deaths, cutFiles, stranded>> /\ job' = [job EXCEPT ![p] = Started]
  BY DEF I!NewEmbedder, Started, NewTodo
<1>2. Others(p) /\ \A q \in Processes : ~AtWork(q)
  BY <1>1 DEF Others, AtWork
<1>3. /\ PlanOf(p) /\ ExtrasOf(p) /\ CompanionsOf(p) /\ ReadyOf(p) /\ CleanOf(p)
      /\ InstallTypeOK /\ Distinct /\ I!DownloadsWhole
  BY <1>2, Alone DEF InstallInv
<1>4. job' \in [Processes -> Jobs] /\ job'[p] = Started /\ \A q \in Processes \ {p} : job'[q] = job[q]
  BY <1>1, StartedIs, Updated
<1>5. /\ job'[p].at = "run" /\ job'[p].todo = NewTodo /\ job'[p].steps = <<>> /\ job'[p].held = {} /\ job'[p].result = "none"
      /\ AtWork(p)'
  BY <1>4, StartedIs DEF AtWork
<1>6. /\ I!Extras' = I!Extras /\ I!Companions' = I!Companions
      /\ \A st : \A held : Planned(st, held)' <=> Planned(st, held)
      /\ \A g : PlannedGoal(g)' <=> PlannedGoal(g)
  BY <1>1, SameMachine
<1>7. \A g : (I!Present(g)' <=> I!Present(g)) /\ (I!Whole(g)' <=> I!Whole(g))
  BY <1>1, Untouched
<1>8. \A s : ~InSteps(p, s)'
  BY <1>5 DEF InSteps, I!ToSet
<1>9. \A s : Ahead(p, s)' <=> \E i \in 1 .. Len(NewTodo) : s \in I!ToSet(NewTodo[i].steps)
  BY <1>5, <1>8 DEF Ahead, InTodo
<1>10. PlanOf(p)'
  <2>1. PICK t : t = NewTodo
    OBVIOUS
  <2>2. job'[p].todo = t /\ Planned(job[p].steps, job[p].held)' /\ ~InSteps(p, OpenLib)'
    BY <1>5, <1>6, <1>8, <2>1, NothingPlanned
  <2>3. \A i \in 1 .. Len(t) : /\ PlannedGoal(t[i])
                               /\ i > 1 => I!ToSet(t[i].steps) \intersect Unpacks = {}
                               /\ OpenLib \in I!ToSet(t[i].steps) => i = Len(t)
    BY <2>1, NewTodoIs
  <2>4. \A i \in 1 .. Len(t) : PlannedGoal(t[i])'
    BY <1>6, <2>3
  <2>5. QED
    BY <1>5, <2>2, <2>3, <2>4 DEF PlanOf
<1>11. DataOf(p)'
  BY <1>5 DEF DataOf
<1>12. LibOf(p)'
  <2>1. Ahead(p, UnpackLib)' => ~I!Present("lib")
    BY <1>9, NewTodoIs
  <2>2. Ahead(p, InitLib)'
    BY <1>9, NewTodoIs
  <2>3. \A f \in I!ToSet(I!Companions) : I!Present(f) \/ Ahead(p, I!Unpack(f, "companion.archive"))'
    BY <1>9, NewTodoIs
  <2>4. QED
    BY <1>6, <1>7, <2>1, <2>2, <2>3 DEF LibOf
<1>13. ExtrasOf(p)'
  BY <1>1, <1>2, <1>3, <1>6, <1>7 DEF ExtrasOf
<1>14. CompanionsOf(p)'
  BY <1>1, <1>3, <1>6, <1>7 DEF CompanionsOf, Copies
<1>15. ReadyOf(p)'
  <2>1. (\E q \in Processes : job[q].result = "ready")' => \E q \in Processes : job[q].result = "ready"
    BY <1>4, <1>5
  <2>2. I!Present("lib") /\ (\A f \in I!ToSet(I!Companions) : I!Present(f)) => \A s \in Unpacks : ~InTodo(p, s)'
    BY <1>5, NewTodoIs DEF InTodo
  <2>3. QED
    BY <1>1, <1>3, <1>6, <1>7, <1>8, <2>1, <2>2 DEF ReadyOf, I!Whole
<1>16. CleanOf(p)'
  BY <1>1, <1>3, <1>5, <1>7 DEF CleanOf, PlanOf, AtWork
<1>17. InstallTypeOK' /\ Distinct' /\ I!DownloadsWhole'
  BY <1>1, <1>3, <1>4, <1>7 DEF InstallTypeOK, Distinct, I!DownloadsWhole
<1>18. QED
  BY <1>2, <1>4, <1>10, <1>11, <1>12, <1>13, <1>14, <1>15, <1>16, <1>17, Together
-----------------------------------------------------------------------------
(* The invariant is inductive, and says what is promised.                  *)

LEMMA InstallInit == I!Init => InstallInv
<1> SUFFICES ASSUME I!Init PROVE InstallInv
  OBVIOUS
<1>1. /\ data = <<>> /\ cutFiles = {} /\ deaths = 0 /\ \A p \in Processes : job[p] = I!Off("none")
      /\ \A f \in I!Paths : files[f] = 0 /\ parts[f] = 0
  BY DEF I!Init
<1>2. \A p \in Processes : /\ ~AtWork(p) /\ job[p].at = "off" /\ job[p].steps = <<>> /\ job[p].held = {} /\ job[p].result = "none"
  BY <1>1 DEF I!Off, AtWork
<1>3. I!Off("none") \in Jobs
  BY DEF I!Off, Jobs
<1>4. InstallTypeOK
  <2>1. job \in [Processes -> Jobs]
    BY <1>3 DEF I!Init
  <2>2. files \in [I!Paths -> 0 .. Len(data)] /\ parts \in [I!Paths -> 0 .. Len(data)] /\ data \in Seq(Seq(Chunk))
    BY DEF I!Init
  <2>3. QED
    BY <1>1, <2>1, <2>2 DEF InstallTypeOK
<1>5. \A f \in I!Paths : ~I!Present(f)
  BY <1>1 DEF I!Present
<1>6. JobsInv
  BY <1>2 DEF JobsInv, PlanOf, DataOf, LibOf
<1>7. Distinct /\ OneWorks /\ I!DownloadsWhole
  BY <1>1, <1>2, <1>5, PathsAre DEF Distinct, OneWorks, I!DownloadsWhole, ModelFiles
<1>8. ExtrasInv /\ CompanionsInv
  BY <1>5, PathsAre DEF ExtrasInv, CompanionsInv
<1>9. ReadyInv
  BY <1>2 DEF ReadyInv
<1>10. CleanInv
  BY <1>1, <1>5, PathsAre DEF CleanInv
<1>11. QED
  BY <1>4, <1>6, <1>7, <1>8, <1>9, <1>10 DEF InstallInv

LEMMA InstallStep == ASSUME InstallInv, ~Overlap, I!Next PROVE InstallInv'
<1>1. PICK p \in Processes : I!NewEmbedder(p) \/ I!Runs(p) \/ I!Fails(p) \/ I!RenameFails(p) \/ I!Dies(p)
  BY DEF I!Next
<1>2. CASE I!NewEmbedder(p)
  BY <1>2, NewEmbedderKeeps
<1>3. CASE I!NextGoal(p)
  BY <1>3, NextGoalKeeps
<1>4. CASE I!BeginDownload(p)
  BY <1>4, BeginDownloadKeeps
<1>5. CASE I!WriteChunk(p)
  BY <1>5, WriteChunkKeeps
<1>6. CASE I!FinishDownload(p)
  BY <1>6, FinishDownloadKeeps
<1>7. CASE I!OpenEntry(p)
  BY <1>7, OpenEntryKeeps
<1>8. CASE I!CopyChunk(p)
  BY <1>8, CopyChunkKeeps
<1>9. CASE I!CloseEntry(p)
  BY <1>9, CloseEntryKeeps
<1>10. CASE I!DropArchive(p)
  BY <1>10, DropArchiveKeeps
<1>11. CASE I!InitializeEnvironment(p)
  BY <1>11, InitializeEnvironmentKeeps
<1>12. CASE I!NewSession(p)
  BY <1>12, NewSessionKeeps
<1>13. CASE I!Fails(p)
  BY <1>13, FailsKeeps
<1>14. CASE I!Dies(p)
  BY <1>14, DiesKeeps
<1>15. CASE I!RenameFails(p)
  BY <1>15, RenameFailsKeeps
<1>16. QED
  BY <1>1, <1>2, <1>3, <1>4, <1>5, <1>6, <1>7, <1>8, <1>9, <1>10, <1>11, <1>12, <1>13, <1>14, <1>15 DEF I!Runs

LEMMA InstallStutters == ASSUME InstallInv, UNCHANGED I!vars PROVE InstallInv'
<1>1. UNCHANGED <<machine, files, parts, data, job, deaths, cutFiles, stranded>>
  BY DEF I!vars
<1>2. /\ I!Extras' = I!Extras /\ I!Companions' = I!Companions
      /\ \A st : \A held : Planned(st, held)' <=> Planned(st, held)
      /\ \A g : PlannedGoal(g)' <=> PlannedGoal(g)
  BY <1>1, SameMachine
<1>3. \A g : (I!Present(g)' <=> I!Present(g)) /\ (I!Whole(g)' <=> I!Whole(g))
  BY <1>1, Untouched
<1>4. \A q : \A s : (AtWork(q)' <=> AtWork(q)) /\ (InSteps(q, s)' <=> InSteps(q, s)) /\ (InTodo(q, s)' <=> InTodo(q, s))
                    /\ (Ahead(q, s)' <=> Ahead(q, s)) /\ (Copies(q, s)' <=> Copies(q, s)) /\ I!Step(q)' = I!Step(q)
  BY <1>1 DEF AtWork, InSteps, InTodo, Ahead, Copies, I!Step
<1>5. InstallTypeOK' /\ Distinct' /\ OneWorks' /\ I!DownloadsWhole'
  BY <1>1, <1>3, <1>4 DEF InstallInv, InstallTypeOK, Distinct, OneWorks, I!DownloadsWhole
<1>6. ASSUME NEW q \in Processes PROVE PlanOf(q)' /\ DataOf(q)' /\ LibOf(q)'
  <2>1. PlanOf(q) /\ DataOf(q) /\ LibOf(q)
    BY DEF InstallInv, JobsInv
  <2>2. PlanOf(q)'
    BY <1>1, <1>2, <1>4, <2>1 DEF PlanOf
  <2>3. DataOf(q)'
    BY <1>1, <1>3, <1>4, <2>1 DEF DataOf, Written
  <2>4. LibOf(q)'
    BY <1>2, <1>3, <1>4, <2>1 DEF LibOf
  <2>5. QED
    BY <2>2, <2>3, <2>4
<1>7. ExtrasInv' /\ CompanionsInv'
  BY <1>1, <1>2, <1>3, <1>4 DEF InstallInv, ExtrasInv, CompanionsInv
<1>8. ReadyInv'
  BY <1>1, <1>2, <1>3, <1>4 DEF InstallInv, ReadyInv
<1>9. CleanInv'
  BY <1>1, <1>3, <1>4 DEF InstallInv, CleanInv
<1>10. QED
  BY <1>5, <1>6, <1>7, <1>8, <1>9 DEF InstallInv, JobsInv

LEMMA InstallPromises == InstallInv => I!DownloadsWhole /\ I!ReadyWhole /\ I!FailureLeavesNothing
<1> SUFFICES ASSUME InstallInv PROVE I!DownloadsWhole /\ I!ReadyWhole /\ I!FailureLeavesNothing
  OBVIOUS
<1>1. I!DownloadsWhole
  BY DEF InstallInv
<1>2. I!ReadyWhole
  <2>1. SUFFICES ASSUME NEW p \in Processes, job[p].result = "ready"
                 PROVE  /\ I!Whole("lib") /\ (machine.asked \in {"cuda", "directml"} => machine.attaches)
                        /\ \A f \in I!ToSet(I!Extras) \union I!ToSet(I!Companions) : f \in cutFiles \/ I!Whole(f)
    BY DEF I!ReadyWhole
  <2>2. /\ I!Whole("lib") /\ \A f \in I!ToSet(I!Companions) : I!Present(f)
        /\ \A q \in Processes : AtWork(q) => \A s \in Unpacks : ~InSteps(q, s)
        /\ machine.asked \in {"cuda", "directml"} => machine.attaches
    BY <2>1 DEF InstallInv, ReadyInv
  <2>3. ASSUME NEW f \in I!ToSet(I!Extras) PROVE f \in cutFiles \/ I!Whole(f)
    BY <2>2, PathsAre DEF InstallInv, ExtrasInv, I!Whole
  <2>4. ASSUME NEW f \in I!ToSet(I!Companions) PROVE f \in cutFiles \/ I!Whole(f)
    <3>1. ASSUME NEW q \in Processes, Copies(q, f) PROVE FALSE
      <4>1. AtWork(q) /\ job[q].at = "copy"
        BY <3>1 DEF Copies, AtWork
      <4>2. job[q].steps # <<>> /\ I!Step(q) \in Unpacks
        BY <4>1 DEF InstallInv, JobsInv, PlanOf
      <4>3. InSteps(q, I!Step(q))
        BY <4>1, <4>2, StepIs
      <4>4. QED
        BY <2>2, <4>1, <4>2, <4>3
    <3>2. QED
      BY <2>2, <3>1 DEF InstallInv, CompanionsInv
  <2>5. QED
    BY <2>2, <2>3, <2>4
<1>3. I!FailureLeavesNothing
  <2>1. SUFFICES ASSUME \A p \in Processes : job[p].at = "off", deaths = 0
                 PROVE  (\A f \in I!Paths : parts[f] = 0 \/ f \in stranded) /\ ~ \E a \in I!Archives : I!Present(a)
    BY DEF I!FailureLeavesNothing
  <2>2. \A p \in Processes : job[p].at # "write" /\ job[p].held = {}
    BY <2>1 DEF InstallInv, JobsInv, PlanOf, AtWork
  <2>3. QED
    BY <2>1, <2>2 DEF InstallInv, CleanInv
<1>4. QED
  BY <1>1, <1>2, <1>3

-----------------------------------------------------------------------------
(* The enrichment.                                                         *)

Places == 1 .. Len(Symbols)
Docs == [Names -> Nat]
WorkerStates == [at : {"ready", "ask", "save", "ended"}, of : Nat]
Saving == {w \in Workers : worker[w].at = "save"}

EnrichTypeOK ==
  /\ file \in Docs /\ tmp \in Docs /\ sidecar \in Docs
  /\ at \in {"off", "dispatch", "wait", "rename"} /\ todo \subseteq Places
  /\ worker \in [Workers -> WorkerStates]
  /\ \A w \in Workers : worker[w].at = "ask" => worker[w].of \in Places
  /\ {answered, unsaved, failures, endings} \subseteq Nat

\* Who saves holds the map of now; a run that is over has left nothing.
SavesInv ==
  /\ mutex # "none" => mutex \in Saving /\ tmp = sidecar
  /\ at = "rename" => tmp = sidecar /\ mutex = "none" /\ \A w \in Workers : worker[w].at = "ended"
  /\ at = "off" => worker = Ready /\ mutex = "none" /\ unsaved = 0

\* The map of a run that could read the file has all the names there.
MapInv == AgentBeside \/ at = "off" \/ blind \/ \A n \in Names : file[n] # 0 => sidecar[n] # 0

\* Each worker that saves stands for SaveEvery answers, and the last answer sent
\* a worker to save when all of them do.
AnswersInv ==
  /\ unsaved <= SaveEvery * Cardinality(Saving) + (answered % SaveEvery)
  /\ Saving = Workers => answered % SaveEvery = 0

EnrichInv == EnrichTypeOK /\ SavesInv /\ MapInv /\ AnswersInv

\* What a worker's state counts for.
LEMMA SavingIs ==
  /\ IsFiniteSet(Workers) /\ Cardinality(Workers) \in Nat
  /\ IsFiniteSet(Saving) /\ Cardinality(Saving) \in Nat
  /\ Cardinality(Saving) <= Cardinality(Workers)
  /\ Saving # Workers => Cardinality(Saving) + 1 <= Cardinality(Workers)
<1>1. IsFiniteSet(Workers) /\ Saving \subseteq Workers
  BY EnrichAssumption DEF Saving
<1>2. IsFiniteSet(Saving) /\ Cardinality(Saving) <= Cardinality(Workers) /\ (Cardinality(Saving) = Cardinality(Workers) => Saving = Workers)
  BY <1>1, FS_Subset
<1>3. Cardinality(Workers) \in Nat /\ Cardinality(Saving) \in Nat
  BY <1>1, <1>2, FS_CardinalityType
<1>4. QED
  BY <1>1, <1>2, <1>3

LEMMA Divides ==
  ASSUME NEW n \in Nat \ {0}, NEW a \in Nat
  PROVE  a = n * (a \div n) + (a % n)
OBVIOUS

LEMMA RemainderIs ==
  ASSUME NEW n \in Nat \ {0}, NEW a \in Nat, NEW q \in Int, NEW r \in 0 .. n - 1, a = n * q + r
  PROVE  r = a % n
OBVIOUS

LEMMA NextRemainder ==
  ASSUME NEW n \in Nat \ {0}, NEW a \in Nat
  PROVE  /\ a % n \in 0 .. n - 1
         /\ (a + 1) % n = 0 => a % n = n - 1
         /\ (a + 1) % n # 0 => (a + 1) % n = (a % n) + 1
<1>1. a % n \in 0 .. n - 1
  OBVIOUS
<1>2. a \div n \in Int
  OBVIOUS
<1>3. PICK q \in Int, r \in 0 .. n - 1 : r = a % n /\ a = n * q + r
  BY <1>1, <1>2, Divides
<1>4. CASE r + 1 < n
  <2>1. r + 1 \in 0 .. n - 1 /\ a + 1 = n * q + (r + 1) /\ a + 1 \in Nat
    BY <1>3, <1>4
  <2>2. r + 1 = (a + 1) % n
    BY <2>1, RemainderIs
  <2>3. QED
    BY <1>1, <1>3, <2>2
<1>5. CASE r = n - 1
  <2>1. n * (q + 1) = n * q + n
    BY <1>3
  <2>2. a + 1 = n * (q + 1) + 0 /\ q + 1 \in Int /\ 0 \in 0 .. n - 1 /\ a + 1 \in Nat
    BY <1>3, <1>5, <2>1
  <2>3. 0 = (a + 1) % n
    BY <2>2, RemainderIs
  <2>4. QED
    BY <1>1, <1>3, <1>5, <2>3
<1>6. QED
  BY <1>3, <1>4, <1>5

LEMMA EnrichGiven ==
  SaveEvery \in Nat \ {0} /\ Workers # {} /\ "none" \notin Workers /\ Symbols \in Seq(STRING)
BY EnrichAssumption

LEMMA NamesAre == \A i \in Places : Symbols[i] \in Names
<1>1. Symbols \in Seq(STRING)
  BY EnrichGiven
<1>2. QED
  BY <1>1 DEF Places, Names, ToSet

LEMMA Shares ==
  ASSUME NEW n \in Nat \ {0}, NEW c \in Nat, NEW d \in Nat, NEW m \in 0 .. n - 1, c <= d, c = d => m = 0
  PROVE  n * c + m <= n * d
<1>1. n * c \in Nat /\ n * d \in Nat
  OBVIOUS
<1>2. CASE c = d
  BY <1>1, <1>2
<1>3. CASE c + 1 <= d
  <2>1. n * (c + 1) <= n * d
    BY <1>3
  <2>2. n * (c + 1) = n * c + n
    OBVIOUS
  <2>3. QED
    BY <1>1, <2>1, <2>2
<1>4. QED
  BY <1>2, <1>3

LEMMA AnswersBounded == EnrichInv => LossBounded
<1> SUFFICES ASSUME EnrichInv PROVE LossBounded
  OBVIOUS
<1>1. SaveEvery \in Nat \ {0} /\ answered \in Nat /\ unsaved \in Nat
  BY EnrichGiven DEF EnrichInv, EnrichTypeOK
<1>2. answered % SaveEvery \in 0 .. SaveEvery - 1
  BY <1>1, NextRemainder
<1>3. unsaved <= SaveEvery * Cardinality(Saving) + (answered % SaveEvery)
  BY DEF EnrichInv, AnswersInv
<1>4. Saving = Workers => answered % SaveEvery = 0
  BY DEF EnrichInv, AnswersInv
<1>5. Cardinality(Saving) \in Nat /\ Cardinality(Workers) \in Nat /\ Cardinality(Saving) <= Cardinality(Workers)
  BY SavingIs
<1>6. Cardinality(Saving) = Cardinality(Workers) => Saving = Workers
  BY SavingIs
<1>7. SaveEvery * Cardinality(Saving) + (answered % SaveEvery) <= SaveEvery * Cardinality(Workers)
  BY <1>1, <1>2, <1>4, <1>5, <1>6, Shares
<1>8. SaveEvery * Cardinality(Saving) \in Nat /\ SaveEvery * Cardinality(Workers) \in Nat
  BY <1>1, <1>5
<1>9. QED
  BY <1>1, <1>2, <1>3, <1>7, <1>8 DEF LossBounded

LEMMA EnrichInit == Init => EnrichInv
<1> SUFFICES ASSUME Init PROVE EnrichInv
  OBVIOUS
<1>1. file = Nothing /\ tmp = Nothing /\ sidecar = Nothing /\ todo = {} /\ worker = Ready /\ mutex = "none" /\ at = "off"
  BY DEF Init, NoLocals
<1>2. answered = 0 /\ unsaved = 0 /\ failures = 0 /\ endings = 0
  BY DEF Init, NoLocals
<1>3. EnrichTypeOK
  BY <1>1, <1>2 DEF EnrichTypeOK, Docs, Nothing, Ready, WorkerStates
<1>4. SavesInv /\ MapInv
  BY <1>1, <1>2 DEF SavesInv, MapInv
<1>5. Saving = {}
  BY <1>1 DEF Saving, Ready
<1>6. answered % SaveEvery = 0 /\ Cardinality(Saving) = 0 /\ SaveEvery \in Nat \ {0}
  BY <1>2, <1>5, EnrichGiven, FS_EmptySet
<1>7. AnswersInv
  BY <1>2, <1>6 DEF AnswersInv
<1>8. QED
  BY <1>3, <1>4, <1>7 DEF EnrichInv

\* What leaves who saves and the counters alone, and what resets them.
LEMMA AnswersSame ==
  ASSUME AnswersInv, Saving' = Saving, unsaved' = unsaved, answered' = answered
  PROVE  AnswersInv'
BY DEF AnswersInv

LEMMA AnswersReset ==
  ASSUME worker' = Ready, unsaved' = 0, answered' = 0
  PROVE  AnswersInv'
<1>1. Saving' = {}
  BY DEF Saving, Ready
<1>2. (answered % SaveEvery)' = 0 /\ Cardinality(Saving)' = 0 /\ SaveEvery \in Nat \ {0}
  BY <1>1, EnrichGiven, FS_EmptySet
<1>3. QED
  BY <1>2 DEF AnswersInv

LEMMA ReadyTyped ==
  ASSUME worker' = Ready
  PROVE  /\ worker' \in [Workers -> WorkerStates] /\ \A w \in Workers : worker'[w].at = "ready"
BY DEF Ready, WorkerStates

LEMMA NothingTyped == Nothing \in Docs
BY DEF Docs, Nothing

\* A run in which the agent does not write forgets what it knows.
LEMMA ForgetKeeps ==
  ASSUME EnrichInv, Forget, at' = "off", file' \in Docs, tmp' \in Docs, {failures', endings'} \subseteq Nat
  PROVE  EnrichInv'
<1>1. EnrichTypeOK'
  <2>1. worker' \in [Workers -> WorkerStates] /\ \A w \in Workers : worker'[w].at # "ask"
    BY ReadyTyped DEF Forget
  <2>2. QED
    BY <2>1, NothingTyped DEF EnrichTypeOK, Forget
<1>2. SavesInv' /\ MapInv'
  BY DEF SavesInv, MapInv, Forget
<1>3. AnswersInv'
  BY AnswersReset DEF Forget
<1>4. QED
  BY <1>1, <1>2, <1>3 DEF EnrichInv

LEMMA RunEnrichKeeps ==
  ASSUME EnrichInv, NEW force \in BOOLEAN, NEW limit \in Limits, NEW reads \in BOOLEAN, RunEnrich(force, limit, reads)
  PROVE  EnrichInv'
<1> DEFINE map == LoadSidecar(force, reads)
<1>1. /\ at = "off" /\ at' = "dispatch" /\ sidecar' = map /\ todo' = Todo(map, force, limit) /\ worker' = Ready
      /\ answered' = 0 /\ unsaved' = 0 /\ blind' = ~reads /\ failures' = Counted(reads)
      /\ UNCHANGED <<file, tmp, mutex, endings>>
  BY DEF RunEnrich
<1>2. Todo(map, force, limit) \subseteq Places
  <2>1. DOMAIN Symbols = Places
    BY EnrichGiven DEF Places
  <2>2. QED
    BY <2>1 DEF Todo
<1>3. map \in Docs /\ (reads => map = file) /\ failures' \in Nat
  BY <1>1, NothingTyped DEF LoadSidecar, Counted, EnrichInv, EnrichTypeOK
<1> HIDE DEF map
<1>4. EnrichTypeOK'
  <2>1. worker' \in [Workers -> WorkerStates] /\ \A w \in Workers : worker'[w].at # "ask"
    BY <1>1, ReadyTyped
  <2>2. QED
    BY <1>1, <1>2, <1>3, <2>1 DEF EnrichInv, EnrichTypeOK
<1>5. SavesInv'
  BY <1>1 DEF EnrichInv, SavesInv
<1>6. MapInv'
  BY <1>1, <1>3 DEF MapInv
<1>7. AnswersInv'
  BY <1>1, AnswersReset
<1>8. QED
  BY <1>4, <1>5, <1>6, <1>7 DEF EnrichInv

LEMMA WorkerPut ==
  ASSUME EnrichTypeOK, NEW w \in Workers, NEW s \in WorkerStates, s.at = "ask" => s.of \in Places,
         worker' = [worker EXCEPT ![w] = s]
  PROVE  /\ worker' \in [Workers -> WorkerStates] /\ worker'[w] = s
         /\ \A v \in Workers : v # w => worker'[v] = worker[v]
         /\ \A v \in Workers : worker'[v].at = "ask" => worker'[v].of \in Places
         /\ Saving' = IF s.at = "save" THEN Saving \union {w} ELSE Saving \ {w}
<1>1. worker \in [Workers -> WorkerStates] /\ \A v \in Workers : worker[v].at = "ask" => worker[v].of \in Places
  BY DEF EnrichTypeOK
<1>2. worker' \in [Workers -> WorkerStates] /\ worker'[w] = s /\ \A v \in Workers : v # w => worker'[v] = worker[v]
  BY <1>1
<1>3. \A v \in Workers : worker'[v].at = "ask" => worker'[v].of \in Places
  BY <1>1, <1>2
<1>4. CASE s.at = "save"
  BY <1>2, <1>3, <1>4 DEF Saving
<1>5. CASE s.at # "save"
  BY <1>2, <1>3, <1>5 DEF Saving
<1>6. QED
  BY <1>4, <1>5

LEMMA DispatchKeeps ==
  ASSUME EnrichInv, NEW w \in Workers, Dispatch(w)
  PROVE  EnrichInv'
<1>1. PICK i \in todo : worker' = [worker EXCEPT ![w] = [at |-> "ask", of |-> i]] /\ todo' = todo \ {i}
  BY DEF Dispatch
<1>2. /\ at = "dispatch" /\ worker[w].at = "ready"
      /\ UNCHANGED <<file, tmp, at, sidecar, mutex, answered, unsaved, blind, failures, endings>>
  BY DEF Dispatch
<1> DEFINE s == [at |-> "ask", of |-> i]
<1>3. i \in Places /\ s \in WorkerStates /\ s.at = "ask" /\ s.of = i
  BY DEF EnrichInv, EnrichTypeOK, Places, WorkerStates
<1>4. worker' = [worker EXCEPT ![w] = s]
  BY <1>1
<1> HIDE DEF s
<1>5. EnrichTypeOK
  BY DEF EnrichInv
<1>6. /\ worker' \in [Workers -> WorkerStates]
      /\ \A v \in Workers : worker'[v].at = "ask" => worker'[v].of \in Places
      /\ Saving' = Saving \ {w}
  BY <1>3, <1>4, <1>5, WorkerPut
<1>7. w \notin Saving
  BY <1>2 DEF Saving
<1>8. Saving' = Saving
  BY <1>6, <1>7
<1>9. EnrichTypeOK'
  BY <1>1, <1>2, <1>5, <1>6 DEF EnrichTypeOK
<1>10. SavesInv' /\ MapInv'
  BY <1>2, <1>8 DEF EnrichInv, SavesInv, MapInv
<1>11. AnswersInv'
  BY <1>2, <1>8, AnswersSame DEF EnrichInv
<1>12. QED
  BY <1>9, <1>10, <1>11 DEF EnrichInv

LEMMA WorkerEndsKeeps ==
  ASSUME EnrichInv, NEW w \in Workers, WorkerEnds(w)
  PROVE  EnrichInv'
<1>1. /\ at = "wait" /\ worker[w].at = "ready" /\ worker' = [worker EXCEPT ![w].at = "ended"]
      /\ UNCHANGED <<file, tmp, at, sidecar, todo, mutex, answered, unsaved, blind, failures, endings>>
  BY DEF WorkerEnds
<1> DEFINE s == [worker[w] EXCEPT !.at = "ended"]
<1>2. s \in WorkerStates /\ s.at = "ended"
  BY DEF EnrichInv, EnrichTypeOK, WorkerStates
<1>3. worker' = [worker EXCEPT ![w] = s]
  BY <1>1
<1> HIDE DEF s
<1>4. EnrichTypeOK
  BY DEF EnrichInv
<1>5. /\ worker' \in [Workers -> WorkerStates]
      /\ \A v \in Workers : worker'[v].at = "ask" => worker'[v].of \in Places
      /\ Saving' = Saving \ {w}
  BY <1>2, <1>3, <1>4, WorkerPut
<1>6. w \notin Saving
  BY <1>1 DEF Saving
<1>7. Saving' = Saving
  BY <1>5, <1>6
<1>8. EnrichTypeOK'
  BY <1>1, <1>4, <1>5 DEF EnrichTypeOK
<1>9. SavesInv' /\ MapInv'
  BY <1>1, <1>7 DEF EnrichInv, SavesInv, MapInv
<1>10. AnswersInv'
  BY <1>1, <1>7, AnswersSame DEF EnrichInv
<1>11. QED
  BY <1>8, <1>9, <1>10 DEF EnrichInv

LEMMA SummarizedKeeps ==
  ASSUME EnrichInv, NEW w \in Workers, NEW ok \in BOOLEAN, Summarized(w, ok)
  PROVE  EnrichInv'
<1>1. /\ worker[w].at = "ask" /\ mutex = "none" /\ answered' = answered + 1 /\ unsaved' = unsaved + 1
      /\ UNCHANGED <<file, tmp, at, todo, mutex, blind, endings>>
      /\ failures' = failures + (IF ok \/ cancelled THEN 0 ELSE 1)
      /\ sidecar' = IF ok THEN [sidecar EXCEPT ![Symbols[worker[w].of]] = worker[w].of] ELSE sidecar
      /\ worker' = [worker EXCEPT ![w] = [at |-> IF (answered + 1) % SaveEvery = 0 THEN "save" ELSE "ready", of |-> 0]]
  BY DEF Summarized
<1>2. EnrichTypeOK /\ SavesInv /\ MapInv /\ AnswersInv
  BY DEF EnrichInv
<1> DEFINE s == [at |-> IF (answered + 1) % SaveEvery = 0 THEN "save" ELSE "ready", of |-> 0]
<1>3. s \in WorkerStates /\ s.at # "ask" /\ (s.at = "save" <=> (answered + 1) % SaveEvery = 0)
  BY DEF WorkerStates
<1>4. worker' = [worker EXCEPT ![w] = s]
  BY <1>1
<1> HIDE DEF s
<1>5. /\ worker' \in [Workers -> WorkerStates]
      /\ \A v \in Workers : worker'[v].at = "ask" => worker'[v].of \in Places
      /\ Saving' = IF s.at = "save" THEN Saving \union {w} ELSE Saving \ {w}
  BY <1>2, <1>3, <1>4, WorkerPut
<1>6. w \notin Saving /\ Saving # Workers
  BY <1>1 DEF Saving
<1>7. worker[w].of \in Nat \ {0} /\ Symbols[worker[w].of] \in Names
  BY <1>1, <1>2, NamesAre, SMTT(40) DEF EnrichTypeOK, Places
<1>8. sidecar' \in Docs /\ \A n \in Names : sidecar[n] # 0 => sidecar'[n] # 0
  <2>1. CASE ok
    BY <1>1, <1>2, <1>7, <2>1 DEF EnrichTypeOK, Docs
  <2>2. CASE ~ok
    BY <1>1, <1>2, <2>2 DEF EnrichTypeOK, Docs
  <2>3. QED
    BY <2>1, <2>2
<1>9. EnrichTypeOK'
  <2>1. answered \in Nat /\ unsaved \in Nat /\ failures \in Nat /\ endings \in Nat
    BY <1>2 DEF EnrichTypeOK
  <2>2. answered' \in Nat /\ unsaved' \in Nat /\ failures' \in Nat /\ endings' \in Nat
    BY <1>1, <2>1
  <2>3. QED
    BY <1>1, <1>2, <1>5, <1>8, <2>2 DEF EnrichTypeOK
<1>10. SavesInv'
  BY <1>1, <1>2, EnrichGiven DEF SavesInv, Ready
<1>11. MapInv'
  BY <1>1, <1>2, <1>8 DEF MapInv
<1>12. AnswersInv'
  <2>1. SaveEvery \in Nat \ {0} /\ answered \in Nat /\ unsaved \in Nat
    BY <1>2, EnrichGiven DEF EnrichTypeOK
  <2>2. /\ answered % SaveEvery \in 0 .. SaveEvery - 1
        /\ (answered + 1) % SaveEvery = 0 => answered % SaveEvery = SaveEvery - 1
        /\ (answered + 1) % SaveEvery # 0 => (answered + 1) % SaveEvery = (answered % SaveEvery) + 1
    BY <2>1, NextRemainder
  <2>3. unsaved <= SaveEvery * Cardinality(Saving) + (answered % SaveEvery)
    BY <1>2 DEF AnswersInv
  <2>4. IsFiniteSet(Saving) /\ Cardinality(Saving) \in Nat
    BY SavingIs
  <2>5. SaveEvery * Cardinality(Saving) \in Nat
    BY <2>1, <2>4
  <2>6. answered' = answered + 1 /\ unsaved' = unsaved + 1
    BY <1>1
  <2>7. CASE (answered + 1) % SaveEvery = 0
    <3>1. Saving' = Saving \union {w}
      BY <1>3, <1>5, <2>7
    <3>2. Cardinality(Saving') = Cardinality(Saving) + 1
      BY <1>6, <2>4, <3>1, FS_AddElement
    <3>3. SaveEvery * (Cardinality(Saving) + 1) = SaveEvery * Cardinality(Saving) + SaveEvery
      BY <2>1, <2>4
    <3>4. unsaved + 1 <= SaveEvery * (Cardinality(Saving) + 1) + 0
      BY <2>1, <2>2, <2>3, <2>5, <2>7, <3>3
    <3>5. unsaved' <= SaveEvery * Cardinality(Saving') + (answered' % SaveEvery)
      BY <2>6, <2>7, <3>2, <3>4
    <3>6. QED
      BY <2>6, <2>7, <3>5 DEF AnswersInv
  <2>8. CASE (answered + 1) % SaveEvery # 0
    <3>1. Saving' = Saving
      BY <1>3, <1>5, <1>6, <2>8
    <3>2. unsaved + 1 <= SaveEvery * Cardinality(Saving) + ((answered + 1) % SaveEvery)
      BY <2>1, <2>2, <2>3, <2>5, <2>8
    <3>3. unsaved' <= SaveEvery * Cardinality(Saving') + (answered' % SaveEvery)
      BY <2>6, <3>1, <3>2
    <3>4. Saving' # Workers
      BY <1>6, <3>1
    <3>5. QED
      BY <3>3, <3>4 DEF AnswersInv
  <2>9. QED
    BY <2>7, <2>8
<1>13. QED
  BY <1>9, <1>10, <1>11, <1>12 DEF EnrichInv

LEMMA LockAndWriteTmpKeeps ==
  ASSUME EnrichInv, NEW w \in Workers, LockAndWriteTmp(w)
  PROVE  EnrichInv'
<1>1. /\ worker[w].at = "save" /\ mutex' = w /\ tmp' = sidecar
      /\ UNCHANGED <<file, at, sidecar, todo, worker, answered, unsaved, blind, failures, endings>>
  BY DEF LockAndWriteTmp
<1>2. Saving' = Saving /\ w \in Saving
  BY <1>1 DEF Saving
<1>3. EnrichTypeOK'
  BY <1>1 DEF EnrichInv, EnrichTypeOK
<1>4. SavesInv'
  BY <1>1, <1>2 DEF EnrichInv, SavesInv, Ready
<1>5. MapInv'
  BY <1>1 DEF EnrichInv, MapInv
<1>6. AnswersInv'
  BY <1>1, <1>2, AnswersSame DEF EnrichInv
<1>7. QED
  BY <1>3, <1>4, <1>5, <1>6 DEF EnrichInv

\* A worker that has written the map, or failed to, gives the mutex back.
LEMMA SavedKeeps ==
  ASSUME EnrichInv, NEW w \in Workers, mutex = w, worker[w].at = "save", mutex' = "none", unsaved' = 0,
         worker' = [worker EXCEPT ![w].at = "ready"], file' \in {file, sidecar}, tmp' \in Docs, failures' \in Nat,
         UNCHANGED <<at, sidecar, todo, answered, blind, endings>>
  PROVE  EnrichInv'
<1>1. EnrichTypeOK /\ SavesInv /\ MapInv /\ AnswersInv
  BY DEF EnrichInv
<1> DEFINE s == [worker[w] EXCEPT !.at = "ready"]
<1>2. s \in WorkerStates /\ s.at = "ready"
  BY <1>1 DEF EnrichTypeOK, WorkerStates
<1>3. worker' = [worker EXCEPT ![w] = s]
  OBVIOUS
<1> HIDE DEF s
<1>4. /\ worker' \in [Workers -> WorkerStates]
      /\ \A v \in Workers : worker'[v].at = "ask" => worker'[v].of \in Places
      /\ Saving' = Saving \ {w}
  BY <1>1, <1>2, <1>3, WorkerPut
<1>5. at # "off" /\ at # "rename"
  BY <1>1, EnrichGiven DEF SavesInv
<1>6. EnrichTypeOK'
  BY <1>1, <1>4 DEF EnrichTypeOK
<1>7. SavesInv'
  BY <1>5 DEF SavesInv
<1>8. MapInv'
  BY <1>1, <1>5 DEF MapInv
<1>9. AnswersInv'
  <2>1. Saving' \subseteq Workers /\ w \notin Saving'
    BY <1>4 DEF Saving
  <2>2. IsFiniteSet(Saving') /\ Cardinality(Saving') \in Nat
    BY <2>1, EnrichAssumption, FS_Subset, FS_CardinalityType
  <2>3. SaveEvery \in Nat \ {0} /\ answered' \in Nat
    BY <1>1, EnrichGiven DEF EnrichTypeOK
  <2>4. answered' % SaveEvery \in 0 .. SaveEvery - 1
    BY <2>3, NextRemainder
  <2>5. 0 <= SaveEvery * Cardinality(Saving') + (answered' % SaveEvery)
    BY <2>2, <2>3, <2>4
  <2>6. QED
    BY <2>1, <2>5 DEF AnswersInv
<1>10. QED
  BY <1>6, <1>7, <1>8, <1>9 DEF EnrichInv

LEMMA RenameTmpKeeps ==
  ASSUME EnrichInv, NEW w \in Workers, RenameTmp(w)
  PROVE  EnrichInv'
<1>1. mutex = w /\ w # "none" /\ tmp = sidecar /\ failures \in Nat
  BY EnrichGiven DEF EnrichInv, EnrichTypeOK, SavesInv, RenameTmp
<1>2. QED
  BY <1>1, SavedKeeps, NothingTyped DEF RenameTmp

LEMMA SaveFailsKeeps ==
  ASSUME EnrichInv, NEW w \in Workers, SaveFails(w)
  PROVE  EnrichInv'
<1>1. failures' \in Nat /\ tmp' \in Docs
  BY DEF EnrichInv, EnrichTypeOK, SaveFails
<1>2. QED
  BY <1>1, SavedKeeps DEF SaveFails

\* The loop closes jobs, a run is cancelled, the agent writes, pending names are told.
LEMMA LoopKeeps ==
  ASSUME EnrichInv, at' \in {at, "wait"}, at = "off" => at' = "off", at = "rename" => at' = "rename",
         file' \in Docs, file' = file \/ AgentBeside \/ at' = "off", {failures', endings'} \subseteq Nat,
         UNCHANGED <<tmp, sidecar, todo, worker, mutex, answered, unsaved, blind>>
  PROVE  EnrichInv'
<1>1. EnrichTypeOK /\ SavesInv /\ MapInv /\ AnswersInv
  BY DEF EnrichInv
<1>2. Saving' = Saving
  BY DEF Saving
<1>3. EnrichTypeOK'
  BY <1>1 DEF EnrichTypeOK
<1>4. SavesInv'
  BY <1>1, <1>2 DEF SavesInv, Ready
<1>5. MapInv'
  BY <1>1 DEF MapInv
<1>6. AnswersInv'
  BY <1>1, <1>2, AnswersSame
<1>7. QED
  BY <1>3, <1>4, <1>5, <1>6 DEF EnrichInv

LEMMA FinalWriteKeeps ==
  ASSUME EnrichInv, FinalWrite
  PROVE  EnrichInv'
<1>1. /\ at = "wait" /\ at' = "rename" /\ tmp' = sidecar /\ \A w \in Workers : worker[w].at = "ended"
      /\ UNCHANGED <<file, sidecar, todo, worker, mutex, answered, unsaved, blind, failures, endings>>
  BY DEF FinalWrite, AllEnded
<1>2. EnrichTypeOK /\ SavesInv /\ MapInv /\ AnswersInv
  BY DEF EnrichInv
<1>3. Saving = {} /\ Saving' = Saving
  BY <1>1 DEF Saving
<1>4. EnrichTypeOK'
  BY <1>1, <1>2 DEF EnrichTypeOK
<1>5. SavesInv'
  BY <1>1, <1>2, <1>3 DEF SavesInv
<1>6. MapInv' /\ AnswersInv'
  BY <1>1, <1>2, <1>3, AnswersSame DEF MapInv
<1>7. QED
  BY <1>4, <1>5, <1>6 DEF EnrichInv

LEMMA EnrichStep ==
  ASSUME EnrichInv, Next
  PROVE  EnrichInv'
<1>1. EnrichTypeOK /\ SavesInv
  BY DEF EnrichInv
<1>2. file \in Docs /\ tmp \in Docs /\ sidecar \in Docs /\ failures \in Nat /\ endings \in Nat
  BY <1>1 DEF EnrichTypeOK
<1>3. ASSUME NEW limit \in Limits, NEW reads \in BOOLEAN, EmitPending(limit, reads) PROVE EnrichInv'
  <2>1. failures' \in Nat
    BY <1>2, <1>3 DEF EmitPending, Counted
  <2>2. QED
    BY <1>2, <1>3, <2>1, LoopKeeps DEF EmitPending
<1>4. ASSUME NEW limit \in Limits, NEW reads \in BOOLEAN, NEW force \in BOOLEAN, RunEnrich(force, limit, reads)
      PROVE  EnrichInv'
  BY <1>4, RunEnrichKeeps
<1>5. ASSUME NEW w \in Workers, Works(w) PROVE EnrichInv'
  BY <1>5, DispatchKeeps, SummarizedKeeps, LockAndWriteTmpKeeps, RenameTmpKeeps, SaveFailsKeeps, WorkerEndsKeeps DEF Works
<1>6. CASE CloseJobs
  BY <1>2, <1>6, LoopKeeps DEF CloseJobs
<1>7. CASE FinalWrite
  BY <1>7, FinalWriteKeeps
<1>8. CASE FinalRename
  BY <1>2, <1>8, ForgetKeeps, NothingTyped DEF FinalRename
<1>9. CASE FinalSaveFails
  BY <1>2, <1>9, ForgetKeeps DEF FinalSaveFails
<1>10. CASE Cancel
  BY <1>2, <1>10, LoopKeeps DEF Cancel
<1>11. CASE Dies
  BY <1>2, <1>11, ForgetKeeps DEF Dies
<1>12. ASSUME NEW n \in AgentNames, AgentWrites(n) PROVE EnrichInv'
  <2>1. AgentBeside \/ at = "off"
    BY <1>12 DEF AgentWrites
  <2>2. Len(Symbols) + 1 \in Nat
    BY EnrichGiven
  <2>3. file' \in Docs
    BY <1>2, <1>12, <2>2 DEF AgentWrites, Docs
  <2>4. QED
    BY <1>2, <1>12, <2>1, <2>3, LoopKeeps DEF AgentWrites
<1>13. QED
  BY <1>3, <1>4, <1>5, <1>6, <1>7, <1>8, <1>9, <1>10, <1>11, <1>12 DEF Next

LEMMA EnrichStutters ==
  ASSUME EnrichInv, UNCHANGED vars
  PROVE  EnrichInv'
<1>1. EnrichTypeOK
  BY DEF EnrichInv
<1>2. QED
  BY <1>1, LoopKeeps DEF vars, EnrichTypeOK

\* Only a rename of the map, and the agent, write the file.
LEMMA FileGets ==
  ASSUME EnrichInv, Next
  PROVE  \/ file' = file
         \/ at # "off" /\ file' = sidecar
         \/ \E n \in AgentNames : AgentWrites(n)
<1>1. ASSUME NEW w \in Workers, Works(w) PROVE file' = file \/ (at # "off" /\ file' = sidecar)
  <2>1. CASE RenameTmp(w)
    BY <2>1, EnrichGiven DEF RenameTmp, EnrichInv, SavesInv
  <2>2. CASE ~RenameTmp(w)
    BY <1>1, <2>2 DEF Works, Dispatch, Summarized, LockAndWriteTmp, SaveFails, WorkerEnds
  <2>3. QED
    BY <2>1, <2>2
<1>2. CASE FinalRename
  BY <1>2 DEF FinalRename, EnrichInv, SavesInv
<1>3. CASE CloseJobs \/ FinalWrite \/ FinalSaveFails \/ Cancel \/ Dies
  BY <1>3 DEF CloseJobs, FinalWrite, FinalSaveFails, Cancel, Dies
<1>4. ASSUME NEW limit \in Limits, NEW reads \in BOOLEAN,
             EmitPending(limit, reads) \/ \E force \in BOOLEAN : RunEnrich(force, limit, reads)
      PROVE  file' = file
  BY <1>4 DEF EmitPending, RunEnrich
<1>5. QED
  BY <1>1, <1>2, <1>3, <1>4 DEF Next

LEMMA SummariesStep ==
  ASSUME ~AgentBeside, EnrichInv, Next
  PROVE  blind \/ \A n \in Names : file[n] # 0 => file'[n] # 0
<1>1. CASE at # "off" /\ file' = sidecar
  BY <1>1 DEF EnrichInv, MapInv
<1>2. ASSUME NEW m \in AgentNames, AgentWrites(m) PROVE \A n \in Names : file[n] # 0 => file'[n] # 0
  <2>1. file \in [Names -> Nat] /\ file' = [file EXCEPT ![m] = Len(Symbols) + 1]
    BY <1>2 DEF EnrichInv, EnrichTypeOK, Docs, AgentWrites
  <2>2. Len(Symbols) + 1 # 0
    BY EnrichGiven
  <2>3. QED
    BY <2>1, <2>2
<1>3. QED
  BY <1>1, <1>2, FileGets

LEMMA EndedStep ==
  ASSUME EnrichInv, Next, at = "rename", at' = "off", endings' = endings, failures' = failures
  PROVE  file' = sidecar
<1>1. failures + 1 # failures /\ endings + 1 # endings /\ tmp = sidecar
  BY DEF EnrichInv, EnrichTypeOK, SavesInv
<1>2. FinalRename
  BY <1>1 DEF Next, EmitPending, RunEnrich, Works, Dispatch, Summarized, LockAndWriteTmp, RenameTmp, SaveFails,
     WorkerEnds, CloseJobs, FinalWrite, FinalSaveFails, Cancel, Dies, AgentWrites
<1>3. QED
  BY <1>1, <1>2 DEF FinalRename

-----------------------------------------------------------------------------
(* The hosts.                                                              *)

\* The strings, with those of the model by name: the provers know of no literal
\* that it is one.
Words == STRING \union
  {"PreToolUse", "PostToolUse", "beforeShellExecution", "Grep", "Grep|Glob", "find_context", "grep|rg|ag|ack", "^Bash$",
   "pre-search", "post-find", "post-search", "search-signal", "contextmaxxer", "new",
   "header", "key", "text", "mark", "rule", "start", "end", "ours", "command", "args"}

HookRecs == [event : Words, matcher : Words, signal : Words, bin : Nat, back : BOOLEAN]
LineRecs == [is : Words, of : Words, val : Nat]
ServerRecs == [name : Words, bin : Nat, extra : BOOLEAN]
JsonDocs == [is : {"json"}, servers : SUBSET ServerRecs, hooks : Seq(HookRecs),
             version : BOOLEAN, odd : BOOLEAN]

LEMMA LeastIs ==
  ASSUME NEW S \in SUBSET Nat, NEW x \in S, \A y \in S : x <= y
  PROVE  H!Min(S) = x
<1> DEFINE Low(z) == z \in S /\ \A y \in S : z <= y
<1>1. Low(x)
  OBVIOUS
<1>2. \A z : Low(z) => z = x
  OBVIOUS
<1>3. H!Min(S) = CHOOSE z : Low(z)
  BY DEF H!Min
<1> HIDE DEF Low
<1>4. QED
  BY <1>1, <1>2, <1>3

LEMMA LeastOf ==
  ASSUME NEW S \in SUBSET Nat, S # {}
  PROVE  H!Min(S) \in S /\ \A y \in S : H!Min(S) <= y
<1> DEFINE R == OpToRel(<, Nat)
<1>1. \E x \in S : \A y \in S : ~(<<y, x>> \in R)
  <2>1. IsWellFoundedOn(R, Nat)
    BY NatLessThanWellFounded, Zenon
  <2> HIDE DEF R
  <2>2. QED
    BY <2>1, WFMin, Zenon
<1>2. \A x, y \in Nat : y < x => <<y, x>> \in R
  BY DEF OpToRel
<1> HIDE DEF R
<1>3. PICK x \in S : \A y \in S : ~(<<y, x>> \in R)
  BY <1>1
<1>4. ASSUME NEW y \in S PROVE x <= y
  <2>1. x \in Nat /\ y \in Nat /\ ~(<<y, x>> \in R)
    BY <1>3
  <2>2. ~(y < x)
    BY <1>2, <2>1
  <2>3. QED
    BY <2>1, <2>2
<1>5. QED
  BY <1>3, <1>4, LeastIs

LEMMA GreatestIs ==
  ASSUME NEW S \in SUBSET Nat, NEW x \in S, \A y \in S : y <= x
  PROVE  H!Max(S) = x
<1> DEFINE High(z) == z \in S /\ \A y \in S : z >= y
<1>1. High(x)
  OBVIOUS
<1>2. \A z : High(z) => z = x
  OBVIOUS
<1>3. H!Max(S) = CHOOSE z : High(z)
  BY DEF H!Max
<1> HIDE DEF High
<1>4. QED
  BY <1>1, <1>2, <1>3

LEMMA GreatestOf ==
  ASSUME NEW n \in Nat, NEW S \in SUBSET (1 .. n), S # {}
  PROVE  \E x \in S : \A y \in S : y <= x
<1> DEFINE T == {n - y : y \in S}
<1>1. T \in SUBSET Nat /\ T # {}
  OBVIOUS
<1>2. H!Min(T) \in T /\ \A z \in T : H!Min(T) <= z
  BY <1>1, LeastOf
<1>3. PICK x \in S : H!Min(T) = n - x
  BY <1>2
<1>4. \A y \in S : n - x <= n - y
  BY <1>2, <1>3
<1>5. QED
  BY <1>3, <1>4

-----------------------------------------------------------------------------
(* The section a line is in.                                               *)

Headers(ls, i) == {j \in 1 .. i : ls[j].is = "header"}

LEMMA UnderTop == ASSUME NEW ls, NEW i, Headers(ls, i) = {} PROVE H!Under(ls, i) = "top"
BY DEF H!Under, Headers

LEMMA UnderLast ==
  ASSUME NEW ls, NEW i \in Nat, NEW h \in Headers(ls, i), \A j \in Headers(ls, i) : j <= h
  PROVE  H!Under(ls, i) = ls[h].of
<1>1. Headers(ls, i) \in SUBSET Nat
  BY DEF Headers
<1>2. H!Max(Headers(ls, i)) = h
  BY <1>1, GreatestIs
<1>3. QED
  BY <1>2 DEF H!Under, Headers

LEMMA LastHeader ==
  ASSUME NEW ls, NEW i \in Nat, Headers(ls, i) # {}
  PROVE  \E h \in Headers(ls, i) : \A j \in Headers(ls, i) : j <= h
<1>1. Headers(ls, i) \in SUBSET (1 .. i)
  BY DEF Headers
<1>2. QED
  BY <1>1, GreatestOf

\* Only what is above a line says where it is.
LEMMA UnderSame ==
  ASSUME NEW a, NEW b, NEW i \in Nat, Headers(a, i) = Headers(b, i), \A j \in Headers(a, i) : a[j].of = b[j].of
  PROVE  H!Under(a, i) = H!Under(b, i)
<1>1. CASE Headers(a, i) = {}
  BY <1>1, UnderTop
<1>2. CASE Headers(a, i) # {}
  <2>1. PICK h \in Headers(a, i) : \A j \in Headers(a, i) : j <= h
    BY <1>2, LastHeader
  <2>2. H!Under(a, i) = a[h].of /\ H!Under(b, i) = b[h].of
    BY <2>1, UnderLast
  <2>3. QED
    BY <2>1, <2>2
<1>3. QED
  BY <1>1, <1>2

LEMMA UnderLeft ==
  ASSUME NEW a \in Seq(LineRecs), NEW b \in Seq(LineRecs), NEW i \in 0 .. Len(a)
  PROVE  H!Under(a \o b, i) = H!Under(a, i)
<1>1. \A j \in 1 .. i : (a \o b)[j] = a[j]
  OBVIOUS
<1>2. Headers(a \o b, i) = Headers(a, i)
  BY <1>1 DEF Headers
<1>3. \A j \in Headers(a, i) : (a \o b)[j].of = a[j].of
  BY <1>1 DEF Headers
<1>4. i \in Nat
  OBVIOUS
<1>5. QED
  BY <1>2, <1>3, <1>4, UnderSame, Zenon

LEMMA UnderRight ==
  ASSUME NEW a \in Seq(LineRecs), NEW b \in Seq(LineRecs), NEW i \in 1 .. Len(b)
  PROVE  H!Under(a \o b, Len(a) + i) = IF Headers(b, i) = {} THEN H!Under(a, Len(a)) ELSE H!Under(b, i)
<1> DEFINE c == a \o b
           n == Len(a)
<1>1. /\ n \in Nat /\ i \in Nat /\ \A j \in 1 .. n : c[j] = a[j]
      /\ \A j \in 1 .. i : c[n + j] = b[j]
  OBVIOUS
<1>2. \A k \in 1 .. n + i : k \in 1 .. n \/ \E j \in 1 .. i : k = n + j
  <2>1. ASSUME NEW k \in 1 .. n + i, k \notin 1 .. n PROVE k - n \in 1 .. i /\ k = n + (k - n)
    BY <1>1, <2>1
  <2>2. QED
    BY <2>1
<1> HIDE DEF c, n
<1>3. CASE Headers(b, i) # {}
  <2>1. PICK h \in Headers(b, i) : \A j \in Headers(b, i) : j <= h
    BY <1>1, <1>3, LastHeader
  <2>2. h \in 1 .. i /\ b[h].is = "header"
    BY <2>1 DEF Headers
  <2>3. n + h \in Headers(c, n + i)
    BY <1>1, <2>2 DEF Headers
  <2>4. \A k \in Headers(c, n + i) : k <= n + h
    <3> SUFFICES ASSUME NEW k \in Headers(c, n + i) PROVE k <= n + h
      OBVIOUS
    <3>1. k \in 1 .. n + i /\ c[k].is = "header"
      BY DEF Headers
    <3>2. CASE k \in 1 .. n
      BY <1>1, <2>2, <3>2
    <3>3. CASE \E j \in 1 .. i : k = n + j
      <4>1. PICK j \in 1 .. i : k = n + j
        BY <3>3
      <4>2. j \in Headers(b, i)
        BY <1>1, <3>1, <4>1 DEF Headers
      <4>3. QED
        BY <1>1, <2>1, <2>2, <4>1, <4>2
    <3>4. QED
      BY <1>2, <3>1, <3>2, <3>3
  <2>5. n + i \in Nat
    BY <1>1
  <2>6. H!Under(c, n + i) = c[n + h].of
    BY <2>3, <2>4, <2>5, UnderLast
  <2>7. H!Under(b, i) = b[h].of
    BY <1>1, <2>1, UnderLast
  <2>8. QED
    BY <1>1, <1>3, <2>2, <2>6, <2>7 DEF c, n
<1>4. CASE Headers(b, i) = {}
  <2>1. \A j \in 1 .. i : c[n + j].is # "header"
    BY <1>1, <1>4 DEF Headers
  <2>2. Headers(c, n + i) = Headers(a, n)
    <3>1. ASSUME NEW k \in Headers(c, n + i) PROVE k \in Headers(a, n)
      <4>1. k \in 1 .. n + i /\ c[k].is = "header"
        BY <3>1 DEF Headers
      <4>2. k \in 1 .. n
        BY <1>2, <2>1, <4>1
      <4>3. QED
        BY <1>1, <4>1, <4>2 DEF Headers
    <3>2. ASSUME NEW k \in Headers(a, n) PROVE k \in Headers(c, n + i)
      <4>1. k \in 1 .. n /\ a[k].is = "header"
        BY <3>2 DEF Headers
      <4>2. k \in 1 .. n + i
        BY <1>1, <4>1
      <4>3. QED
        BY <1>1, <4>1, <4>2 DEF Headers
    <3>3. QED
      BY <3>1, <3>2
  <2>3. CASE Headers(a, n) = {}
    BY <1>4, <2>2, <2>3, UnderTop DEF c, n
  <2>4. CASE Headers(a, n) # {}
    <3>1. PICK h \in Headers(a, n) : \A j \in Headers(a, n) : j <= h
      BY <1>1, <2>4, LastHeader
    <3>2. n + i \in Nat /\ h \in Headers(c, n + i)
      BY <1>1, <2>2
    <3>3. H!Under(c, n + i) = c[h].of
      BY <2>2, <3>1, <3>2, UnderLast
    <3>4. H!Under(a, n) = a[h].of
      BY <1>1, <3>1, UnderLast
    <3>5. h \in 1 .. n
      BY DEF Headers
    <3>6. QED
      BY <1>1, <1>4, <3>3, <3>4, <3>5 DEF c, n
  <2>5. QED
    BY <2>3, <2>4
<1>5. QED
  BY <1>3, <1>4 DEF c, n

\* What is not ours in a stays in b, where it was.
LEMMA LinesKept ==
  ASSUME NEW a, NEW b,
         \A i \in DOMAIN a : ~H!Ours(a, i) => \E k \in DOMAIN b : b[k] = a[i] /\ H!Under(b, k) = H!Under(a, i)
  PROVE  H!Items(H!Lines(a)) \subseteq H!Items(H!Lines(b))
<1>1. \A ls : H!Items(H!Lines(ls)) = {<<H!Under(ls, i), ls[i].of, ls[i].val>> : i \in {i \in DOMAIN ls : ~H!Ours(ls, i)}}
  BY DEF H!Items, H!Lines
<1>2. ASSUME NEW i \in DOMAIN a, ~H!Ours(a, i)
      PROVE  <<H!Under(a, i), a[i].of, a[i].val>> \in {<<H!Under(b, k), b[k].of, b[k].val>> : k \in {k \in DOMAIN b : ~H!Ours(b, k)}}
  <2>1. PICK k \in DOMAIN b : b[k] = a[i] /\ H!Under(b, k) = H!Under(a, i)
    BY <1>2
  <2>2. ~H!Ours(b, k)
    BY <1>2, <2>1 DEF H!Ours
  <2>3. QED
    BY <2>1, <2>2
<1>3. QED
  BY <1>1, <1>2

-----------------------------------------------------------------------------
(* Hooks.                                                                  *)

\* What is done to an entry that is there.
Repaired(h, signal) == IF signal = "pre-search" THEN H!narrowLegacyGateMatcher(H!repairShellPaths(h)) ELSE H!repairShellPaths(h)
ItemOf(h) == <<h.signal, h.bin, h.event, H!narrowLegacyGateMatcher(h).matcher>>

\* The first entry for the signal is as it is to be.
Settled(hooks, event, signal) ==
  \E i \in 1 .. Len(hooks) : /\ hooks[i].event = event /\ hooks[i].signal = signal /\ Repaired(hooks[i], signal) = hooks[i]
                             /\ \A j \in 1 .. i - 1 : hooks[j].event # event \/ hooks[j].signal # signal

LEMMA HookHas ==
  ASSUME NEW h \in HookRecs
  PROVE  \E event \in Words, matcher \in Words, signal \in Words, bin \in Nat, back \in BOOLEAN :
           h = H!Hook(event, matcher, signal, bin, back)
BY DEF H!Hook, HookRecs

LEMMA HookBack ==
  ASSUME NEW event, NEW matcher, NEW signal, NEW bin, NEW back, NEW to
  PROVE  [H!Hook(event, matcher, signal, bin, back) EXCEPT !.back = to] = H!Hook(event, matcher, signal, bin, to)
BY DEF H!Hook

LEMMA HookMatcher ==
  ASSUME NEW event, NEW matcher, NEW signal, NEW bin, NEW back, NEW to
  PROVE  [H!Hook(event, matcher, signal, bin, back) EXCEPT !.matcher = to] = H!Hook(event, to, signal, bin, back)
BY DEF H!Hook

LEMMA HookBin ==
  ASSUME NEW event, NEW matcher, NEW signal, NEW bin, NEW back, NEW to
  PROVE  [H!Hook(event, matcher, signal, bin, back) EXCEPT !.bin = to] = H!Hook(event, matcher, signal, to, back)
BY DEF H!Hook

\* An entry whose path a shell can run.
Off(event, matcher, signal, bin) == H!Hook(event, matcher, signal, bin, FALSE)

LEMMA OffIs ==
  ASSUME NEW event \in Words, NEW matcher \in Words, NEW signal \in Words, NEW bin \in Nat
  PROVE  LET h == Off(event, matcher, signal, bin)
         IN h \in HookRecs /\ h.event = event /\ h.matcher = matcher /\ h.signal = signal /\ h.bin = bin
BY DEF Off, H!Hook, HookRecs

LEMMA OffRuns ==
  ASSUME NEW event, NEW matcher, NEW signal, NEW bin
  PROVE  ~Off(event, matcher, signal, bin).back
BY DEF Off, H!Hook

LEMMA HookRepaired ==
  ASSUME NEW event, NEW matcher, NEW signal, NEW bin, NEW back
  PROVE  H!repairShellPaths(H!Hook(event, matcher, signal, bin, back)) = Off(event, matcher, signal, bin)
<1> DEFINE h == H!Hook(event, matcher, signal, bin, back)
<1>1. PICK no : no = FALSE
  BY Zenon
<1>2. H!repairShellPaths(h) = [h EXCEPT !.back = no]
  BY <1>1, Zenon DEF H!repairShellPaths
<1>3. [h EXCEPT !.back = no] = H!Hook(event, matcher, signal, bin, no)
  BY HookBack
<1>4. QED
  BY <1>1, <1>2, <1>3, Zenon DEF Off

LEMMA OffRepaired ==
  ASSUME NEW event, NEW matcher, NEW signal, NEW bin
  PROVE  H!repairShellPaths(Off(event, matcher, signal, bin)) = Off(event, matcher, signal, bin)
<1>1. PICK no : no = FALSE
  BY Zenon
<1>2. Off(event, matcher, signal, bin) = H!Hook(event, matcher, signal, bin, no)
  BY <1>1, Zenon DEF Off
<1>3. QED
  BY <1>2, HookRepaired

LEMMA HookNarrowed ==
  ASSUME NEW event, NEW matcher, NEW signal, NEW bin, NEW back, NEW to,
         \/ matcher = "Grep|Glob" /\ to = "Grep"
         \/ matcher # "Grep|Glob" /\ to = matcher
  PROVE  H!narrowLegacyGateMatcher(H!Hook(event, matcher, signal, bin, back)) = H!Hook(event, to, signal, bin, back)
<1> DEFINE h == H!Hook(event, matcher, signal, bin, back)
<1>1. h.matcher = matcher
  BY DEF H!Hook
<1>2. [h EXCEPT !.matcher = "Grep"] = H!Hook(event, "Grep", signal, bin, back)
  BY HookMatcher
<1>3. H!narrowLegacyGateMatcher(h) = IF h.matcher = "Grep|Glob" THEN [h EXCEPT !.matcher = "Grep"] ELSE h
  BY DEF H!narrowLegacyGateMatcher
<1> HIDE DEF h
<1>4. CASE matcher = "Grep|Glob" /\ to = "Grep"
  <2>1. H!narrowLegacyGateMatcher(h) = [h EXCEPT !.matcher = "Grep"]
    BY <1>1, <1>3, <1>4
  <2>2. QED
    BY <1>2, <1>4, <2>1 DEF h
<1>5. CASE matcher # "Grep|Glob" /\ to = matcher
  BY <1>1, <1>3, <1>5 DEF h
<1>6. QED
  BY <1>4, <1>5

LEMMA OffNarrowed ==
  ASSUME NEW event, NEW matcher, NEW signal, NEW bin, NEW to,
         \/ matcher = "Grep|Glob" /\ to = "Grep"
         \/ matcher # "Grep|Glob" /\ to = matcher
  PROVE  H!narrowLegacyGateMatcher(Off(event, matcher, signal, bin)) = Off(event, to, signal, bin)
<1>1. PICK no : no = FALSE
  BY Zenon
<1>2. Off(event, matcher, signal, bin) = H!Hook(event, matcher, signal, bin, no) /\ Off(event, to, signal, bin) = H!Hook(event, to, signal, bin, no)
  BY <1>1, Zenon DEF Off
<1>3. QED
  BY <1>2, HookNarrowed

LEMMA HookFacts ==
  ASSUME NEW h \in HookRecs, NEW signal \in Words
  PROVE  /\ Repaired(h, signal) \in HookRecs /\ Repaired(Repaired(h, signal), signal) = Repaired(h, signal)
         /\ Repaired(h, signal).event = h.event /\ Repaired(h, signal).signal = h.signal
         /\ ItemOf(Repaired(h, signal)) = ItemOf(h)
         /\ Repaired(h, signal) = h => ~h.back
<1>1. PICK event \in Words, matcher \in Words, of \in Words, bin \in Nat, back \in BOOLEAN :
        h = H!Hook(event, matcher, of, bin, back)
  BY HookHas
<1>3. PICK to \in Words : \/ matcher = "Grep|Glob" /\ to = "Grep"
                          \/ matcher # "Grep|Glob" /\ to = matcher
  <2>1. "Grep" \in Words
    BY DEF Words
  <2>2. QED
    BY <2>1
<1>4. PICK m \in {matcher, to} : m = IF signal = "pre-search" THEN to ELSE matcher
  OBVIOUS
<1> DEFINE r == Repaired(h, signal)
           b == Off(event, matcher, of, bin)
           g == Off(event, m, of, bin)
<1>5. H!repairShellPaths(h) = b /\ H!repairShellPaths(g) = g
  BY <1>1, HookRepaired, OffRepaired
<1>6. H!narrowLegacyGateMatcher(b) = Off(event, to, of, bin)
  BY <1>3, OffNarrowed
<1>7. H!narrowLegacyGateMatcher(g) = Off(event, to, of, bin)
  <2>1. \/ m = "Grep|Glob" /\ to = "Grep"
        \/ m # "Grep|Glob" /\ to = m
    BY <1>3, <1>4
  <2>2. QED
    BY <2>1, OffNarrowed
<1>8. H!narrowLegacyGateMatcher(h) = H!Hook(event, to, of, bin, back)
  BY <1>1, <1>3, HookNarrowed
<1>9. r = g /\ Repaired(g, signal) = g
  <2>1. r = IF signal = "pre-search" THEN H!narrowLegacyGateMatcher(b) ELSE b
    BY <1>5 DEF Repaired
  <2>2. Repaired(g, signal) = IF signal = "pre-search" THEN H!narrowLegacyGateMatcher(g) ELSE g
    BY <1>5 DEF Repaired
  <2>3. QED
    BY <1>4, <1>6, <1>7, <2>1, <2>2
<1>10. /\ g \in HookRecs /\ g.event = event /\ g.signal = of /\ g.bin = bin /\ ~g.back
       /\ h.event = event /\ h.signal = of /\ h.bin = bin
  <2>1. g \in HookRecs /\ g.event = event /\ g.signal = of /\ g.bin = bin
    BY <1>4, OffIs
  <2>2. h.event = event /\ h.signal = of /\ h.bin = bin
    BY <1>1 DEF H!Hook
  <2>3. QED
    BY <2>1, <2>2, OffRuns
<1>11. ItemOf(g) = ItemOf(h)
  <2>1. Off(event, to, of, bin).matcher = to /\ H!Hook(event, to, of, bin, back).matcher = to
    BY DEF Off, H!Hook
  <2>2. QED
    BY <1>7, <1>8, <1>10, <2>1 DEF ItemOf
<1> HIDE DEF r, g
<1>12. r = h => ~h.back
  BY <1>9, <1>10
<1>13. QED
  BY <1>9, <1>10, <1>11, <1>12 DEF r

LEMMA WiredAtIs ==
  ASSUME NEW hooks \in Seq(HookRecs), NEW event, NEW signal
  PROVE  /\ H!WiredAt(hooks, event, signal, FALSE) = {i \in 1 .. Len(hooks) : hooks[i].event = event /\ hooks[i].signal = signal}
         /\ H!WiredAt(hooks, event, signal, FALSE) \in SUBSET Nat
BY DEF H!WiredAt

\* What becomes of the hooks of a file, the path of the binary having no hook in it.
Added(hooks, event, matcher, signal) == H!AddHook(hooks, event, matcher, signal, FALSE)

\* The entry is repaired where it is, or added.
LEMMA AddHookIs ==
  ASSUME NEW hooks \in Seq(HookRecs), NEW event \in Words, NEW matcher \in Words, NEW signal \in Words
  PROVE  \/ /\ \A j \in 1 .. Len(hooks) : hooks[j].event # event \/ hooks[j].signal # signal
            /\ Added(hooks, event, matcher, signal) = Append(hooks, Off(event, matcher, signal, installed))
         \/ \E i \in 1 .. Len(hooks) : /\ hooks[i].event = event /\ hooks[i].signal = signal
                                       /\ \A j \in 1 .. i - 1 : hooks[j].event # event \/ hooks[j].signal # signal
                                       /\ Added(hooks, event, matcher, signal) = [hooks EXCEPT ![i] = Repaired(hooks[i], signal)]
<1> DEFINE at_ == H!WiredAt(hooks, event, signal, FALSE)
<1>1. at_ = {i \in 1 .. Len(hooks) : hooks[i].event = event /\ hooks[i].signal = signal} /\ at_ \in SUBSET Nat
  BY WiredAtIs
<1>2. Added(hooks, event, matcher, signal) =
        IF at_ = {} THEN Append(hooks, Off(event, matcher, signal, installed))
        ELSE [hooks EXCEPT ![H!Min(at_)] = Repaired(hooks[H!Min(at_)], signal)]
  BY DEF Added, H!AddHook, Repaired, Off
<1> HIDE DEF at_
<1>3. CASE at_ = {}
  BY <1>1, <1>2, <1>3
<1>4. CASE at_ # {}
  <2>1. PICK i : i = H!Min(at_)
    OBVIOUS
  <2>2. i \in at_ /\ \A j \in at_ : i <= j
    BY <1>1, <1>4, <2>1, LeastOf
  <2>3. i \in 1 .. Len(hooks) /\ hooks[i].event = event /\ hooks[i].signal = signal
    BY <1>1, <2>2
  <2>4. ASSUME NEW j \in 1 .. i - 1 PROVE hooks[j].event # event \/ hooks[j].signal # signal
    <3>1. j \in Nat /\ i \in Nat /\ Len(hooks) \in Nat /\ 1 <= j /\ j <= i - 1 /\ i <= Len(hooks)
      BY <2>3, <2>4
    <3>2. j \in 1 .. Len(hooks) /\ ~(i <= j)
      BY <3>1
    <3>3. j \notin at_
      BY <2>2, <3>2
    <3>4. QED
      BY <1>1, <3>2, <3>3
  <2>5. Added(hooks, event, matcher, signal) = [hooks EXCEPT ![i] = Repaired(hooks[i], signal)]
    BY <1>2, <1>4, <2>1
  <2>6. QED
    BY <2>3, <2>4, <2>5
<1>5. QED
  BY <1>3, <1>4

LEMMA HookAdded ==
  ASSUME NEW hooks \in Seq(HookRecs), NEW event \in Words, NEW matcher \in Words, NEW signal \in Words,
         signal = "pre-search" => matcher # "Grep|Glob", installed \in Nat
  PROVE  LET added == Added(hooks, event, matcher, signal)
         IN /\ added \in Seq(HookRecs) /\ Settled(added, event, signal)
            /\ {ItemOf(h) : h \in H!ToSet(hooks)} \subseteq {ItemOf(h) : h \in H!ToSet(added)}
            /\ Settled(hooks, event, signal) => added = hooks
            /\ \A e, s \in Words : s # signal /\ Settled(hooks, e, s) => Settled(added, e, s)
<1> DEFINE added == Added(hooks, event, matcher, signal)
           new == Off(event, matcher, signal, installed)
<1>1. new \in HookRecs /\ new.event = event /\ new.signal = signal /\ Repaired(new, signal) = new
  <2>1. new \in HookRecs /\ new.event = event /\ new.signal = signal
    BY OffIs
  <2>2. H!repairShellPaths(new) = new
    BY OffRepaired
  <2>3. signal = "pre-search" => H!narrowLegacyGateMatcher(new) = new
    BY OffNarrowed
  <2>4. QED
    BY <2>1, <2>2, <2>3 DEF Repaired
<1>2. CASE /\ \A j \in 1 .. Len(hooks) : hooks[j].event # event \/ hooks[j].signal # signal
           /\ added = Append(hooks, new)
  <2> HIDE DEF added, new
  <2>1. /\ added \in Seq(HookRecs) /\ Len(added) = Len(hooks) + 1 /\ added[Len(hooks) + 1] = new
        /\ \A j \in 1 .. Len(hooks) : added[j] = hooks[j]
    BY <1>1, <1>2
  <2>2. Settled(added, event, signal)
    <3>1. Len(hooks) + 1 \in 1 .. Len(added) /\ \A j \in 1 .. (Len(hooks) + 1) - 1 : added[j].event # event \/ added[j].signal # signal
      BY <1>2, <2>1
    <3>2. QED
      BY <1>1, <2>1, <3>1 DEF Settled
  <2>3. ~Settled(hooks, event, signal)
    BY <1>2 DEF Settled
  <2>4. H!ToSet(hooks) \subseteq H!ToSet(added)
    BY <2>1 DEF H!ToSet
  <2>5. ASSUME NEW e \in Words, NEW s \in Words, Settled(hooks, e, s) PROVE Settled(added, e, s)
    <3>1. PICK i \in 1 .. Len(hooks) : /\ hooks[i].event = e /\ hooks[i].signal = s /\ Repaired(hooks[i], s) = hooks[i]
                                       /\ \A j \in 1 .. i - 1 : hooks[j].event # e \/ hooks[j].signal # s
      BY <2>5 DEF Settled
    <3>2. i \in 1 .. Len(added) /\ \A j \in 1 .. i : added[j] = hooks[j]
      BY <2>1
    <3>3. QED
      BY <3>1, <3>2 DEF Settled
  <2>6. QED
    BY <2>1, <2>2, <2>3, <2>4, <2>5 DEF added
<1>3. CASE \E i \in 1 .. Len(hooks) : /\ hooks[i].event = event /\ hooks[i].signal = signal
                                      /\ \A j \in 1 .. i - 1 : hooks[j].event # event \/ hooks[j].signal # signal
                                      /\ added = [hooks EXCEPT ![i] = Repaired(hooks[i], signal)]
  <2>1. PICK i \in 1 .. Len(hooks) : /\ hooks[i].event = event /\ hooks[i].signal = signal
                                     /\ \A j \in 1 .. i - 1 : hooks[j].event # event \/ hooks[j].signal # signal
                                     /\ added = [hooks EXCEPT ![i] = Repaired(hooks[i], signal)]
    BY <1>3
  <2> DEFINE r == Repaired(hooks[i], signal)
  <2>2. hooks[i] \in HookRecs
    OBVIOUS
  <2>3. /\ r \in HookRecs /\ Repaired(r, signal) = r /\ r.event = event /\ r.signal = signal /\ ItemOf(r) = ItemOf(hooks[i])
    BY <2>1, <2>2, HookFacts
  <2>4. added = [hooks EXCEPT ![i] = r]
    BY <2>1
  <2> HIDE DEF added, r
  <2>5. /\ added \in Seq(HookRecs) /\ Len(added) = Len(hooks) /\ added[i] = r
        /\ \A j \in 1 .. Len(hooks) : j # i => added[j] = hooks[j]
    BY <2>3, <2>4
  <2>6. Settled(added, event, signal)
    <3>1. \A j \in 1 .. i - 1 : added[j].event # event \/ added[j].signal # signal
      BY <2>1, <2>5
    <3>2. QED
      BY <2>3, <2>5, <3>1 DEF Settled
  <2>7. ASSUME NEW h \in H!ToSet(hooks) PROVE ItemOf(h) \in {ItemOf(k) : k \in H!ToSet(added)}
    <3>1. PICK j \in 1 .. Len(hooks) : h = hooks[j]
      BY <2>7 DEF H!ToSet
    <3>2. added[j] \in H!ToSet(added) /\ ItemOf(added[j]) = ItemOf(h)
      BY <2>3, <2>5, <3>1 DEF H!ToSet
    <3>3. QED
      BY <3>2
  <2>8. ASSUME Settled(hooks, event, signal) PROVE added = hooks
    <3>1. PICK k \in 1 .. Len(hooks) : /\ hooks[k].event = event /\ hooks[k].signal = signal /\ Repaired(hooks[k], signal) = hooks[k]
                                       /\ \A j \in 1 .. k - 1 : hooks[j].event # event \/ hooks[j].signal # signal
      BY <2>8 DEF Settled
    <3>2. k = i
      BY <2>1, <3>1
    <3>3. r = hooks[i]
      BY <3>1, <3>2 DEF r
    <3>4. QED
      BY <2>4, <3>3
  <2>9. ASSUME NEW e \in Words, NEW s \in Words, s # signal, Settled(hooks, e, s) PROVE Settled(added, e, s)
    <3>1. PICK k \in 1 .. Len(hooks) : /\ hooks[k].event = e /\ hooks[k].signal = s /\ Repaired(hooks[k], s) = hooks[k]
                                       /\ \A j \in 1 .. k - 1 : hooks[j].event # e \/ hooks[j].signal # s
      BY <2>9 DEF Settled
    <3>2. k # i /\ added[k] = hooks[k]
      BY <2>1, <2>5, <2>9, <3>1
    <3>3. \A j \in 1 .. k - 1 : added[j].event # e \/ added[j].signal # s
      BY <2>3, <2>5, <2>9, <3>1
    <3>4. QED
      BY <2>5, <3>1, <3>2, <3>3 DEF Settled
  <2>10. QED
    BY <2>5, <2>6, <2>7, <2>8, <2>9 DEF added
<1>4. \/ /\ \A j \in 1 .. Len(hooks) : hooks[j].event # event \/ hooks[j].signal # signal
         /\ added = Append(hooks, new)
      \/ \E i \in 1 .. Len(hooks) : /\ hooks[i].event = event /\ hooks[i].signal = signal
                                    /\ \A j \in 1 .. i - 1 : hooks[j].event # event \/ hooks[j].signal # signal
                                    /\ added = [hooks EXCEPT ![i] = Repaired(hooks[i], signal)]
  BY AddHookIs
<1>5. QED
  BY <1>2, <1>3, <1>4

LEMMA SettledRuns ==
  ASSUME NEW hooks \in Seq(HookRecs), NEW event \in Words, NEW signal \in Words, Settled(hooks, event, signal)
  PROVE  \E i \in DOMAIN hooks : hooks[i].event = event /\ hooks[i].signal = signal /\ ~hooks[i].back
<1>1. PICK i \in 1 .. Len(hooks) : hooks[i].event = event /\ hooks[i].signal = signal /\ Repaired(hooks[i], signal) = hooks[i]
  BY DEF Settled
<1>2. hooks[i] \in HookRecs
  OBVIOUS
<1>3. QED
  BY <1>1, <1>2, HookFacts

-----------------------------------------------------------------------------
(* JSON files.                                                             *)

\* A file whose servers are where they should be.
Plain(servers, hooks, version) == H!Json(servers, hooks, version, FALSE)
OwnServer == H!Server("contextmaxxer", installed, FALSE)
OtherServers(servers) == {s \in servers : s.name # "contextmaxxer"}

LEMMA PlainIs ==
  ASSUME NEW servers \in SUBSET ServerRecs, NEW hooks \in Seq(HookRecs), NEW version \in BOOLEAN
  PROVE  LET c == Plain(servers, hooks, version)
         IN c \in JsonDocs /\ c.is = "json" /\ c.servers = servers /\ c.hooks = hooks
BY DEF Plain, H!Json, JsonDocs

LEMMA PlainFields ==
  ASSUME NEW servers, NEW hooks, NEW version
  PROVE  LET c == Plain(servers, hooks, version)
         IN c.is = "json" /\ c.servers = servers /\ c.hooks = hooks /\ c.version = version
BY DEF Plain, H!Json

LEMMA PlainNotOdd ==
  ASSUME NEW servers, NEW hooks, NEW version
  PROVE  ~Plain(servers, hooks, version).odd
BY DEF Plain, H!Json

LEMMA PlainHas ==
  ASSUME NEW c \in JsonDocs, ~c.odd
  PROVE  \E servers \in SUBSET ServerRecs, hooks \in Seq(HookRecs), version \in BOOLEAN : c = Plain(servers, hooks, version)
<1>1. PICK servers \in SUBSET ServerRecs, hooks \in Seq(HookRecs), version \in BOOLEAN, odd \in BOOLEAN :
        c = H!Json(servers, hooks, version, odd)
  BY DEF H!Json, JsonDocs
<1>2. c.odd = odd
  BY <1>1 DEF H!Json
<1>3. odd = FALSE
  BY <1>2
<1>4. c = Plain(servers, hooks, version)
  BY <1>1, <1>3, Zenon DEF Plain
<1>5. QED
  BY <1>4

LEMMA JsonServers ==
  ASSUME NEW servers, NEW hooks, NEW version, NEW odd, NEW to
  PROVE  [H!Json(servers, hooks, version, odd) EXCEPT !.servers = to] = H!Json(to, hooks, version, odd)
BY DEF H!Json

LEMMA JsonHooks ==
  ASSUME NEW servers, NEW hooks, NEW version, NEW odd, NEW to
  PROVE  [H!Json(servers, hooks, version, odd) EXCEPT !.hooks = to] = H!Json(servers, to, version, odd)
BY DEF H!Json

LEMMA JsonVersion ==
  ASSUME NEW servers, NEW hooks, NEW version, NEW odd, NEW to
  PROVE  [H!Json(servers, hooks, version, odd) EXCEPT !.version = to] = H!Json(servers, hooks, to, odd)
BY DEF H!Json

LEMMA JsonOdd ==
  ASSUME NEW servers, NEW hooks, NEW version, NEW odd, NEW to
  PROVE  [H!Json(servers, hooks, version, odd) EXCEPT !.odd = to] = H!Json(servers, hooks, version, to)
BY DEF H!Json

LEMMA TwoFields ==
  ASSUME NEW c, NEW x, NEW y
  PROVE  /\ [c EXCEPT !.hooks = x, !.version = y] = [[c EXCEPT !.hooks = x] EXCEPT !.version = y]
         /\ [c EXCEPT !.servers = x, !.odd = y] = [[c EXCEPT !.servers = x] EXCEPT !.odd = y]
         /\ [c EXCEPT !.hooks = x, !.odd = y] = [[c EXCEPT !.hooks = x] EXCEPT !.odd = y]
OBVIOUS

LEMMA ThreeFields ==
  ASSUME NEW c, NEW x, NEW y, NEW z
  PROVE  [c EXCEPT !.hooks = x, !.version = y, !.odd = z] = [[[c EXCEPT !.hooks = x] EXCEPT !.version = y] EXCEPT !.odd = z]
OBVIOUS

\* The same with a plain one.
LEMMA PlainHooks ==
  ASSUME NEW servers, NEW hooks, NEW version, NEW hooks2
  PROVE  [Plain(servers, hooks, version) EXCEPT !.hooks = hooks2] = Plain(servers, hooks2, version)
<1>1. PICK no : no = FALSE
  BY Zenon
<1>2. [H!Json(servers, hooks, version, no) EXCEPT !.hooks = hooks2] = H!Json(servers, hooks2, version, no)
  BY JsonHooks
<1>3. QED
  BY <1>1, <1>2, Zenon DEF Plain

LEMMA PlainItems ==
  ASSUME NEW servers, NEW hooks, NEW version
  PROVE  H!Items(Plain(servers, hooks, version)) =
           {<<s.name, s.bin>> : s \in OtherServers(servers)} \union {ItemOf(h) : h \in H!ToSet(hooks)}
<1> DEFINE c == Plain(servers, hooks, version)
<1>1. c.is = "json" /\ c.servers = servers /\ c.hooks = hooks
  BY PlainFields
<1>2. {<<"odd">> : odd \in {c.odd} \ {FALSE}} = {}
  <2>1. c.odd = FALSE
    BY PlainNotOdd DEF Plain, H!Json
  <2>2. {c.odd} \ {FALSE} = {}
    BY <2>1, Zenon
  <2>3. QED
    BY <2>2
<1>3. H!Items(c) = {<<s.name, s.bin>> : s \in {s \in c.servers : s.name # "contextmaxxer"}}
                 \union {<<"odd">> : odd \in {c.odd} \ {FALSE}}
                 \union {<<h.signal, h.bin, h.event, H!narrowLegacyGateMatcher(h).matcher>> : h \in H!ToSet(c.hooks)}
  BY <1>1 DEF H!Items
<1> HIDE DEF c
<1>4. H!Items(c) = {<<s.name, s.bin>> : s \in OtherServers(servers)} \union {ItemOf(h) : h \in H!ToSet(hooks)}
  BY <1>1, <1>2, <1>3 DEF OtherServers, ItemOf
<1>5. QED
  BY <1>4 DEF c

LEMMA ServersMerged ==
  ASSUME NEW servers \in SUBSET ServerRecs, NEW hooks \in Seq(HookRecs), NEW version \in BOOLEAN, installed \in Nat
  PROVE  LET merged == OtherServers(servers) \union {OwnServer}
         IN /\ H!mergeMCPServers(Plain(servers, hooks, version)) = Plain(merged, hooks, version)
            /\ merged \in SUBSET ServerRecs /\ OtherServers(merged) = OtherServers(servers)
            /\ {s.bin : s \in {s \in merged : s.name = "contextmaxxer"}} = {installed}
<1> DEFINE c == Plain(servers, hooks, version)
           merged == OtherServers(servers) \union {OwnServer}
<1>1. OwnServer.name = "contextmaxxer" /\ OwnServer.bin = installed
  BY DEF OwnServer, H!Server
<1>2. OwnServer \in ServerRecs
  BY DEF OwnServer, H!Server, ServerRecs, Words
<1>3. H!mergeMCPServers(c) = Plain(merged, hooks, version)
  <2>1. PICK no : no = FALSE
    OBVIOUS
  <2>2. c = H!Json(servers, hooks, version, no) /\ Plain(merged, hooks, version) = H!Json(merged, hooks, version, no)
    BY <2>1, Zenon DEF Plain
  <2>3. c.servers = servers
    BY PlainFields
  <2>4. H!mergeMCPServers(c) = [c EXCEPT !.servers = {s \in c.servers : s.name # "contextmaxxer"} \union {OwnServer}, !.odd = no]
    BY <2>1, Zenon DEF H!mergeMCPServers, OwnServer
  <2>5. {s \in c.servers : s.name # "contextmaxxer"} \union {OwnServer} = merged
    BY <2>3 DEF OtherServers
  <2> HIDE DEF c, merged
  <2>6. [H!Json(servers, hooks, version, no) EXCEPT !.servers = merged] = H!Json(merged, hooks, version, no)
    BY JsonServers
  <2>7. [H!Json(merged, hooks, version, no) EXCEPT !.odd = no] = H!Json(merged, hooks, version, no)
    BY JsonOdd
  <2>8. [c EXCEPT !.servers = merged, !.odd = no] = [[c EXCEPT !.servers = merged] EXCEPT !.odd = no]
    BY TwoFields
  <2>9. H!mergeMCPServers(c) = [c EXCEPT !.servers = merged, !.odd = no]
    BY <2>4, <2>5
  <2>10. QED
    BY <2>2, <2>6, <2>7, <2>8, <2>9
<1>4. merged \in SUBSET ServerRecs /\ OtherServers(merged) = OtherServers(servers)
  BY <1>1, <1>2 DEF OtherServers
<1>5. {s.bin : s \in {s \in merged : s.name = "contextmaxxer"}} = {installed}
  <2>1. {s \in merged : s.name = "contextmaxxer"} = {OwnServer}
    BY <1>1 DEF OtherServers
  <2>2. QED
    BY <1>1, <2>1
<1>6. QED
  BY <1>3, <1>4, <1>5

\* The server of contextmaxxer is the installed one, the others stay.
LEMMA ServersKept ==
  ASSUME NEW c \in JsonDocs, ~c.odd, installed \in Nat
  PROVE  LET m == H!mergeMCPServers(c)
         IN /\ m \in JsonDocs /\ ~m.odd /\ H!mergeMCPServers(m) = m /\ H!Items(c) \subseteq H!Items(m)
            /\ {s.bin : s \in {s \in m.servers : s.name = "contextmaxxer"}} = {installed}
<1>1. PICK servers \in SUBSET ServerRecs, hooks \in Seq(HookRecs), version \in BOOLEAN : c = Plain(servers, hooks, version)
  BY PlainHas
<1> DEFINE merged == OtherServers(servers) \union {OwnServer}
<1>2. /\ H!mergeMCPServers(c) = Plain(merged, hooks, version)
      /\ merged \in SUBSET ServerRecs /\ OtherServers(merged) = OtherServers(servers)
      /\ {s.bin : s \in {s \in merged : s.name = "contextmaxxer"}} = {installed}
  BY <1>1, ServersMerged
<1>3. H!mergeMCPServers(Plain(merged, hooks, version)) = Plain(OtherServers(merged) \union {OwnServer}, hooks, version)
  BY <1>2, ServersMerged
<1> HIDE DEF merged
<1>4. H!mergeMCPServers(Plain(merged, hooks, version)) = Plain(merged, hooks, version)
  BY <1>2, <1>3 DEF merged
<1>5. H!Items(c) = H!Items(Plain(merged, hooks, version))
  <2>1. H!Items(Plain(merged, hooks, version)) = {<<s.name, s.bin>> : s \in OtherServers(merged)} \union {ItemOf(h) : h \in H!ToSet(hooks)}
    BY PlainItems
  <2>2. H!Items(c) = {<<s.name, s.bin>> : s \in OtherServers(servers)} \union {ItemOf(h) : h \in H!ToSet(hooks)}
    BY <1>1, PlainItems
  <2>3. QED
    BY <1>2, <2>1, <2>2
<1>6. Plain(merged, hooks, version) \in JsonDocs /\ Plain(merged, hooks, version).servers = merged
  BY <1>2, PlainIs
<1>7. ~Plain(merged, hooks, version).odd
  BY PlainNotOdd
<1>8. QED
  BY <1>2, <1>4, <1>5, <1>6, <1>7

\* The hooks that a file is to have, and whether they are settled.
Three(hooks) ==
  /\ Settled(hooks, "PreToolUse", "pre-search") /\ Settled(hooks, "PostToolUse", "post-find")
  /\ Settled(hooks, "PostToolUse", "post-search")

HooksOf(c, event, signal) == \E i \in DOMAIN c.hooks : c.hooks[i].event = event /\ c.hooks[i].signal = signal /\ ~c.hooks[i].back

LEMMA Literals ==
  /\ "PreToolUse" \in Words /\ "PostToolUse" \in Words /\ "beforeShellExecution" \in Words /\ "Grep" \in Words
  /\ "find_context" \in Words /\ "grep|rg|ag|ack" \in Words /\ "^Bash$" \in Words /\ "pre-search" \in Words
  /\ "post-find" \in Words /\ "post-search" \in Words /\ "search-signal" \in Words
BY DEF Words

LEMMA ThreeAdded ==
  ASSUME NEW hooks \in Seq(HookRecs), installed \in Nat
  PROVE  LET one == Added(hooks, "PreToolUse", "Grep", "pre-search")
             two == Added(one, "PostToolUse", "find_context", "post-find")
             three == Added(two, "PostToolUse", "Grep", "post-search")
         IN /\ three \in Seq(HookRecs) /\ Three(three)
            /\ {ItemOf(h) : h \in H!ToSet(hooks)} \subseteq {ItemOf(h) : h \in H!ToSet(three)}
            /\ Three(hooks) => three = hooks
<1> DEFINE one == Added(hooks, "PreToolUse", "Grep", "pre-search")
           two == Added(one, "PostToolUse", "find_context", "post-find")
           three == Added(two, "PostToolUse", "Grep", "post-search")
<1>1. /\ one \in Seq(HookRecs) /\ Settled(one, "PreToolUse", "pre-search")
      /\ {ItemOf(h) : h \in H!ToSet(hooks)} \subseteq {ItemOf(h) : h \in H!ToSet(one)}
      /\ Settled(hooks, "PreToolUse", "pre-search") => one = hooks
  BY Literals, HookAdded
<1> HIDE DEF one
<1>2. /\ two \in Seq(HookRecs) /\ Settled(two, "PostToolUse", "post-find")
      /\ {ItemOf(h) : h \in H!ToSet(one)} \subseteq {ItemOf(h) : h \in H!ToSet(two)}
      /\ Settled(one, "PostToolUse", "post-find") => two = one
      /\ \A e, s \in Words : s # "post-find" /\ Settled(one, e, s) => Settled(two, e, s)
  BY <1>1, Literals, HookAdded
<1> HIDE DEF two
<1>3. /\ three \in Seq(HookRecs) /\ Settled(three, "PostToolUse", "post-search")
      /\ {ItemOf(h) : h \in H!ToSet(two)} \subseteq {ItemOf(h) : h \in H!ToSet(three)}
      /\ Settled(two, "PostToolUse", "post-search") => three = two
      /\ \A e, s \in Words : s # "post-search" /\ Settled(two, e, s) => Settled(three, e, s)
  BY <1>2, Literals, HookAdded
<1> HIDE DEF three
<1>4. Three(three)
  BY <1>1, <1>2, <1>3, Literals DEF Three
<1>5. Three(hooks) => three = hooks
  BY <1>1, <1>2, <1>3 DEF Three
<1>6. {ItemOf(h) : h \in H!ToSet(hooks)} \subseteq {ItemOf(h) : h \in H!ToSet(three)}
  BY <1>1, <1>2, <1>3
<1>7. QED
  BY <1>3, <1>4, <1>5, <1>6 DEF one, two, three

\* What is said of a file of hooks and what has become of it.
HooksMerged(c, m) == m \in JsonDocs /\ ~m.odd /\ H!Items(c) \subseteq H!Items(m)

LEMMA HooksPut ==
  ASSUME NEW servers \in SUBSET ServerRecs, NEW hooks \in Seq(HookRecs), NEW version \in BOOLEAN,
         NEW hooks2 \in Seq(HookRecs), NEW version2 \in BOOLEAN,
         {ItemOf(h) : h \in H!ToSet(hooks)} \subseteq {ItemOf(h) : h \in H!ToSet(hooks2)}
  PROVE  HooksMerged(Plain(servers, hooks, version), Plain(servers, hooks2, version2))
<1>1. H!Items(Plain(servers, hooks, version)) = {<<s.name, s.bin>> : s \in OtherServers(servers)} \union {ItemOf(h) : h \in H!ToSet(hooks)}
  BY PlainItems
<1>2. H!Items(Plain(servers, hooks2, version2)) = {<<s.name, s.bin>> : s \in OtherServers(servers)} \union {ItemOf(h) : h \in H!ToSet(hooks2)}
  BY PlainItems
<1>3. Plain(servers, hooks2, version2) \in JsonDocs
  BY PlainIs
<1>4. ~Plain(servers, hooks2, version2).odd
  BY PlainNotOdd
<1>5. QED
  BY <1>1, <1>2, <1>3, <1>4 DEF HooksMerged

LEMMA HooksRun ==
  ASSUME NEW c, NEW hooks \in Seq(HookRecs), c.hooks = hooks, NEW event \in Words, NEW signal \in Words, Settled(hooks, event, signal)
  PROVE  HooksOf(c, event, signal)
BY SettledRuns DEF HooksOf

LEMMA ClaudeIs ==
  ASSUME ~HookInPath, NEW servers, NEW hooks, NEW version
  PROVE  H!mergeClaudeHooks(Plain(servers, hooks, version)) =
           Plain(servers, Added(Added(Added(hooks, "PreToolUse", "Grep", "pre-search"), "PostToolUse", "find_context", "post-find"),
                                "PostToolUse", "Grep", "post-search"), version)
<1> DEFINE c == Plain(servers, hooks, version)
           three == Added(Added(Added(hooks, "PreToolUse", "Grep", "pre-search"), "PostToolUse", "find_context", "post-find"),
                          "PostToolUse", "Grep", "post-search")
<1>1. c.hooks = hooks
  BY PlainFields
<1>2. \A hs, event, matcher, signal : H!AddHook(hs, event, matcher, signal, HookInPath) = Added(hs, event, matcher, signal)
  <2>1. HookInPath = FALSE
    BY SetupGiven DEF H!HostSetupAssumption
  <2>2. QED
    BY <2>1, Zenon DEF Added
<1>3. H!mergeClaudeHooks(c) = [c EXCEPT !.hooks = three, !.odd = FALSE]
  <2>1. PICK to : to = H!AddHook(H!AddHook(H!AddHook(c.hooks, "PreToolUse", "Grep", "pre-search", HookInPath),
                                           "PostToolUse", "find_context", "post-find", HookInPath),
                                 "PostToolUse", "Grep", "post-search", HookInPath)
    OBVIOUS
  <2>2. to = three
    BY <1>1, <1>2, <2>1
  <2>3. H!mergeClaudeHooks(c) = [c EXCEPT !.hooks = to, !.odd = FALSE]
    BY <2>1, Zenon DEF H!mergeClaudeHooks
  <2> HIDE DEF three, c
  <2>4. QED
    BY <2>2, <2>3, Zenon
<1> HIDE DEF three
<1>4. [c EXCEPT !.hooks = three, !.odd = FALSE] = Plain(servers, three, version)
  <2>1. PICK no : no = FALSE
    BY Zenon
  <2> DEFINE d == H!Json(servers, hooks, version, no)
  <2>2. [d EXCEPT !.hooks = three] = H!Json(servers, three, version, no)
    BY JsonHooks
  <2>3. [H!Json(servers, three, version, no) EXCEPT !.odd = no] = H!Json(servers, three, version, no)
    BY JsonOdd
  <2>4. c = d /\ Plain(servers, three, version) = H!Json(servers, three, version, no)
    BY <2>1, Zenon DEF Plain
  <2> HIDE DEF c, d
  <2>5. [d EXCEPT !.hooks = three, !.odd = no] = [[d EXCEPT !.hooks = three] EXCEPT !.odd = no]
    BY TwoFields
  <2>6. [d EXCEPT !.hooks = three, !.odd = no] = H!Json(servers, three, version, no)
    BY <2>2, <2>3, <2>5
  <2>7. QED
    BY <2>1, <2>4, <2>6, Zenon
<1>5. QED
  BY <1>3, <1>4 DEF three

LEMMA ClaudeKept ==
  ASSUME NEW c \in JsonDocs, ~c.odd, installed \in Nat, ~HookInPath
  PROVE  LET m == H!mergeClaudeHooks(c)
         IN /\ HooksMerged(c, m) /\ H!mergeClaudeHooks(m) = m
            /\ HooksOf(m, "PreToolUse", "pre-search") /\ HooksOf(m, "PostToolUse", "post-find")
            /\ HooksOf(m, "PostToolUse", "post-search")
<1>1. PICK servers \in SUBSET ServerRecs, hooks \in Seq(HookRecs), version \in BOOLEAN : c = Plain(servers, hooks, version)
  BY PlainHas
<1> DEFINE New(hs) == Added(Added(Added(hs, "PreToolUse", "Grep", "pre-search"), "PostToolUse", "find_context", "post-find"),
                            "PostToolUse", "Grep", "post-search")
           new == New(hooks)
<1>2. \A hs \in Seq(HookRecs) :
        /\ New(hs) \in Seq(HookRecs) /\ Three(New(hs)) /\ (Three(hs) => New(hs) = hs)
        /\ {ItemOf(h) : h \in H!ToSet(hs)} \subseteq {ItemOf(h) : h \in H!ToSet(New(hs))}
  BY ThreeAdded
<1>3. \A hs : H!mergeClaudeHooks(Plain(servers, hs, version)) = Plain(servers, New(hs), version)
  BY ClaudeIs
<1> HIDE DEF New
<1>4. new \in Seq(HookRecs) /\ Three(new) /\ New(new) = new /\ {ItemOf(h) : h \in H!ToSet(hooks)} \subseteq {ItemOf(h) : h \in H!ToSet(new)}
  BY <1>2
<1> HIDE DEF new
<1> DEFINE m == Plain(servers, new, version)
<1>5. H!mergeClaudeHooks(c) = m /\ H!mergeClaudeHooks(m) = m
  BY <1>1, <1>3, <1>4 DEF new
<1>6. HooksMerged(c, m)
  BY <1>1, <1>4, HooksPut
<1>7. m.hooks = new
  BY PlainFields
<1> HIDE DEF m
<1>8. HooksOf(m, "PreToolUse", "pre-search") /\ HooksOf(m, "PostToolUse", "post-find") /\ HooksOf(m, "PostToolUse", "post-search")
  BY <1>4, <1>7, Literals, HooksRun DEF Three
<1>9. QED
  BY <1>5, <1>6, <1>8

LEMMA CodexKept ==
  ASSUME NEW c \in JsonDocs, ~c.odd, installed \in Nat
  PROVE  LET m == H!mergeCodexHooks(c)
         IN HooksMerged(c, m) /\ H!mergeCodexHooks(m) = m /\ HooksOf(m, "PreToolUse", "search-signal")
<1>1. PICK servers \in SUBSET ServerRecs, hooks \in Seq(HookRecs), version \in BOOLEAN : c = Plain(servers, hooks, version)
  BY PlainHas
<1> DEFINE New(hs) == Added(hs, "PreToolUse", "^Bash$", "search-signal")
           new == New(hooks)
<1>2. \A hs \in Seq(HookRecs) :
        /\ New(hs) \in Seq(HookRecs) /\ Settled(New(hs), "PreToolUse", "search-signal")
        /\ Settled(hs, "PreToolUse", "search-signal") => New(hs) = hs
        /\ {ItemOf(h) : h \in H!ToSet(hs)} \subseteq {ItemOf(h) : h \in H!ToSet(New(hs))}
  BY Literals, HookAdded
<1>3. \A hs : H!mergeCodexHooks(Plain(servers, hs, version)) = Plain(servers, New(hs), version)
  <2> SUFFICES ASSUME NEW hs PROVE H!mergeCodexHooks(Plain(servers, hs, version)) = Plain(servers, New(hs), version)
    OBVIOUS
  <2> DEFINE d == Plain(servers, hs, version)
  <2>1. d.hooks = hs
    BY PlainFields
  <2>2. H!mergeCodexHooks(d) = [d EXCEPT !.hooks = New(hs), !.odd = FALSE]
    BY <2>1, Zenon DEF H!mergeCodexHooks, Added
  <2> HIDE DEF New
  <2>3. [d EXCEPT !.hooks = New(hs), !.odd = FALSE] = Plain(servers, New(hs), version)
      <3>1. PICK no : no = FALSE
      BY Zenon
    <3> DEFINE e == H!Json(servers, hs, version, no)
    <3>2. [e EXCEPT !.hooks = New(hs)] = H!Json(servers, New(hs), version, no)
      BY JsonHooks
    <3>3. [H!Json(servers, New(hs), version, no) EXCEPT !.odd = no] = H!Json(servers, New(hs), version, no)
      BY JsonOdd
    <3>4. d = e /\ Plain(servers, New(hs), version) = H!Json(servers, New(hs), version, no)
      BY <3>1, Zenon DEF Plain
    <3> HIDE DEF d, e
    <3>5. [e EXCEPT !.hooks = New(hs), !.odd = no] = [[e EXCEPT !.hooks = New(hs)] EXCEPT !.odd = no]
      BY TwoFields
    <3>6. [e EXCEPT !.hooks = New(hs), !.odd = no] = H!Json(servers, New(hs), version, no)
      BY <3>2, <3>3, <3>5
    <3>7. QED
      BY <3>1, <3>4, <3>6, Zenon
  <2>4. QED
    BY <2>2, <2>3
<1> HIDE DEF New
<1>4. /\ new \in Seq(HookRecs) /\ Settled(new, "PreToolUse", "search-signal") /\ New(new) = new
      /\ {ItemOf(h) : h \in H!ToSet(hooks)} \subseteq {ItemOf(h) : h \in H!ToSet(new)}
  BY <1>2
<1> HIDE DEF new
<1> DEFINE m == Plain(servers, new, version)
<1>5. H!mergeCodexHooks(c) = m /\ H!mergeCodexHooks(m) = m
  BY <1>1, <1>3, <1>4 DEF new
<1>6. HooksMerged(c, m)
  BY <1>1, <1>4, HooksPut
<1>7. m.hooks = new
  BY PlainFields
<1> HIDE DEF m
<1>8. HooksOf(m, "PreToolUse", "search-signal")
  BY <1>4, <1>7, Literals, HooksRun
<1>9. QED
  BY <1>5, <1>6, <1>8

LEMMA CursorKept ==
  ASSUME NEW c \in JsonDocs, ~c.odd, installed \in Nat
  PROVE  LET m == H!mergeCursorHooks(c)
         IN HooksMerged(c, m) /\ H!mergeCursorHooks(m) = m /\ HooksOf(m, "beforeShellExecution", "search-signal")
<1>1. PICK servers \in SUBSET ServerRecs, hooks \in Seq(HookRecs), version \in BOOLEAN : c = Plain(servers, hooks, version)
  BY PlainHas
<1> DEFINE New(hs) == Added(hs, "beforeShellExecution", "grep|rg|ag|ack", "search-signal")
           new == New(hooks)
<1>2. \A hs \in Seq(HookRecs) :
        /\ New(hs) \in Seq(HookRecs) /\ Settled(New(hs), "beforeShellExecution", "search-signal")
        /\ Settled(hs, "beforeShellExecution", "search-signal") => New(hs) = hs
        /\ {ItemOf(h) : h \in H!ToSet(hs)} \subseteq {ItemOf(h) : h \in H!ToSet(New(hs))}
  BY Literals, HookAdded
<1>3. \A hs, v : H!mergeCursorHooks(Plain(servers, hs, v)) = IF New(hs) = hs THEN Plain(servers, hs, v) ELSE Plain(servers, New(hs), TRUE)
  <2> SUFFICES ASSUME NEW hs, NEW v
               PROVE  H!mergeCursorHooks(Plain(servers, hs, v)) = IF New(hs) = hs THEN Plain(servers, hs, v) ELSE Plain(servers, New(hs), TRUE)
    OBVIOUS
  <2> DEFINE d == Plain(servers, hs, v)
  <2>1. d.hooks = hs
    BY PlainFields
  <2>2. H!mergeCursorHooks(d) = IF New(hs) = hs THEN d ELSE [d EXCEPT !.hooks = New(hs), !.version = TRUE, !.odd = FALSE]
    BY <2>1, Zenon DEF H!mergeCursorHooks, Added
  <2> HIDE DEF New
  <2>3. [d EXCEPT !.hooks = New(hs), !.version = TRUE, !.odd = FALSE] = Plain(servers, New(hs), TRUE)
    <3>1. PICK no, yes : no = FALSE /\ yes = TRUE
      BY Zenon
    <3> DEFINE e == H!Json(servers, hs, v, no)
    <3>2. [e EXCEPT !.hooks = New(hs)] = H!Json(servers, New(hs), v, no)
      BY JsonHooks
    <3>3. [H!Json(servers, New(hs), v, no) EXCEPT !.version = yes] = H!Json(servers, New(hs), yes, no)
      BY JsonVersion
    <3>4. [H!Json(servers, New(hs), yes, no) EXCEPT !.odd = no] = H!Json(servers, New(hs), yes, no)
      BY JsonOdd
    <3>5. d = e /\ Plain(servers, New(hs), TRUE) = H!Json(servers, New(hs), yes, no)
      BY <3>1, Zenon DEF Plain
    <3> HIDE DEF d, e
    <3>6. [e EXCEPT !.hooks = New(hs), !.version = yes, !.odd = no]
            = [[[e EXCEPT !.hooks = New(hs)] EXCEPT !.version = yes] EXCEPT !.odd = no]
      BY ThreeFields
    <3>7. [e EXCEPT !.hooks = New(hs), !.version = yes, !.odd = no] = H!Json(servers, New(hs), yes, no)
      BY <3>2, <3>3, <3>4, <3>6
    <3>8. QED
      BY <3>1, <3>5, <3>7, Zenon
  <2> HIDE DEF d
  <2>4. QED
    BY <2>2, <2>3 DEF d
<1> HIDE DEF New
<1>4. /\ new \in Seq(HookRecs) /\ Settled(new, "beforeShellExecution", "search-signal") /\ New(new) = new
      /\ {ItemOf(h) : h \in H!ToSet(hooks)} \subseteq {ItemOf(h) : h \in H!ToSet(new)}
  BY <1>2
<1>5. PICK to \in BOOLEAN : H!mergeCursorHooks(c) = Plain(servers, new, to)
  <2>1. CASE new = hooks
    BY <1>1, <1>3, <2>1
  <2>2. CASE new # hooks
    <3>1. PICK yes \in BOOLEAN : yes = TRUE
      OBVIOUS
    <3>2. H!mergeCursorHooks(c) = Plain(servers, new, TRUE)
      BY <1>1, <1>3, <2>2
    <3>3. H!mergeCursorHooks(c) = Plain(servers, new, yes)
      BY <3>1, <3>2, Zenon
    <3>4. QED
      BY <3>3
  <2>3. QED
    BY <2>1, <2>2
<1> HIDE DEF new
<1> DEFINE m == Plain(servers, new, to)
<1>6. H!mergeCursorHooks(m) = m
  BY <1>3, <1>4
<1>7. HooksMerged(c, m)
  BY <1>1, <1>4, HooksPut
<1>8. m.hooks = new
  BY PlainFields
<1> HIDE DEF m
<1>9. HooksOf(m, "beforeShellExecution", "search-signal")
  BY <1>4, <1>8, Literals, HooksRun
<1>10. QED
  BY <1>5, <1>6, <1>7, <1>9 DEF m

-----------------------------------------------------------------------------
(* The section of contextmaxxer in a TOML file.                            *)

HeadLine == H!Line("header", "contextmaxxer", 0)
KeyLine(key) == H!Line("key", key, installed)
IsKey(l, key) == l.is \in {"key", "open"} /\ l.of = key
OurKeys == {"command", "args"}

Section(b) == b \in Seq(LineRecs) /\ Len(b) >= 1 /\ b[1] = HeadLine /\ \A i \in 2 .. Len(b) : b[i].is # "header"

\* The first line of the key says what is installed.
FirstKey(b, key) == \E i \in 1 .. Len(b) : b[i] = KeyLine(key) /\ \A j \in 1 .. i - 1 : ~IsKey(b[j], key)

\* A section has a key once, and what has its name is one.
Sole(b, key) == \A i \in 1 .. Len(b) : b[i].of = key => IsKey(b[i], key) /\ \A j \in 1 .. Len(b) : b[j].of = key => j = i

LEMMA LineIs ==
  ASSUME NEW is \in Words, NEW of \in Words, NEW val \in Nat
  PROVE  LET l == H!Line(is, of, val) IN l \in LineRecs /\ l.is = is /\ l.of = of /\ l.val = val
BY DEF H!Line, LineRecs

LEMMA KeyLineIs ==
  ASSUME NEW key \in OurKeys, installed \in Nat
  PROVE  /\ KeyLine(key) \in LineRecs /\ IsKey(KeyLine(key), key) /\ KeyLine(key).is = "key" /\ KeyLine(key).of = key
         /\ KeyLine(key).val = installed
<1>1. key \in Words /\ "key" \in Words
  BY DEF Words, OurKeys
<1>2. QED
  BY <1>1, LineIs DEF KeyLine, IsKey

LEMMA HeadLineIs == HeadLine \in LineRecs /\ HeadLine.is = "header" /\ HeadLine.of = "contextmaxxer" /\ HeadLine.val = 0
BY LineIs DEF HeadLine, Words

\* The line of the key is replaced where it is, or added.
LEMMA UpsertIs ==
  ASSUME NEW b \in Seq(LineRecs), NEW key
  PROVE  \/ (\A j \in 1 .. Len(b) : ~IsKey(b[j], key)) /\ H!upsertSectionLine(b, key) = Append(b, KeyLine(key))
         \/ \E i \in 1 .. Len(b) : /\ IsKey(b[i], key) /\ \A j \in 1 .. i - 1 : ~IsKey(b[j], key)
                                   /\ H!upsertSectionLine(b, key) = [b EXCEPT ![i] = KeyLine(key)]
<1> DEFINE at_ == {i \in DOMAIN b : b[i].is \in {"key", "open"} /\ b[i].of = key}
<1>1. at_ = {i \in 1 .. Len(b) : IsKey(b[i], key)} /\ at_ \in SUBSET Nat
  BY DEF IsKey
<1>2. H!upsertSectionLine(b, key) = IF at_ = {} THEN Append(b, KeyLine(key)) ELSE [b EXCEPT ![H!Min(at_)] = KeyLine(key)]
  BY DEF H!upsertSectionLine, KeyLine
<1> HIDE DEF at_
<1>3. CASE at_ = {}
  BY <1>1, <1>2, <1>3
<1>4. CASE at_ # {}
  <2>1. PICK i : i = H!Min(at_)
    OBVIOUS
  <2>2. i \in at_ /\ \A j \in at_ : i <= j
    BY <1>1, <1>4, <2>1, LeastOf
  <2>3. i \in 1 .. Len(b) /\ IsKey(b[i], key)
    BY <1>1, <2>2
  <2>4. ASSUME NEW j \in 1 .. i - 1 PROVE ~IsKey(b[j], key)
    <3>1. j \in Nat /\ i \in Nat /\ Len(b) \in Nat /\ 1 <= j /\ j <= i - 1 /\ i <= Len(b)
      BY <2>3, <2>4
    <3>2. j \in 1 .. Len(b) /\ ~(i <= j)
      BY <3>1
    <3>3. j \notin at_
      BY <2>2, <3>2
    <3>4. QED
      BY <1>1, <3>2, <3>3
  <2>5. H!upsertSectionLine(b, key) = [b EXCEPT ![i] = KeyLine(key)]
    BY <1>2, <1>4, <2>1
  <2>6. QED
    BY <2>3, <2>4, <2>5
<1>5. QED
  BY <1>3, <1>4

LEMMA Upserted ==
  ASSUME NEW b, Section(b), NEW key \in OurKeys, installed \in Nat
  PROVE  LET u == H!upsertSectionLine(b, key)
         IN /\ Section(u) /\ FirstKey(u, key) /\ (FirstKey(b, key) => u = b) /\ (Sole(b, key) => Sole(u, key))
            /\ Len(b) <= Len(u) /\ \A i \in 1 .. Len(b) : u[i] = b[i] \/ IsKey(b[i], key)
            /\ \A k \in OurKeys \ {key} : (FirstKey(b, k) => FirstKey(u, k)) /\ (Sole(b, k) => Sole(u, k))
<1> DEFINE u == H!upsertSectionLine(b, key)
           new == KeyLine(key)
<1>1. new \in LineRecs /\ IsKey(new, key) /\ new.is = "key" /\ new.of = key
  BY KeyLineIs
<1>2. b \in Seq(LineRecs) /\ Len(b) \in Nat /\ Len(b) >= 1 /\ b[1] = HeadLine /\ \A i \in 2 .. Len(b) : b[i].is # "header"
  BY DEF Section
<1>3. ~IsKey(b[1], key)
  BY <1>2, HeadLineIs DEF IsKey
<1>4. CASE (\A j \in 1 .. Len(b) : ~IsKey(b[j], key)) /\ u = Append(b, new)
  <2> HIDE DEF u, new
  <2>1. u \in Seq(LineRecs) /\ Len(u) = Len(b) + 1 /\ u[Len(b) + 1] = new /\ \A i \in 1 .. Len(b) : u[i] = b[i]
    BY <1>1, <1>2, <1>4
  <2>2. \A i \in 1 .. Len(u) : i \in 1 .. Len(b) \/ i = Len(b) + 1
    BY <1>2, <2>1
  <2>3. Section(u)
    <3>1. ASSUME NEW i \in 2 .. Len(u) PROVE u[i].is # "header"
      <4>1. i \in 2 .. Len(b) \/ i = Len(b) + 1
        BY <1>2, <2>1
      <4>2. QED
        BY <1>1, <1>2, <2>1, <4>1
    <3>2. QED
      BY <1>2, <2>1, <3>1 DEF Section
  <2>4. FirstKey(u, key)
    <3>1. Len(b) + 1 \in 1 .. Len(u) /\ \A j \in 1 .. (Len(b) + 1) - 1 : ~IsKey(u[j], key)
      BY <1>2, <1>4, <2>1
    <3>2. QED
      BY <2>1, <3>1 DEF FirstKey, new
  <2>5. ~FirstKey(b, key)
    BY <1>1, <1>4 DEF FirstKey, new
  <2>6. Sole(b, key) => Sole(u, key)
    <3>1. SUFFICES ASSUME Sole(b, key) PROVE Sole(u, key)
      OBVIOUS
    <3>2. \A i \in 1 .. Len(b) : b[i].of # key
      BY <1>4, <3>1 DEF Sole
    <3>3. \A i \in 1 .. Len(u) : u[i].of = key => i = Len(b) + 1
      BY <2>1, <2>2, <3>2
    <3>4. QED
      BY <1>1, <2>1, <3>3 DEF Sole
  <2>7. ASSUME NEW k \in OurKeys \ {key}, FirstKey(b, k) PROVE FirstKey(u, k)
    <3>1. PICK i \in 1 .. Len(b) : b[i] = KeyLine(k) /\ \A j \in 1 .. i - 1 : ~IsKey(b[j], k)
      BY <2>7 DEF FirstKey
    <3>2. i \in 1 .. Len(u) /\ u[i] = b[i] /\ \A j \in 1 .. i - 1 : u[j] = b[j]
      BY <1>2, <2>1
    <3>3. QED
      BY <3>1, <3>2 DEF FirstKey
  <2>8. ASSUME NEW k \in OurKeys \ {key}, Sole(b, k) PROVE Sole(u, k)
    <3>1. \A i \in 1 .. Len(u) : u[i].of = k => i \in 1 .. Len(b) /\ u[i] = b[i]
      BY <1>1, <2>1, <2>2, <2>8
    <3>2. QED
      BY <2>8, <3>1 DEF Sole
  <2>9. QED
    BY <1>2, <2>1, <2>3, <2>4, <2>5, <2>6, <2>7, <2>8 DEF u
<1>5. CASE \E i \in 1 .. Len(b) : IsKey(b[i], key) /\ (\A j \in 1 .. i - 1 : ~IsKey(b[j], key)) /\ u = [b EXCEPT ![i] = new]
  <2>1. PICK i \in 1 .. Len(b) : IsKey(b[i], key) /\ (\A j \in 1 .. i - 1 : ~IsKey(b[j], key)) /\ u = [b EXCEPT ![i] = new]
    BY <1>5
  <2> HIDE DEF u, new
  <2>2. u \in Seq(LineRecs) /\ Len(u) = Len(b) /\ u[i] = new /\ \A j \in 1 .. Len(b) : j # i => u[j] = b[j]
    BY <1>1, <1>2, <2>1
  <2>3. i # 1 /\ b[i].of = key
    BY <1>3, <2>1 DEF IsKey
  <2>4. Section(u)
    BY <1>1, <1>2, <2>2, <2>3 DEF Section
  <2>5. FirstKey(u, key)
    <3>1. \A j \in 1 .. i - 1 : u[j] = b[j]
      BY <1>2, <2>2
    <3>2. QED
      BY <2>1, <2>2, <3>1 DEF FirstKey, new
  <2>6. ASSUME FirstKey(b, key) PROVE u = b
    <3>1. PICK n \in 1 .. Len(b) : b[n] = new /\ \A j \in 1 .. n - 1 : ~IsKey(b[j], key)
      BY <2>6 DEF FirstKey, new
    <3>2. n = i
      BY <1>1, <2>1, <3>1
    <3>3. QED
      BY <1>2, <2>1, <3>1, <3>2
  <2>7. ASSUME NEW k \in OurKeys, Sole(b, k) PROVE Sole(u, k)
    <3>1. \A j \in 1 .. Len(u) : u[j].of = b[j].of
      BY <1>1, <2>2, <2>3
    <3>2. \A j \in 1 .. Len(u) : u[j].of = k => IsKey(u[j], k)
      BY <1>1, <2>2, <2>7, <3>1 DEF Sole
    <3>3. QED
      BY <2>2, <2>7, <3>1, <3>2 DEF Sole
  <2>8. ASSUME NEW k \in OurKeys \ {key}, FirstKey(b, k) PROVE FirstKey(u, k)
    <3>1. PICK n \in 1 .. Len(b) : b[n] = KeyLine(k) /\ \A j \in 1 .. n - 1 : ~IsKey(b[j], k)
      BY <2>8 DEF FirstKey
    <3>2. n # i
      BY <2>3, <3>1, KeyLineIs
    <3>3. \A j \in 1 .. n - 1 : ~IsKey(u[j], k)
      BY <1>1, <2>2, <3>1 DEF IsKey
    <3>4. QED
      BY <2>2, <3>1, <3>2, <3>3 DEF FirstKey
  <2>9. Len(b) <= Len(u) /\ \A j \in 1 .. Len(b) : u[j] = b[j] \/ IsKey(b[j], key)
    BY <1>2, <2>1, <2>2
  <2>10. QED
    BY <2>4, <2>5, <2>6, <2>7, <2>8, <2>9 DEF u
<1>6. QED
  BY <1>2, <1>4, <1>5, UpsertIs

Both(b) == H!upsertSectionLine(H!upsertSectionLine(b, "command"), "args")

LEMMA BothUpserted ==
  ASSUME NEW b, Section(b), installed \in Nat
  PROVE  /\ Section(Both(b)) /\ Both(Both(b)) = Both(b) /\ Len(b) <= Len(Both(b))
         /\ \A i \in 1 .. Len(b) : Both(b)[i] = b[i] \/ \E k \in OurKeys : IsKey(b[i], k)
         /\ \A k \in OurKeys : FirstKey(Both(b), k) /\ (Sole(b, k) => Sole(Both(b), k))
<1> DEFINE u == H!upsertSectionLine(b, "command")
           v == H!upsertSectionLine(u, "args")
<1>1. "command" \in OurKeys /\ "args" \in OurKeys /\ "command" # "args"
  BY DEF OurKeys
<1>2. /\ Section(u) /\ FirstKey(u, "command") /\ (Sole(b, "command") => Sole(u, "command"))
      /\ Len(b) <= Len(u) /\ \A i \in 1 .. Len(b) : u[i] = b[i] \/ IsKey(b[i], "command")
      /\ Sole(b, "args") => Sole(u, "args")
  BY <1>1, Upserted
<1> HIDE DEF u
<1>3. /\ Section(v) /\ FirstKey(v, "args") /\ (Sole(u, "args") => Sole(v, "args"))
      /\ Len(u) <= Len(v) /\ \A i \in 1 .. Len(u) : v[i] = u[i] \/ IsKey(u[i], "args")
      /\ FirstKey(v, "command") /\ (Sole(u, "command") => Sole(v, "command"))
  BY <1>1, <1>2, Upserted
<1> HIDE DEF v
<1>4. H!upsertSectionLine(v, "command") = v /\ H!upsertSectionLine(v, "args") = v
  BY <1>1, <1>3, Upserted
<1>5. v = Both(b)
  BY DEF u, v, Both
<1>6. Both(v) = v
  BY <1>4 DEF Both
<1>7. Len(b) \in Nat /\ Len(u) \in Nat /\ Len(v) \in Nat
  BY <1>2, <1>3 DEF Section
<1>8. ASSUME NEW i \in 1 .. Len(b) PROVE v[i] = b[i] \/ \E k \in OurKeys : IsKey(b[i], k)
  <2>1. i \in 1 .. Len(u)
    BY <1>2, <1>7
  <2>2. QED
    BY <1>1, <1>2, <1>3, <2>1
<1>9. \A k \in OurKeys : FirstKey(v, k) /\ (Sole(b, k) => Sole(v, k))
  BY <1>2, <1>3 DEF OurKeys
<1>10. QED
  BY <1>2, <1>3, <1>5, <1>6, <1>7, <1>8, <1>9

\* The lines before the section, the section, and those after it.
Split(ls, a, b, d) ==
  /\ a \in Seq(LineRecs) /\ Section(b) /\ d \in Seq(LineRecs) /\ ls = (a \o b) \o d
  /\ \A i \in 1 .. Len(a) : a[i] # HeadLine
  /\ d = <<>> \/ d[1].is = "header"

LEMMA TwoParts ==
  ASSUME NEW a \in Seq(LineRecs), NEW b \in Seq(LineRecs)
  PROVE  /\ a \o b \in Seq(LineRecs) /\ Len(a \o b) = Len(a) + Len(b) /\ \A i \in 1 .. Len(a) : (a \o b)[i] = a[i]
         /\ \A i \in 1 .. Len(b) : (a \o b)[Len(a) + i] = b[i]
OBVIOUS

Parts(ls, a, b, d) ==
  /\ ls \in Seq(LineRecs) /\ Len(ls) = Len(a) + Len(b) + Len(d)
  /\ \A i \in 1 .. Len(a) : ls[i] = a[i]
  /\ \A i \in 1 .. Len(b) : ls[Len(a) + i] = b[i]
  /\ \A i \in 1 .. Len(d) : ls[Len(a) + Len(b) + i] = d[i]
  /\ \A i \in 1 .. Len(ls) : \/ i \in 1 .. Len(a)
                             \/ \E j \in 1 .. Len(b) : i = Len(a) + j
                             \/ \E j \in 1 .. Len(d) : i = Len(a) + Len(b) + j

LEMMA ThreeParts ==
  ASSUME NEW a \in Seq(LineRecs), NEW b \in Seq(LineRecs), NEW d \in Seq(LineRecs), NEW ls, ls = (a \o b) \o d
  PROVE  Parts(ls, a, b, d)
<1> DEFINE ab == a \o b
<1>1. /\ ab \in Seq(LineRecs) /\ Len(ab) = Len(a) + Len(b) /\ (\A i \in 1 .. Len(a) : ab[i] = a[i])
      /\ \A i \in 1 .. Len(b) : ab[Len(a) + i] = b[i]
  BY TwoParts
<1> HIDE DEF ab
<1>2. /\ ls \in Seq(LineRecs) /\ Len(ls) = Len(ab) + Len(d) /\ (\A i \in 1 .. Len(ab) : ls[i] = ab[i])
      /\ \A i \in 1 .. Len(d) : ls[Len(ab) + i] = d[i]
  BY <1>1, TwoParts DEF ab
<1>3. Len(a) \in Nat /\ Len(b) \in Nat /\ Len(d) \in Nat
  OBVIOUS
<1>4. \A i \in 1 .. Len(a) : ls[i] = a[i]
  BY <1>1, <1>2, <1>3
<1>5. \A i \in 1 .. Len(b) : ls[Len(a) + i] = b[i]
  BY <1>1, <1>2, <1>3
<1>6. \A i \in 1 .. Len(d) : ls[Len(a) + Len(b) + i] = d[i]
  BY <1>1, <1>2, <1>3
<1>7. ASSUME NEW i \in 1 .. Len(ls)
      PROVE  \/ i \in 1 .. Len(a)
             \/ \E j \in 1 .. Len(b) : i = Len(a) + j
             \/ \E j \in 1 .. Len(d) : i = Len(a) + Len(b) + j
  <2>1. i \in Int /\ 1 <= i /\ i <= Len(a) + Len(b) + Len(d)
    BY <1>1, <1>2, <1>3
  <2>2. CASE i <= Len(a)
    BY <1>3, <2>1, <2>2
  <2>3. CASE Len(a) < i /\ i <= Len(a) + Len(b)
    <3>1. i - Len(a) \in 1 .. Len(b) /\ i = Len(a) + (i - Len(a))
      BY <1>3, <2>1, <2>3
    <3>2. QED
      BY <3>1
  <2>4. CASE Len(a) + Len(b) < i
    <3>1. i - (Len(a) + Len(b)) \in 1 .. Len(d) /\ i = Len(a) + Len(b) + (i - (Len(a) + Len(b)))
      BY <1>3, <2>1, <2>4
    <3>2. QED
      BY <3>1
  <2>5. QED
    BY <1>3, <2>1, <2>2, <2>3, <2>4
<1>8. QED
  BY <1>1, <1>2, <1>3, <1>4, <1>5, <1>6, <1>7 DEF Parts

\* They are told from the lines.
LEMMA PartsAre ==
  ASSUME NEW a \in Seq(LineRecs), NEW b \in Seq(LineRecs), NEW d \in Seq(LineRecs), NEW ls, ls = (a \o b) \o d
  PROVE  /\ SubSeq(ls, 1, Len(a)) = a /\ SubSeq(ls, Len(a) + 1, Len(a) + Len(b)) = b
         /\ SubSeq(ls, Len(a) + Len(b) + 1, Len(ls)) = d
<1>1. /\ ls \in Seq(LineRecs) /\ Len(ls) = Len(a) + Len(b) + Len(d)
      /\ \A i \in 1 .. Len(a) : ls[i] = a[i]
      /\ \A i \in 1 .. Len(b) : ls[Len(a) + i] = b[i]
      /\ \A i \in 1 .. Len(d) : ls[Len(a) + Len(b) + i] = d[i]
  BY ThreeParts DEF Parts
<1>2. Len(a) \in Nat /\ Len(b) \in Nat /\ Len(d) \in Nat
  OBVIOUS
<1>3. SubSeq(ls, 1, Len(a)) = a
  <2>1. SubSeq(ls, 1, Len(a)) \in Seq(LineRecs) /\ Len(SubSeq(ls, 1, Len(a))) = Len(a)
    BY <1>1, <1>2
  <2>2. \A i \in 1 .. Len(a) : SubSeq(ls, 1, Len(a))[i] = a[i]
    BY <1>1, <1>2
  <2>3. QED
    BY <2>1, <2>2
<1>4. SubSeq(ls, Len(a) + 1, Len(a) + Len(b)) = b
  <2> DEFINE s == SubSeq(ls, Len(a) + 1, Len(a) + Len(b))
  <2>1. s \in Seq(LineRecs) /\ Len(s) = Len(b)
    BY <1>1, <1>2
  <2>2. ASSUME NEW i \in 1 .. Len(b) PROVE s[i] = b[i]
    <3>1. s[i] = ls[(Len(a) + 1) + i - 1] /\ (Len(a) + 1) + i - 1 = Len(a) + i
      BY <1>1, <1>2
    <3>2. QED
      BY <1>1, <3>1
  <2> HIDE DEF s
  <2>3. s = b
    BY <2>1, <2>2, SMTT(40)
  <2>4. QED
    BY <2>3 DEF s
<1>5. SubSeq(ls, Len(a) + Len(b) + 1, Len(ls)) = d
  <2> DEFINE s == SubSeq(ls, Len(a) + Len(b) + 1, Len(ls))
  <2>1. s \in Seq(LineRecs) /\ Len(s) = Len(d)
    BY <1>1, <1>2
  <2>2. ASSUME NEW i \in 1 .. Len(d) PROVE s[i] = d[i]
    <3>1. s[i] = ls[(Len(a) + Len(b) + 1) + i - 1] /\ (Len(a) + Len(b) + 1) + i - 1 = Len(a) + Len(b) + i
      BY <1>1, <1>2
    <3>2. QED
      BY <1>1, <3>1
  <2> HIDE DEF s
  <2>3. s = d
    BY <2>1, <2>2, SMTT(40)
  <2>4. QED
    BY <2>3 DEF s
<1>6. QED
  BY <1>3, <1>4, <1>5

\* Any lines have them.
LEMMA PartsOf ==
  ASSUME NEW ls \in Seq(LineRecs), NEW m \in Nat, NEW n \in Nat, m <= n, n <= Len(ls)
  PROVE  LET a == SubSeq(ls, 1, m)
             b == SubSeq(ls, m + 1, n)
             d == SubSeq(ls, n + 1, Len(ls))
         IN /\ a \in Seq(LineRecs) /\ b \in Seq(LineRecs) /\ d \in Seq(LineRecs) /\ ls = (a \o b) \o d
            /\ Len(a) = m /\ Len(b) = n - m /\ Len(d) = Len(ls) - n
<1> DEFINE a == SubSeq(ls, 1, m)
           b == SubSeq(ls, m + 1, n)
           d == SubSeq(ls, n + 1, Len(ls))
           t == (a \o b) \o d
<1>1. a \in Seq(LineRecs) /\ Len(a) = m /\ \A i \in 1 .. m : a[i] = ls[i]
  OBVIOUS
<1>2. b \in Seq(LineRecs) /\ Len(b) = n - m /\ \A i \in 1 .. n - m : b[i] = ls[m + i]
  <2>1. b \in Seq(LineRecs) /\ Len(b) = n - m
    OBVIOUS
  <2>2. ASSUME NEW i \in 1 .. n - m PROVE b[i] = ls[m + i]
    <3>1. b[i] = ls[(m + 1) + i - 1] /\ (m + 1) + i - 1 = m + i
      OBVIOUS
    <3>2. QED
      BY <3>1
  <2>3. QED
    BY <2>1, <2>2
<1>3. d \in Seq(LineRecs) /\ Len(d) = Len(ls) - n /\ \A i \in 1 .. Len(ls) - n : d[i] = ls[n + i]
  <2>1. d \in Seq(LineRecs) /\ Len(d) = Len(ls) - n
    OBVIOUS
  <2>2. ASSUME NEW i \in 1 .. Len(ls) - n PROVE d[i] = ls[n + i]
    <3>1. d[i] = ls[(n + 1) + i - 1] /\ (n + 1) + i - 1 = n + i
      OBVIOUS
    <3>2. QED
      BY <3>1
  <2>3. QED
    BY <2>1, <2>2
<1> HIDE DEF a, b, d
<1>4. /\ t \in Seq(LineRecs) /\ Len(t) = Len(a) + Len(b) + Len(d)
      /\ \A i \in 1 .. Len(a) : t[i] = a[i]
      /\ \A i \in 1 .. Len(b) : t[Len(a) + i] = b[i]
      /\ \A i \in 1 .. Len(d) : t[Len(a) + Len(b) + i] = d[i]
      /\ \A i \in 1 .. Len(t) : \/ i \in 1 .. Len(a)
                                \/ \E j \in 1 .. Len(b) : i = Len(a) + j
                                \/ \E j \in 1 .. Len(d) : i = Len(a) + Len(b) + j
  BY <1>1, <1>2, <1>3, ThreeParts, SMTT(40) DEF Parts
<1> HIDE DEF t
<1>5. Len(ls) \in Nat /\ Len(t) = Len(ls) /\ Len(a) + Len(b) = n
  BY <1>1, <1>2, <1>3, <1>4
<1>6. ASSUME NEW i \in 1 .. Len(t) PROVE t[i] = ls[i]
  <2>1. CASE i \in 1 .. Len(a)
    BY <1>1, <1>4, <2>1
  <2>2. CASE \E j \in 1 .. Len(b) : i = Len(a) + j
    <3>1. PICK j \in 1 .. Len(b) : i = Len(a) + j
      BY <2>2
    <3>2. t[i] = b[j] /\ b[j] = ls[m + j] /\ i = m + j
      BY <1>1, <1>2, <1>4, <3>1
    <3>3. QED
      BY <3>2
  <2>3. CASE \E j \in 1 .. Len(d) : i = Len(a) + Len(b) + j
    <3>1. PICK j \in 1 .. Len(d) : i = Len(a) + Len(b) + j
      BY <2>3
    <3>2. t[i] = d[j] /\ d[j] = ls[n + j] /\ i = n + j
      BY <1>3, <1>4, <1>5, <3>1
    <3>3. QED
      BY <3>2
  <2>4. QED
    BY <1>4, <2>1, <2>2, <2>3
<1>7. t = ls
  BY <1>4, <1>5, <1>6, SMTT(40)
<1>8. QED
  BY <1>1, <1>2, <1>3, <1>7 DEF a, b, d, t

Heads(ls) == {i \in DOMAIN ls : ls[i] = HeadLine}
Ends(ls, i) == {j - 1 : j \in {j \in i + 1 .. Len(ls) : ls[j].is = "header"}} \union {Len(ls)}

LEMMA SplitParts ==
  ASSUME NEW ls, NEW a, NEW b, NEW d, Split(ls, a, b, d)
  PROVE  /\ a \in Seq(LineRecs) /\ b \in Seq(LineRecs) /\ d \in Seq(LineRecs) /\ ls \in Seq(LineRecs)
         /\ Len(ls) = Len(a) + Len(b) + Len(d) /\ Len(b) >= 1 /\ ls = (a \o b) \o d
         /\ \A i \in 1 .. Len(a) : ls[i] = a[i]
         /\ \A i \in 1 .. Len(b) : ls[Len(a) + i] = b[i]
         /\ \A i \in 1 .. Len(d) : ls[Len(a) + Len(b) + i] = d[i]
         /\ \A i \in 1 .. Len(ls) : \/ i \in 1 .. Len(a)
                                    \/ \E j \in 1 .. Len(b) : i = Len(a) + j
                                    \/ \E j \in 1 .. Len(d) : i = Len(a) + Len(b) + j
<1>1. a \in Seq(LineRecs) /\ b \in Seq(LineRecs) /\ d \in Seq(LineRecs) /\ ls = (a \o b) \o d /\ Len(b) >= 1
  BY DEF Split, Section
<1>2. Parts(ls, a, b, d)
  BY <1>1, ThreeParts, Zenon
<1>3. QED
  BY <1>1, <1>2 DEF Parts

LEMMA SplitHead ==
  ASSUME NEW ls, NEW a, NEW b, NEW d, Split(ls, a, b, d)
  PROVE  Heads(ls) # {} /\ H!Min(Heads(ls)) = Len(a) + 1
<1>1. /\ Len(a) \in Nat /\ Len(b) \in Nat /\ Len(d) \in Nat /\ Len(b) >= 1 /\ ls \in Seq(LineRecs)
      /\ Len(ls) = Len(a) + Len(b) + Len(d) /\ \A i \in 1 .. Len(a) : ls[i] = a[i]
      /\ \A i \in 1 .. Len(b) : ls[Len(a) + i] = b[i]
  BY SplitParts
<1>2. b[1] = HeadLine /\ \A i \in 1 .. Len(a) : a[i] # HeadLine
  BY DEF Split, Section
<1>3. Len(a) + 1 \in Heads(ls)
  <2>1. 1 \in 1 .. Len(b) /\ Len(a) + 1 \in 1 .. Len(ls)
    BY <1>1
  <2>2. QED
    BY <1>1, <1>2, <2>1 DEF Heads
<1>4. ASSUME NEW i \in Heads(ls) PROVE Len(a) + 1 <= i
  <2>1. i \in 1 .. Len(ls) /\ ls[i] = HeadLine
    BY <1>1 DEF Heads
  <2>2. i \notin 1 .. Len(a)
    BY <1>1, <1>2, <2>1
  <2>3. QED
    BY <1>1, <2>1, <2>2
<1>5. Heads(ls) \in SUBSET Nat
  BY <1>1 DEF Heads
<1>6. QED
  BY <1>3, <1>4, <1>5, LeastIs

LEMMA SplitEnd ==
  ASSUME NEW ls, NEW a, NEW b, NEW d, Split(ls, a, b, d)
  PROVE  H!SectionEnd(ls, Len(a) + 1) = Len(a) + Len(b)
<1> DEFINE i == Len(a) + 1
           x == Len(a) + Len(b)
<1>1. /\ Len(a) \in Nat /\ Len(b) \in Nat /\ Len(d) \in Nat /\ Len(b) >= 1 /\ ls \in Seq(LineRecs)
      /\ Len(ls) = Len(a) + Len(b) + Len(d)
      /\ \A k \in 1 .. Len(b) : ls[Len(a) + k] = b[k]
      /\ \A k \in 1 .. Len(d) : ls[Len(a) + Len(b) + k] = d[k]
  BY SplitParts
<1>2. (\A k \in 2 .. Len(b) : b[k].is # "header") /\ (d = <<>> \/ d[1].is = "header") /\ d \in Seq(LineRecs)
  BY DEF Split, Section
<1>3. Ends(ls, i) \in SUBSET Nat
  BY <1>1 DEF Ends
<1>4. x \in Ends(ls, i)
  <2>1. CASE d = <<>>
    BY <1>1, <2>1 DEF Ends
  <2>2. CASE d # <<>>
    <3>1. Len(d) >= 1
      BY <1>2, <2>2
    <3>2. 1 \in 1 .. Len(d) /\ x + 1 \in i + 1 .. Len(ls) /\ x = (x + 1) - 1
      BY <1>1, <3>1
    <3>3. ls[x + 1].is = "header"
      BY <1>1, <1>2, <2>2, <3>2
    <3>4. QED
      BY <3>2, <3>3 DEF Ends
  <2>3. QED
    BY <2>1, <2>2
<1>5. ASSUME NEW y \in Ends(ls, i) PROVE x <= y
  <2>1. CASE y = Len(ls)
    BY <1>1, <2>1
  <2>2. CASE \E j \in i + 1 .. Len(ls) : ls[j].is = "header" /\ y = j - 1
    <3>1. PICK j \in i + 1 .. Len(ls) : ls[j].is = "header" /\ y = j - 1
      BY <2>2
    <3>2. ~(j <= x)
      <4>1. SUFFICES ASSUME j <= x PROVE FALSE
        OBVIOUS
      <4>2. j - Len(a) \in 2 .. Len(b) /\ j = Len(a) + (j - Len(a)) /\ j - Len(a) \in 1 .. Len(b)
        BY <1>1, <3>1, <4>1
      <4>3. ls[j] = b[j - Len(a)]
        BY <1>1, <4>2
      <4>4. QED
        BY <1>2, <3>1, <4>2, <4>3
    <3>3. QED
      BY <1>1, <3>1, <3>2
  <2>3. QED
    BY <2>1, <2>2 DEF Ends
<1>6. H!Min(Ends(ls, i)) = x
  BY <1>3, <1>4, <1>5, LeastIs
<1>7. H!SectionEnd(ls, i) = H!Min(Ends(ls, i))
  BY Zenon DEF H!SectionEnd, Ends
<1>8. QED
  BY <1>6, <1>7

LEMMA AppendIs ==
  ASSUME NEW ls
  PROVE  H!appendCodexServer(ls) =
           LET from == H!Min(Heads(ls))
               to == H!SectionEnd(ls, from)
           IN IF Heads(ls) = {} THEN ls \o <<HeadLine, KeyLine("command"), KeyLine("args")>>
              ELSE (SubSeq(ls, 1, from - 1) \o Both(SubSeq(ls, from, to))) \o SubSeq(ls, to + 1, Len(ls))
BY Zenon DEF H!appendCodexServer, Heads, HeadLine, KeyLine, Both

LEMMA SplitMerged ==
  ASSUME NEW ls, NEW a, NEW b, NEW d, Split(ls, a, b, d)
  PROVE  H!appendCodexServer(ls) = (a \o Both(b)) \o d
<1>1. Heads(ls) # {} /\ H!Min(Heads(ls)) = Len(a) + 1 /\ H!SectionEnd(ls, Len(a) + 1) = Len(a) + Len(b)
  BY SplitHead, SplitEnd
<1>2. H!appendCodexServer(ls) = (SubSeq(ls, 1, (Len(a) + 1) - 1) \o Both(SubSeq(ls, Len(a) + 1, Len(a) + Len(b))))
                              \o SubSeq(ls, Len(a) + Len(b) + 1, Len(ls))
  BY <1>1, AppendIs
<1>3. Len(a) \in Nat /\ (Len(a) + 1) - 1 = Len(a)
  BY SplitParts
<1>4. /\ SubSeq(ls, 1, Len(a)) = a /\ SubSeq(ls, Len(a) + 1, Len(a) + Len(b)) = b
      /\ SubSeq(ls, Len(a) + Len(b) + 1, Len(ls)) = d
  BY SplitParts, PartsAre
<1>5. QED
  BY <1>2, <1>3, <1>4

LEMMA SplitAgain ==
  ASSUME NEW ls, NEW a, NEW b, NEW d, Split(ls, a, b, d), installed \in Nat
  PROVE  Split((a \o Both(b)) \o d, a, Both(b), d)
<1>1. Section(b)
  BY DEF Split
<1>2. Section(Both(b))
  BY <1>1, BothUpserted
<1>3. QED
  BY <1>2 DEF Split

LEMMA HeadFound ==
  ASSUME NEW ls \in Seq(LineRecs), Heads(ls) # {}
  PROVE  \E a, b, d : Split(ls, a, b, d)
<1> DEFINE from == H!Min(Heads(ls))
           to == H!Min(Ends(ls, from))
           a == SubSeq(ls, 1, from - 1)
           b == SubSeq(ls, from, to)
           d == SubSeq(ls, to + 1, Len(ls))
<1>1. Heads(ls) \in SUBSET Nat /\ Len(ls) \in Nat
  BY DEF Heads
<1>2. from \in Heads(ls) /\ \A y \in Heads(ls) : from <= y
  BY <1>1, LeastOf
<1>3. from \in 1 .. Len(ls) /\ ls[from] = HeadLine
  BY <1>2 DEF Heads
<1> HIDE DEF from
<1>4. Ends(ls, from) \in SUBSET Nat /\ Ends(ls, from) # {}
  BY <1>1, <1>3 DEF Ends
<1>5. to \in Ends(ls, from) /\ \A y \in Ends(ls, from) : to <= y
  BY <1>4, LeastOf
<1> HIDE DEF to
<1>6. from <= to /\ to <= Len(ls) /\ to \in Nat /\ (to = Len(ls) \/ ls[to + 1].is = "header")
  BY <1>1, <1>3, <1>5 DEF Ends
<1>7. ASSUME NEW j \in from + 1 .. to PROVE ls[j].is # "header"
  <2>1. SUFFICES ASSUME ls[j].is = "header" PROVE FALSE
    OBVIOUS
  <2>2. j \in from + 1 .. Len(ls) /\ ~(to <= j - 1)
    BY <1>1, <1>3, <1>6
  <2>3. j - 1 \in Ends(ls, from)
    BY <2>1, <2>2 DEF Ends
  <2>4. QED
    BY <1>5, <2>2, <2>3
<1>8. from - 1 \in Nat /\ from - 1 <= to /\ (from - 1) + 1 = from
  BY <1>3, <1>6
<1>9. /\ a \in Seq(LineRecs) /\ b \in Seq(LineRecs) /\ d \in Seq(LineRecs) /\ ls = (a \o b) \o d
      /\ Len(a) = from - 1 /\ Len(b) = to - (from - 1) /\ Len(d) = Len(ls) - to
  <2>1. LET u == SubSeq(ls, 1, from - 1)
            v == SubSeq(ls, (from - 1) + 1, to)
            w == SubSeq(ls, to + 1, Len(ls))
        IN /\ u \in Seq(LineRecs) /\ v \in Seq(LineRecs) /\ w \in Seq(LineRecs) /\ ls = (u \o v) \o w
           /\ Len(u) = from - 1 /\ Len(v) = to - (from - 1) /\ Len(w) = Len(ls) - to
    BY <1>6, <1>8, PartsOf
  <2>2. QED
    BY <1>8, <2>1
<1> HIDE DEF a, b, d
<1>10. /\ \A i \in 1 .. Len(a) : ls[i] = a[i]
       /\ \A i \in 1 .. Len(b) : ls[Len(a) + i] = b[i]
       /\ \A i \in 1 .. Len(d) : ls[Len(a) + Len(b) + i] = d[i]
  <2>1. Parts(ls, a, b, d)
    BY <1>9, ThreeParts, Zenon
  <2>2. QED
    BY <2>1 DEF Parts
<1>11. Len(b) >= 1 /\ b[1] = HeadLine
  <2>1. 1 \in 1 .. Len(b) /\ Len(a) + 1 = from
    BY <1>3, <1>6, <1>9, SMTT(40)
  <2>2. QED
    BY <1>3, <1>9, <1>10, <2>1
<1>12. ASSUME NEW i \in 2 .. Len(b) PROVE b[i].is # "header"
  <2>1. i \in 1 .. Len(b) /\ Len(a) + i \in from + 1 .. to
    BY <1>3, <1>6, <1>9
  <2>2. QED
    BY <1>7, <1>10, <2>1
<1>13. ASSUME NEW i \in 1 .. Len(a) PROVE a[i] # HeadLine
  <2>1. i \in 1 .. Len(ls) /\ ~(from <= i)
    BY <1>1, <1>3, <1>9
  <2>2. i \notin Heads(ls)
    BY <1>2, <2>1
  <2>3. QED
    BY <1>10, <2>1, <2>2 DEF Heads
<1>14. d = <<>> \/ d[1].is = "header"
  <2>1. CASE to = Len(ls)
    BY <1>1, <1>9, <2>1
  <2>2. CASE to # Len(ls)
    <3>1. 1 \in 1 .. Len(d)
      <4>1. PICK n \in Nat : n = Len(ls)
        BY <1>1, Zenon
      <4>2. to \in Nat /\ to <= n /\ to # n
        BY <1>6, <2>2, <4>1, Zenon
      <4>3. 1 \in 1 .. n - to
        BY <4>2
      <4>4. QED
        BY <1>9, <4>1, <4>3, Zenon
    <3>2. Len(a) + Len(b) + 1 = to + 1
      BY <1>3, <1>6, <1>9
    <3>3. QED
      BY <1>6, <1>10, <2>2, <3>1, <3>2
  <2>3. QED
    BY <2>1, <2>2
<1>15. Split(ls, a, b, d)
  BY <1>9, <1>11, <1>12, <1>13, <1>14 DEF Split, Section
<1>16. QED
  BY <1>15

NoSection(ls) == \A i \in 1 .. Len(ls) : ls[i].is = "header" => ls[i].of # "contextmaxxer"

\* A TOML file has a table once and a key of it once.
Tidy(ls) ==
  \/ NoSection(ls)
  \/ \E a, b, d : Split(ls, a, b, d) /\ NoSection(a) /\ NoSection(d) /\ \A k \in OurKeys : Sole(b, k)

LEMMA UnderElse ==
  ASSUME NEW ls \in Seq(LineRecs), NoSection(ls), NEW i \in 0 .. Len(ls)
  PROVE  H!Under(ls, i) # "contextmaxxer"
<1>1. CASE Headers(ls, i) = {}
  BY <1>1, UnderTop
<1>2. CASE Headers(ls, i) # {}
  <2>1. PICK h \in Headers(ls, i) : \A j \in Headers(ls, i) : j <= h
    BY <1>2, LastHeader
  <2>2. H!Under(ls, i) = ls[h].of
    BY <2>1, UnderLast
  <2>3. h \in 1 .. Len(ls) /\ ls[h].is = "header"
    BY DEF Headers
  <2>4. QED
    BY <2>2, <2>3 DEF NoSection
<1>3. QED
  BY <1>1, <1>2

LEMMA UnderHead ==
  ASSUME NEW b, Section(b), NEW i \in 1 .. Len(b)
  PROVE  Headers(b, i) # {} /\ H!Under(b, i) = "contextmaxxer"
<1>1. Len(b) \in Nat /\ b[1] = HeadLine /\ \A j \in 2 .. Len(b) : b[j].is # "header"
  BY DEF Section
<1>2. 1 \in Headers(b, i)
  BY <1>1, HeadLineIs DEF Headers
<1>3. ASSUME NEW j \in Headers(b, i) PROVE j <= 1
  <2>1. j \in 1 .. i /\ b[j].is = "header"
    BY DEF Headers
  <2>2. j \notin 2 .. Len(b)
    BY <1>1, <2>1
  <2>3. QED
    BY <1>1, <2>1, <2>2
<1>4. H!Under(b, i) = b[1].of
  BY <1>1, <1>2, <1>3, UnderLast
<1>5. QED
  BY <1>1, <1>2, <1>4, HeadLineIs

LEMMA SplitUnder ==
  ASSUME NEW ls, NEW a, NEW b, NEW d, Split(ls, a, b, d)
  PROVE  /\ \A i \in 1 .. Len(a) : H!Under(ls, i) = H!Under(a, i)
         /\ \A i \in 1 .. Len(b) : H!Under(ls, Len(a) + i) = "contextmaxxer"
         /\ \A i \in 1 .. Len(d) : H!Under(ls, Len(a) + Len(b) + i) = H!Under(d, i)
<1> DEFINE ab == a \o b
<1>1. a \in Seq(LineRecs) /\ b \in Seq(LineRecs) /\ d \in Seq(LineRecs) /\ ls = ab \o d
  BY SplitParts
<1>2. ab \in Seq(LineRecs) /\ Len(ab) = Len(a) + Len(b) /\ Len(a) \in Nat /\ Len(b) \in Nat
  BY <1>1, TwoParts
<1> HIDE DEF ab
<1>3. ASSUME NEW i \in 1 .. Len(a) PROVE H!Under(ls, i) = H!Under(a, i)
  <2>1. i \in 0 .. Len(ab) /\ i \in 0 .. Len(a)
    BY <1>2
  <2>2. H!Under(ls, i) = H!Under(ab, i)
    BY <1>1, <1>2, <2>1, UnderLeft
  <2>3. H!Under(ab, i) = H!Under(a, i)
    BY <1>1, <2>1, UnderLeft DEF ab
  <2>4. QED
    BY <2>2, <2>3
<1>4. ASSUME NEW i \in 1 .. Len(b) PROVE H!Under(ls, Len(a) + i) = "contextmaxxer"
  <2>1. Len(a) + i \in 0 .. Len(ab)
    BY <1>2
  <2>2. H!Under(ls, Len(a) + i) = H!Under(ab, Len(a) + i)
    BY <1>1, <1>2, <2>1, UnderLeft
  <2>3. H!Under(ab, Len(a) + i) = IF Headers(b, i) = {} THEN H!Under(a, Len(a)) ELSE H!Under(b, i)
    BY <1>1, UnderRight DEF ab
  <2>4. Headers(b, i) # {} /\ H!Under(b, i) = "contextmaxxer"
    BY UnderHead DEF Split
  <2>5. QED
    BY <2>2, <2>3, <2>4
<1>5. ASSUME NEW i \in 1 .. Len(d) PROVE H!Under(ls, Len(a) + Len(b) + i) = H!Under(d, i)
  <2>1. H!Under(ls, Len(ab) + i) = IF Headers(d, i) = {} THEN H!Under(ab, Len(ab)) ELSE H!Under(d, i)
    BY <1>1, <1>2, UnderRight
  <2>2. d # <<>> /\ Len(d) \in Nat
    BY <1>1
  <2>3. d[1].is = "header" /\ 1 \in 1 .. i
    BY <2>2 DEF Split
  <2>4. Headers(d, i) # {}
    BY <2>3 DEF Headers
  <2>5. QED
    BY <1>2, <2>1, <2>4
<1>6. QED
  BY <1>3, <1>4, <1>5

Values(ls, k) == {ls[i].val : i \in {i \in DOMAIN ls : H!Under(ls, i) = "contextmaxxer" /\ ls[i].of = k}}

\* What is in a section of contextmaxxer once, and is ours, is what is installed.
LEMMA SplitValues ==
  ASSUME NEW ls, NEW a, NEW b, NEW d, Split(ls, a, b, d), NoSection(a), NoSection(d), installed \in Nat,
         NEW k \in OurKeys, Sole(b, k), FirstKey(b, k)
  PROVE  Values(ls, k) = {installed}
<1>1. /\ a \in Seq(LineRecs) /\ b \in Seq(LineRecs) /\ d \in Seq(LineRecs) /\ ls \in Seq(LineRecs)
      /\ Len(ls) = Len(a) + Len(b) + Len(d)
      /\ \A i \in 1 .. Len(b) : ls[Len(a) + i] = b[i]
      /\ \A i \in 1 .. Len(ls) : \/ i \in 1 .. Len(a)
                                 \/ \E j \in 1 .. Len(b) : i = Len(a) + j
                                 \/ \E j \in 1 .. Len(d) : i = Len(a) + Len(b) + j
  BY SplitParts
<1>2. PICK n \in 1 .. Len(b) : b[n] = KeyLine(k)
  BY DEF FirstKey
<1>3. KeyLine(k).of = k /\ KeyLine(k).val = installed
  BY KeyLineIs
<1>4. Len(a) + n \in DOMAIN ls /\ ls[Len(a) + n] = KeyLine(k) /\ H!Under(ls, Len(a) + n) = "contextmaxxer"
  <2>1. Len(a) + n \in 1 .. Len(ls)
    BY <1>1
  <2>2. QED
    BY <1>1, <1>2, <2>1, SplitUnder
<1>5. ASSUME NEW i \in DOMAIN ls, H!Under(ls, i) = "contextmaxxer", ls[i].of = k PROVE ls[i].val = installed
  <2>1. i \in 1 .. Len(ls)
    BY <1>1
  <2>2. CASE i \in 1 .. Len(a)
    <3>1. H!Under(a, i) = "contextmaxxer" /\ i \in 0 .. Len(a)
      BY <1>5, <2>2, SplitUnder
    <3>2. QED
      BY <1>1, <3>1, UnderElse
  <2>3. CASE \E j \in 1 .. Len(b) : i = Len(a) + j
    <3>1. PICK j \in 1 .. Len(b) : i = Len(a) + j
      BY <2>3
    <3>2. b[j].of = k
      BY <1>1, <1>5, <3>1
    <3>3. n = j
      BY <1>2, <1>3, <3>2 DEF Sole
    <3>4. QED
      BY <1>1, <1>2, <1>3, <3>1, <3>3
  <2>4. CASE \E j \in 1 .. Len(d) : i = Len(a) + Len(b) + j
    <3>1. PICK j \in 1 .. Len(d) : i = Len(a) + Len(b) + j
      BY <2>4
    <3>2. H!Under(d, j) = "contextmaxxer" /\ j \in 0 .. Len(d)
      BY <1>5, <3>1, SplitUnder
    <3>3. QED
      BY <1>1, <3>2, UnderElse
  <2>5. QED
    BY <1>1, <2>1, <2>2, <2>3, <2>4
<1>6. QED
  BY <1>3, <1>4, <1>5 DEF Values

\* The lines that are not ours stay in their sections.
LEMMA SplitItems ==
  ASSUME NEW ls, NEW a, NEW b, NEW d, Split(ls, a, b, d), installed \in Nat
  PROVE  H!Items(H!Lines(ls)) \subseteq H!Items(H!Lines((a \o Both(b)) \o d))
<1> DEFINE u == Both(b)
           m == (a \o u) \o d
<1>1. Split(m, a, u, d)
  BY SplitAgain
<1>2. /\ Len(b) <= Len(u) /\ \A i \in 1 .. Len(b) : u[i] = b[i] \/ \E k \in OurKeys : IsKey(b[i], k)
  BY BothUpserted DEF Split
<1> HIDE DEF u, m
<1>3. /\ a \in Seq(LineRecs) /\ b \in Seq(LineRecs) /\ d \in Seq(LineRecs) /\ ls \in Seq(LineRecs)
      /\ Len(ls) = Len(a) + Len(b) + Len(d)
      /\ \A i \in 1 .. Len(a) : ls[i] = a[i]
      /\ \A i \in 1 .. Len(b) : ls[Len(a) + i] = b[i]
      /\ \A i \in 1 .. Len(d) : ls[Len(a) + Len(b) + i] = d[i]
      /\ \A i \in 1 .. Len(ls) : \/ i \in 1 .. Len(a)
                                 \/ \E j \in 1 .. Len(b) : i = Len(a) + j
                                 \/ \E j \in 1 .. Len(d) : i = Len(a) + Len(b) + j
  BY SplitParts
<1>4. /\ m \in Seq(LineRecs) /\ u \in Seq(LineRecs) /\ Len(m) = Len(a) + Len(u) + Len(d)
      /\ \A i \in 1 .. Len(a) : m[i] = a[i]
      /\ \A i \in 1 .. Len(u) : m[Len(a) + i] = u[i]
      /\ \A i \in 1 .. Len(d) : m[Len(a) + Len(u) + i] = d[i]
  BY <1>1, SplitParts
<1>5. /\ \A i \in 1 .. Len(a) : H!Under(ls, i) = H!Under(m, i)
      /\ \A i \in 1 .. Len(b) : H!Under(ls, Len(a) + i) = "contextmaxxer"
      /\ \A i \in 1 .. Len(u) : H!Under(m, Len(a) + i) = "contextmaxxer"
      /\ \A i \in 1 .. Len(d) : H!Under(ls, Len(a) + Len(b) + i) = H!Under(m, Len(a) + Len(u) + i)
  <2>1. /\ \A i \in 1 .. Len(a) : H!Under(ls, i) = H!Under(a, i)
        /\ \A i \in 1 .. Len(b) : H!Under(ls, Len(a) + i) = "contextmaxxer"
        /\ \A i \in 1 .. Len(d) : H!Under(ls, Len(a) + Len(b) + i) = H!Under(d, i)
    BY SplitUnder
  <2>2. /\ \A i \in 1 .. Len(a) : H!Under(m, i) = H!Under(a, i)
        /\ \A i \in 1 .. Len(u) : H!Under(m, Len(a) + i) = "contextmaxxer"
        /\ \A i \in 1 .. Len(d) : H!Under(m, Len(a) + Len(u) + i) = H!Under(d, i)
    BY <1>1, SplitUnder
  <2>3. QED
    BY <2>1, <2>2
<1>6. ASSUME NEW i \in DOMAIN ls, ~H!Ours(ls, i)
      PROVE  \E k \in DOMAIN m : m[k] = ls[i] /\ H!Under(m, k) = H!Under(ls, i)
  <2>1. i \in 1 .. Len(ls) /\ DOMAIN m = 1 .. Len(m)
    BY <1>3, <1>4
  <2>2. CASE i \in 1 .. Len(a)
    <3>1. i \in 1 .. Len(m)
      BY <1>3, <1>4, <2>2
    <3>2. QED
      BY <1>3, <1>4, <1>5, <2>1, <2>2, <3>1
  <2>3. CASE \E j \in 1 .. Len(b) : i = Len(a) + j
    <3>1. PICK j \in 1 .. Len(b) : i = Len(a) + j
      BY <2>3
    <3>2. ls[i] = b[j] /\ H!Under(ls, i) = "contextmaxxer"
      BY <1>3, <1>5, <3>1
    <3>3. \A k \in OurKeys : ~IsKey(b[j], k)
      BY <1>6, <3>2 DEF H!Ours, IsKey, OurKeys
    <3>4. u[j] = b[j] /\ j \in 1 .. Len(u)
      <4>1. Len(b) \in Nat /\ Len(u) \in Nat
        BY <1>3, <1>4
      <4>2. QED
        BY <1>2, <3>3, <4>1
    <3>5. i \in 1 .. Len(m)
      BY <1>3, <1>4, <3>1, <3>4
    <3>6. m[i] = ls[i] /\ H!Under(m, i) = H!Under(ls, i)
      BY <1>4, <1>5, <3>1, <3>2, <3>4
    <3>7. QED
      BY <2>1, <3>5, <3>6
  <2>4. CASE \E j \in 1 .. Len(d) : i = Len(a) + Len(b) + j
    <3>1. PICK j \in 1 .. Len(d) : i = Len(a) + Len(b) + j
      BY <2>4
    <3>2. Len(a) + Len(u) + j \in 1 .. Len(m)
      BY <1>3, <1>4
    <3>3. m[Len(a) + Len(u) + j] = ls[i] /\ H!Under(m, Len(a) + Len(u) + j) = H!Under(ls, i)
      BY <1>3, <1>4, <1>5, <3>1
    <3>4. QED
      BY <2>1, <3>2, <3>3
  <2>5. QED
    BY <1>3, <2>1, <2>2, <2>3, <2>4
<1>7. H!Items(H!Lines(ls)) \subseteq H!Items(H!Lines(m))
  BY <1>6, LinesKept
<1>8. QED
  BY <1>7 DEF m, u

LEMMA AddedSection ==
  ASSUME installed \in Nat
  PROVE  LET t == <<HeadLine, KeyLine("command"), KeyLine("args")>>
         IN Section(t) /\ Both(t) = t /\ \A k \in OurKeys : Sole(t, k) /\ FirstKey(t, k)
<1> DEFINE t == <<HeadLine, KeyLine("command"), KeyLine("args")>>
<1>1. /\ KeyLine("command") \in LineRecs /\ KeyLine("command").is = "key" /\ KeyLine("command").of = "command"
      /\ KeyLine("args") \in LineRecs /\ KeyLine("args").is = "key" /\ KeyLine("args").of = "args"
  BY KeyLineIs DEF OurKeys
<1>2. HeadLine \in LineRecs /\ HeadLine.is = "header" /\ HeadLine.of = "contextmaxxer"
  BY HeadLineIs
<1>3. /\ t \in Seq(LineRecs) /\ Len(t) = 3 /\ t[1] = HeadLine /\ t[2] = KeyLine("command") /\ t[3] = KeyLine("args")
  BY <1>1, <1>2
<1> HIDE DEF t
<1>4. \A i \in 1 .. Len(t) : i = 1 \/ i = 2 \/ i = 3
  BY <1>3
<1>5. Section(t)
  BY <1>1, <1>3 DEF Section
<1>6. FirstKey(t, "command")
  <2>1. 2 \in 1 .. Len(t) /\ \A j \in 1 .. 2 - 1 : ~IsKey(t[j], "command")
    BY <1>2, <1>3 DEF IsKey
  <2>2. QED
    BY <1>3, <2>1 DEF FirstKey
<1>7. FirstKey(t, "args")
  <2>1. 3 \in 1 .. Len(t) /\ \A j \in 1 .. 3 - 1 : j = 1 \/ j = 2
    BY <1>3
  <2>2. \A j \in 1 .. 3 - 1 : ~IsKey(t[j], "args")
    BY <1>1, <1>2, <1>3, <2>1 DEF IsKey
  <2>3. QED
    BY <1>3, <2>1, <2>2 DEF FirstKey
<1>8. Sole(t, "command") /\ Sole(t, "args")
  BY <1>1, <1>2, <1>3, <1>4 DEF Sole, IsKey
<1>9. H!upsertSectionLine(t, "command") = t /\ H!upsertSectionLine(t, "args") = t
  <2>1. "command" \in OurKeys /\ "args" \in OurKeys
    BY DEF OurKeys
  <2>2. QED
    BY <1>5, <1>6, <1>7, <2>1, Upserted
<1>10. Both(t) = t
  BY <1>9 DEF Both
<1>11. QED
  BY <1>5, <1>6, <1>7, <1>8, <1>10 DEF t, OurKeys

LEMMA NoHeads ==
  ASSUME NEW ls \in Seq(LineRecs), NoSection(ls)
  PROVE  Heads(ls) = {}
BY HeadLineIs DEF Heads, NoSection

\* Lines that come after all.
LEMMA LinesAdded ==
  ASSUME NEW ls \in Seq(LineRecs), NEW t \in Seq(LineRecs)
  PROVE  H!Items(H!Lines(ls)) \subseteq H!Items(H!Lines(ls \o t))
<1>1. /\ ls \o t \in Seq(LineRecs) /\ Len(ls \o t) = Len(ls) + Len(t) /\ \A i \in 1 .. Len(ls) : (ls \o t)[i] = ls[i]
  BY TwoParts
<1>2. ASSUME NEW i \in DOMAIN ls PROVE \E k \in DOMAIN (ls \o t) : (ls \o t)[k] = ls[i] /\ H!Under(ls \o t, k) = H!Under(ls, i)
  <2>1. i \in 1 .. Len(ls) /\ i \in 0 .. Len(ls) /\ i \in 1 .. Len(ls \o t)
    BY <1>1
  <2>2. H!Under(ls \o t, i) = H!Under(ls, i)
    BY <2>1, UnderLeft
  <2>3. QED
    BY <1>1, <2>1, <2>2
<1>3. QED
  BY <1>2, LinesKept

\* The section says what is installed, and the lines of others stay.
TomlWired(ls) == \A k \in OurKeys : Values(ls, k) = {installed}

LEMMA TomlKept ==
  ASSUME NEW ls \in Seq(LineRecs), Tidy(ls), installed \in Nat
  PROVE  LET m == H!appendCodexServer(ls)
         IN /\ m \in Seq(LineRecs) /\ Tidy(m) /\ H!appendCodexServer(m) = m /\ TomlWired(m)
            /\ H!Items(H!Lines(ls)) \subseteq H!Items(H!Lines(m))
<1>1. CASE NoSection(ls)
  <2> DEFINE t == <<HeadLine, KeyLine("command"), KeyLine("args")>>
             m == ls \o t
  <2>1. Section(t) /\ Both(t) = t /\ \A k \in OurKeys : Sole(t, k) /\ FirstKey(t, k)
    BY AddedSection
  <2>2. H!appendCodexServer(ls) = m
    BY <1>1, NoHeads, AppendIs
  <2> HIDE DEF t
  <2>3. t \in Seq(LineRecs)
    BY <2>1 DEF Section
  <2>4. m \in Seq(LineRecs) /\ (ls \o t) \o <<>> = m
    BY <2>3
  <2>5. Split(m, ls, t, <<>>)
    <3>1. \A i \in 1 .. Len(ls) : ls[i] # HeadLine
      BY <1>1, NoHeads DEF Heads
    <3>2. <<>> \in Seq(LineRecs)
      OBVIOUS
    <3>3. QED
      BY <2>1, <2>4, <3>1, <3>2 DEF Split
  <2>6. H!appendCodexServer(m) = m
    <3> HIDE DEF m
    <3>1. H!appendCodexServer(m) = (ls \o Both(t)) \o <<>>
      BY <2>5, SplitMerged
    <3>2. QED
      BY <2>1, <2>4, <3>1
  <2>7. NoSection(<<>>)
    BY DEF NoSection
  <2>8. Tidy(m)
    BY <1>1, <2>1, <2>5, <2>7 DEF Tidy
  <2>9. TomlWired(m)
    <3> HIDE DEF m
    <3>1. ASSUME NEW k \in OurKeys
          PROVE  Values(m, k) = {installed}
      <4>1. PICK none : none = <<>>
        OBVIOUS
      <4>2. Split(m, ls, t, none) /\ NoSection(none) /\ Sole(t, k) /\ FirstKey(t, k)
        BY <2>1, <2>5, <2>7, <4>1
      <4>3. QED
        BY <1>1, <4>2, SplitValues
    <3>2. QED
      BY <3>1 DEF TomlWired
  <2>10. H!Items(H!Lines(ls)) \subseteq H!Items(H!Lines(m))
    BY <2>3, LinesAdded
  <2> HIDE DEF m
  <2>11. QED
    BY <2>2, <2>4, <2>6, <2>8, <2>9, <2>10
<1>2. CASE \E a, b, d : Split(ls, a, b, d) /\ NoSection(a) /\ NoSection(d) /\ \A k \in OurKeys : Sole(b, k)
  <2>1. PICK a, b, d : Split(ls, a, b, d) /\ NoSection(a) /\ NoSection(d) /\ \A k \in OurKeys : Sole(b, k)
    BY <1>2
  <2> DEFINE u == Both(b)
             m == (a \o u) \o d
  <2>2. H!appendCodexServer(ls) = m
    BY <2>1, SplitMerged
  <2>3. Section(b)
    BY <2>1 DEF Split
  <2>4. Both(u) = u /\ \A k \in OurKeys : Sole(u, k) /\ FirstKey(u, k)
    BY <2>1, <2>3, BothUpserted
  <2>5. Split(m, a, u, d)
    BY <2>1, SplitAgain
  <2>6. H!Items(H!Lines(ls)) \subseteq H!Items(H!Lines(m))
    BY <2>1, SplitItems
  <2> HIDE DEF u
  <2>7. m \in Seq(LineRecs)
    BY <2>5, SplitParts
  <2>8. H!appendCodexServer(m) = m
    BY <2>4, <2>5, SplitMerged, SMTT(40)
  <2>9. Tidy(m)
    BY <2>1, <2>4, <2>5 DEF Tidy
  <2>10. TomlWired(m)
    <3> HIDE DEF m
    <3>1. ASSUME NEW k \in OurKeys
          PROVE  Values(m, k) = {installed}
      BY <2>1, <2>4, <2>5, SplitValues
    <3>2. QED
      BY <3>1 DEF TomlWired
  <2> HIDE DEF m
  <2>11. QED
    BY <2>2, <2>6, <2>7, <2>8, <2>9, <2>10
<1>3. QED
  BY <1>1, <1>2 DEF Tidy

\* What the user adds at the end of a file.
NewLine == H!Line("text", "new", 0)

LEMMA NewLineIs == NewLine \in LineRecs /\ NewLine.is = "text" /\ NewLine.of = "new"
BY LineIs DEF NewLine, Words

LEMMA StillNoSection ==
  ASSUME NEW ls \in Seq(LineRecs), NoSection(ls)
  PROVE  NoSection(Append(ls, NewLine))
<1>1. \A i \in 1 .. Len(Append(ls, NewLine)) : Append(ls, NewLine)[i] = NewLine \/ (i \in 1 .. Len(ls) /\ Append(ls, NewLine)[i] = ls[i])
  BY NewLineIs
<1>2. QED
  BY <1>1, NewLineIs DEF NoSection

LEMMA OneMore ==
  ASSUME NEW a \in Seq(LineRecs), NEW l \in LineRecs
  PROVE  /\ Append(a, l) \in Seq(LineRecs) /\ Len(Append(a, l)) = Len(a) + 1 /\ Append(a, l)[Len(a) + 1] = l
         /\ \A i \in 1 .. Len(a) : Append(a, l)[i] = a[i]
OBVIOUS

LEMMA AppendRight ==
  ASSUME NEW a \in Seq(LineRecs), NEW b \in Seq(LineRecs), NEW l \in LineRecs
  PROVE  Append(a \o b, l) = a \o Append(b, l)
<1> DEFINE ab == a \o b
           c == Append(b, l)
           ac == a \o c
           m == Append(ab, l)
<1>1. ab \in Seq(LineRecs) /\ Len(ab) = Len(a) + Len(b) /\ (\A i \in 1 .. Len(a) : ab[i] = a[i]) /\ \A i \in 1 .. Len(b) : ab[Len(a) + i] = b[i]
  BY TwoParts
<1>2. c \in Seq(LineRecs) /\ Len(c) = Len(b) + 1 /\ c[Len(b) + 1] = l /\ \A i \in 1 .. Len(b) : c[i] = b[i]
  OBVIOUS
<1> HIDE DEF c
<1>3. ac \in Seq(LineRecs) /\ Len(ac) = Len(a) + Len(c) /\ (\A i \in 1 .. Len(a) : ac[i] = a[i]) /\ \A i \in 1 .. Len(c) : ac[Len(a) + i] = c[i]
  BY <1>2, TwoParts
<1> HIDE DEF ab, ac
<1>4. m \in Seq(LineRecs) /\ Len(m) = Len(ab) + 1 /\ m[Len(ab) + 1] = l /\ \A i \in 1 .. Len(ab) : m[i] = ab[i]
  <2>1. ab \in Seq(LineRecs)
    BY <1>1
  <2>2. QED
    BY <2>1, OneMore
<1> HIDE DEF m
<1>5. Len(a) \in Nat /\ Len(b) \in Nat /\ Len(m) = Len(ac)
  BY <1>1, <1>2, <1>3, <1>4
<1>6. ASSUME NEW i \in 1 .. Len(m) PROVE m[i] = ac[i]
  <2>1. CASE i \in 1 .. Len(a)
    BY <1>1, <1>3, <1>4, <1>5, <2>1
  <2>2. CASE i - Len(a) \in 1 .. Len(b)
    <3>1. i = Len(a) + (i - Len(a)) /\ i \in 1 .. Len(ab) /\ i - Len(a) \in 1 .. Len(c)
      BY <1>1, <1>2, <1>5, <2>2
    <3>2. m[i] = b[i - Len(a)]
      BY <1>1, <1>4, <2>2, <3>1
    <3>3. ac[i] = b[i - Len(a)]
      BY <1>2, <1>3, <2>2, <3>1
    <3>4. QED
      BY <3>2, <3>3
  <2>3. CASE i = Len(a) + Len(b) + 1
    <3>1. i = Len(ab) + 1 /\ i = Len(a) + (Len(b) + 1) /\ Len(b) + 1 \in 1 .. Len(c)
      BY <1>1, <1>2, <1>5, <2>3
    <3>2. QED
      BY <1>2, <1>3, <1>4, <3>1
  <2>4. QED
    BY <1>1, <1>4, <1>5, <2>1, <2>2, <2>3
<1>7. m = ac
  BY <1>3, <1>4, <1>5, <1>6
<1>8. QED
  BY <1>7 DEF m, ac, ab, c

LEMMA StillTidy ==
  ASSUME NEW ls \in Seq(LineRecs), Tidy(ls)
  PROVE  Tidy(Append(ls, NewLine))
<1> DEFINE m == Append(ls, NewLine)
<1>1. CASE NoSection(ls)
  BY <1>1, StillNoSection DEF Tidy
<1>2. CASE \E a, b, d : Split(ls, a, b, d) /\ NoSection(a) /\ NoSection(d) /\ \A k \in OurKeys : Sole(b, k)
  <2>1. PICK a, b, d : Split(ls, a, b, d) /\ NoSection(a) /\ NoSection(d) /\ \A k \in OurKeys : Sole(b, k)
    BY <1>2
  <2>2. a \in Seq(LineRecs) /\ b \in Seq(LineRecs) /\ d \in Seq(LineRecs) /\ ls = (a \o b) \o d /\ Section(b)
    BY <2>1 DEF Split, Section
  <2>3. NewLine \in LineRecs /\ NewLine.is # "header" /\ \A k \in OurKeys : NewLine.of # k
    BY NewLineIs DEF OurKeys
  <2>4. CASE d = <<>>
    <3> DEFINE c == Append(b, NewLine)
    <3>1. a \o b \in Seq(LineRecs)
      BY <2>2, TwoParts
    <3>2. (a \o b) \o <<>> = a \o b
      BY <3>1
    <3>3. m = Append(a \o b, NewLine)
      BY <2>2, <2>4, <3>2
    <3>4. Append(a \o b, NewLine) = a \o c
      BY <2>2, <2>3, AppendRight
    <3>5. c \in Seq(LineRecs) /\ Len(c) = Len(b) + 1 /\ c[Len(b) + 1] = NewLine /\ \A i \in 1 .. Len(b) : c[i] = b[i]
      BY <2>2, <2>3
    <3> HIDE DEF c
    <3>6. Section(c)
      <4>1. Len(b) \in Nat /\ Len(b) >= 1 /\ b[1] = HeadLine /\ \A i \in 2 .. Len(b) : b[i].is # "header"
        BY <2>2 DEF Section
      <4>2. ASSUME NEW i \in 2 .. Len(c) PROVE c[i].is # "header"
        <5>1. i \in 2 .. Len(b) \/ i = Len(b) + 1
          BY <3>5, <4>1
        <5>2. i \in 2 .. Len(b) => i \in 1 .. Len(b)
          OBVIOUS
        <5>3. QED
          BY <2>3, <3>5, <4>1, <5>1, <5>2
      <4>3. c[1] = HeadLine /\ Len(c) >= 1
        BY <3>5, <4>1
      <4>4. QED
        BY <3>5, <4>2, <4>3 DEF Section
    <3>7. a \o c \in Seq(LineRecs) /\ (a \o c) \o <<>> = a \o c
      <4>1. a \o c \in Seq(LineRecs)
        BY <2>2, <3>5, TwoParts
      <4>2. QED
        BY <4>1
    <3>8. Split(m, a, c, <<>>)
      <4>1. \A i \in 1 .. Len(a) : a[i] # HeadLine
        BY <2>1 DEF Split
      <4>2. <<>> \in Seq(LineRecs)
        OBVIOUS
      <4> HIDE DEF m
      <4>3. m = (a \o c) \o <<>>
        BY <3>3, <3>4, <3>7
      <4>4. QED
        BY <2>2, <3>6, <4>1, <4>2, <4>3 DEF Split
    <3>9. \A k \in OurKeys : Sole(c, k)
      <4>1. \A i \in 1 .. Len(c) : i \in 1 .. Len(b) \/ i = Len(b) + 1
        BY <2>2, <3>5
      <4>2. \A k \in OurKeys : \A i \in 1 .. Len(c) : c[i].of = k => i \in 1 .. Len(b) /\ c[i] = b[i]
        BY <2>3, <3>5, <4>1
      <4>3. QED
        BY <2>1, <4>2 DEF Sole
    <3>10. NoSection(<<>>)
      BY DEF NoSection
    <3>11. QED
      BY <2>1, <3>8, <3>9, <3>10 DEF Tidy
  <2>5. CASE d # <<>>
    <3> DEFINE e == Append(d, NewLine)
               ab == a \o b
    <3>1. ab \in Seq(LineRecs)
      BY <2>2, TwoParts
    <3> HIDE DEF ab
    <3>2. Append(ab \o d, NewLine) = ab \o e
      BY <2>2, <2>3, <3>1, AppendRight
    <3>3. e \in Seq(LineRecs) /\ e[1] = d[1] /\ Len(d) >= 1
      BY <2>2, <2>3, <2>5
    <3>4. NoSection(e)
      BY <2>1, <2>2, StillNoSection
    <3> HIDE DEF e
    <3>5. m = (a \o b) \o e
      BY <2>2, <3>2 DEF ab
    <3>6. Split(m, a, b, e)
      <4>1. (\A i \in 1 .. Len(a) : a[i] # HeadLine) /\ e[1].is = "header"
        BY <2>1, <2>5, <3>3 DEF Split
      <4> HIDE DEF m
      <4>2. QED
        BY <2>2, <3>3, <3>5, <4>1 DEF Split
    <3>7. QED
      BY <2>1, <3>4, <3>6 DEF Tidy
  <2>6. QED
    BY <2>4, <2>5
<1>3. QED
  BY <1>1, <1>2 DEF Tidy

\* The same of the lines as they are.
TomlOnce(ls) ==
  /\ \A i \in DOMAIN ls : ls[i].is = "header" /\ ls[i].of = "contextmaxxer" => ls[i] = HeadLine
  /\ \A i, j \in Heads(ls) : i = j
  /\ \A k \in OurKeys, i, j \in DOMAIN ls :
       /\ H!Under(ls, i) = "contextmaxxer" /\ ls[i].of = k
       /\ H!Under(ls, j) = "contextmaxxer" /\ ls[j].of = k
       => i = j /\ ls[i].is = "key"

LEMMA TidyIf ==
  ASSUME NEW ls \in Seq(LineRecs), TomlOnce(ls)
  PROVE  Tidy(ls)
<1>1. CASE Heads(ls) = {}
  <2>1. NoSection(ls)
    BY <1>1 DEF TomlOnce, NoSection, Heads
  <2>2. QED
    BY <2>1 DEF Tidy
<1>2. CASE Heads(ls) # {}
  <2>1. PICK a, b, d : Split(ls, a, b, d)
    BY <1>2, HeadFound
  <2>2. /\ a \in Seq(LineRecs) /\ b \in Seq(LineRecs) /\ d \in Seq(LineRecs)
        /\ Len(ls) = Len(a) + Len(b) + Len(d) /\ Len(b) >= 1
        /\ \A i \in 1 .. Len(a) : ls[i] = a[i]
        /\ \A i \in 1 .. Len(b) : ls[Len(a) + i] = b[i]
        /\ \A i \in 1 .. Len(d) : ls[Len(a) + Len(b) + i] = d[i]
    BY <2>1, SplitParts
  <2>3. DOMAIN ls = 1 .. Len(ls) /\ Len(a) \in Nat /\ Len(b) \in Nat /\ Len(d) \in Nat
    BY <2>2
  <2>4. NoSection(a)
    <3>1. ASSUME NEW i \in 1 .. Len(a), a[i].is = "header", a[i].of = "contextmaxxer" PROVE FALSE
      <4>1. i \in DOMAIN ls /\ ls[i] = a[i]
        BY <2>2, <2>3
      <4>2. a[i] = HeadLine
        BY <3>1, <4>1 DEF TomlOnce
      <4>3. QED
        BY <2>1, <4>2 DEF Split
    <3>2. QED
      BY <3>1 DEF NoSection
  <2>5. NoSection(d)
    <3>1. ASSUME NEW i \in 1 .. Len(d), d[i].is = "header", d[i].of = "contextmaxxer" PROVE FALSE
      <4>1. Len(a) + Len(b) + i \in DOMAIN ls /\ ls[Len(a) + Len(b) + i] = d[i]
        BY <2>2, <2>3
      <4>2. Len(a) + Len(b) + i \in Heads(ls)
        BY <3>1, <4>1 DEF TomlOnce, Heads
      <4>3. Len(a) + 1 \in Heads(ls)
        <5>1. Len(a) + 1 \in DOMAIN ls /\ 1 \in 1 .. Len(b)
          BY <2>2, <2>3
        <5>2. b[1] = HeadLine
          BY <2>1 DEF Split, Section
        <5>3. QED
          BY <2>2, <5>1, <5>2 DEF Heads
      <4>4. Len(a) + Len(b) + i = Len(a) + 1
        BY <4>2, <4>3 DEF TomlOnce
      <4>5. QED
        BY <2>2, <2>3, <4>4
    <3>2. QED
      BY <3>1 DEF NoSection
  <2>6. ASSUME NEW k \in OurKeys PROVE Sole(b, k)
    <3>1. \A i \in 1 .. Len(b) : Len(a) + i \in DOMAIN ls /\ ls[Len(a) + i] = b[i] /\ H!Under(ls, Len(a) + i) = "contextmaxxer"
      <4>1. \A i \in 1 .. Len(b) : Len(a) + i \in DOMAIN ls
        BY <2>2, <2>3
      <4>2. QED
        BY <2>1, <2>2, <4>1, SplitUnder
    <3>2. ASSUME NEW i \in 1 .. Len(b), b[i].of = k, NEW j \in 1 .. Len(b), b[j].of = k PROVE j = i /\ IsKey(b[i], k)
      <4>1. Len(a) + i = Len(a) + j /\ IsKey(ls[Len(a) + i], k)
        BY <3>1, <3>2 DEF TomlOnce, IsKey
      <4>2. QED
        BY <2>3, <3>1, <4>1
    <3>3. QED
      BY <3>2 DEF Sole
  <2>7. QED
    BY <2>1, <2>4, <2>5, <2>6 DEF Tidy
<1>3. QED
  BY <1>1, <1>2

\* In a section that is there once, with a key of it once, TOML has what it asks.
LEMMA SplitValid ==
  ASSUME NEW ls, NEW a, NEW b, NEW d, Split(ls, a, b, d), NoSection(a), NoSection(d), \A k \in OurKeys : Sole(b, k)
  PROVE  H!ValidToml(ls)
<1>1. /\ a \in Seq(LineRecs) /\ b \in Seq(LineRecs) /\ d \in Seq(LineRecs) /\ ls \in Seq(LineRecs)
      /\ Len(ls) = Len(a) + Len(b) + Len(d)
      /\ \A i \in 1 .. Len(a) : ls[i] = a[i]
      /\ \A i \in 1 .. Len(b) : ls[Len(a) + i] = b[i]
      /\ \A i \in 1 .. Len(d) : ls[Len(a) + Len(b) + i] = d[i]
      /\ \A i \in 1 .. Len(ls) : \/ i \in 1 .. Len(a)
                                 \/ \E j \in 1 .. Len(b) : i = Len(a) + j
                                 \/ \E j \in 1 .. Len(d) : i = Len(a) + Len(b) + j
  BY SplitParts
<1>2. ASSUME NEW i \in 1 .. Len(ls), ls[i].is = "header", ls[i].of = "contextmaxxer" PROVE i = Len(a) + 1
  <2>1. CASE i \in 1 .. Len(a)
    BY <1>1, <1>2, <2>1 DEF NoSection
  <2>2. CASE \E j \in 1 .. Len(d) : i = Len(a) + Len(b) + j
    BY <1>1, <1>2, <2>2 DEF NoSection
  <2>3. CASE \E j \in 1 .. Len(b) : i = Len(a) + j
    <3>1. PICK j \in 1 .. Len(b) : i = Len(a) + j
      BY <2>3
    <3>2. b[j].is = "header"
      BY <1>1, <1>2, <3>1
    <3>3. j \notin 2 .. Len(b)
      BY <3>2 DEF Split, Section
    <3>4. Len(b) \in Nat
      BY <1>1
    <3>5. j = 1
      BY <3>3, <3>4
    <3>6. QED
      BY <3>1, <3>5
  <2>4. QED
    BY <1>1, <2>1, <2>2, <2>3
<1>3. ASSUME NEW k \in OurKeys, NEW i \in H!KeyLines(ls, k)
      PROVE  \E j \in 1 .. Len(b) : i = Len(a) + j /\ b[j].of = k /\ ls[i] = b[j]
  <2>1. i \in 1 .. Len(ls) /\ H!Under(ls, i) = "contextmaxxer" /\ ls[i].of = k
    BY DEF H!KeyLines
  <2>2. CASE i \in 1 .. Len(a)
    <3>1. H!Under(a, i) = "contextmaxxer" /\ i \in 0 .. Len(a)
      BY <1>1, <2>1, <2>2, SplitUnder
    <3>2. QED
      BY <1>1, <3>1, UnderElse
  <2>3. CASE \E j \in 1 .. Len(d) : i = Len(a) + Len(b) + j
    <3>1. PICK j \in 1 .. Len(d) : i = Len(a) + Len(b) + j
      BY <2>3
    <3>2. H!Under(d, j) = "contextmaxxer" /\ j \in 0 .. Len(d)
      BY <1>1, <2>1, <3>1, SplitUnder
    <3>3. QED
      BY <1>1, <3>2, UnderElse
  <2>4. CASE \E j \in 1 .. Len(b) : i = Len(a) + j
    BY <1>1, <2>1, <2>4
  <2>5. QED
    BY <1>1, <2>1, <2>2, <2>3, <2>4
<1>4. ASSUME NEW k \in OurKeys
      PROVE  /\ \A i, j \in H!KeyLines(ls, k) : i = j
             /\ \A i \in H!KeyLines(ls, k) : ls[i].is # "rest"
  <2>1. \A i \in 1 .. Len(b) : b[i].of = k => b[i].is # "rest" /\ \A j \in 1 .. Len(b) : b[j].of = k => j = i
    BY DEF Sole, IsKey
  <2>2. QED
    BY <1>3, <2>1
<1>5. DOMAIN ls = 1 .. Len(ls)
  <2>1. ls \in Seq(LineRecs)
    BY SplitParts
  <2>2. QED
    BY <2>1
<1>6. QED
  BY <1>2, <1>4, <1>5 DEF H!ValidToml, H!Once, OurKeys

LEMMA TidyValid ==
  ASSUME NEW ls \in Seq(LineRecs), Tidy(ls)
  PROVE  H!ValidToml(ls)
<1>1. CASE NoSection(ls)
  <2>1. \A i \in DOMAIN ls : ~(ls[i].is = "header" /\ ls[i].of = "contextmaxxer")
    BY <1>1 DEF NoSection
  <2>2. \A i \in DOMAIN ls : H!Under(ls, i) # "contextmaxxer"
    <3>1. \A i \in DOMAIN ls : i \in 0 .. Len(ls)
      OBVIOUS
    <3>2. QED
      BY <1>1, <3>1, UnderElse
  <2>3. \A k : H!KeyLines(ls, k) = {}
    BY <2>2 DEF H!KeyLines
  <2>4. QED
    BY <2>1, <2>3 DEF H!ValidToml, H!Once
<1>2. CASE \E a, b, d : Split(ls, a, b, d) /\ NoSection(a) /\ NoSection(d) /\ \A k \in OurKeys : Sole(b, k)
  BY <1>2, SplitValid
<1>3. QED
  BY <1>1, <1>2 DEF Tidy

-----------------------------------------------------------------------------
(* The marked block in a Markdown file.                                    *)

Opens(ls) == {i \in DOMAIN ls : ls[i] = H!StartMark}
Closes(ls, i) == {j \in DOMAIN ls : j > i /\ ls[j] = H!EndMark}

\* There is nothing but the rule between the marks.
Enclosed(ls) ==
  \A i, j \in DOMAIN ls :
    /\ ls[i] = H!StartMark /\ \A k \in 1 .. i - 1 : ls[k] # H!StartMark
    /\ i < j /\ ls[j] = H!EndMark /\ \A k \in i + 1 .. j - 1 : ls[k] # H!EndMark
    => \A k \in i + 1 .. j - 1 : ls[k].is \in {"mark", "rule"}

Framed(ls, a, d) ==
  a \in Seq(LineRecs) /\ d \in Seq(LineRecs) /\ ls = (a \o H!Block) \o d /\ \A i \in 1 .. Len(a) : a[i] # H!StartMark

HasBlock(ls) == \E i \in DOMAIN ls : SubSeq(ls, i, i + 2) = H!Block

LEMMA MarkedIs ==
  ASSUME NEW ls
  PROVE  H!appendMarkedBlock(ls) =
           LET from == H!Min(Opens(ls))
           IN IF H!StartMark \notin H!ToSet(ls) THEN H!Lines(ls \o H!Block)
              ELSE IF Closes(ls, from) = {} THEN H!Error
              ELSE H!Lines((SubSeq(ls, 1, from - 1) \o H!Block) \o SubSeq(ls, H!Min(Closes(ls, from)) + 1, Len(ls)))
BY Zenon DEF H!appendMarkedBlock, Opens, Closes

LEMMA OpensAre ==
  ASSUME NEW ls \in Seq(LineRecs)
  PROVE  H!StartMark \in H!ToSet(ls) <=> Opens(ls) # {}
BY DEF Opens, H!ToSet

LEMMA BlockIs ==
  ASSUME installed \in Nat
  PROVE  /\ H!Block \in Seq(LineRecs) /\ Len(H!Block) = 3
         /\ H!Block[1] = H!StartMark /\ H!Block[2].is = "rule" /\ H!Block[3] = H!EndMark
         /\ H!StartMark \in LineRecs /\ H!EndMark \in LineRecs
         /\ H!StartMark.is = "mark" /\ H!EndMark.is = "mark" /\ H!StartMark # H!EndMark
<1> DEFINE r == H!Line("rule", "ours", installed)
<1>1. r \in LineRecs /\ r.is = "rule"
  BY LineIs DEF Words
<1>2. H!StartMark \in LineRecs /\ H!StartMark.is = "mark" /\ H!StartMark.of = "start"
  BY LineIs DEF Words, H!StartMark
<1>3. H!EndMark \in LineRecs /\ H!EndMark.is = "mark" /\ H!EndMark.of = "end"
  BY LineIs DEF Words, H!EndMark
<1>4. H!Block = <<H!StartMark, r, H!EndMark>>
  BY DEF H!Block
<1> HIDE DEF r
<1>5. QED
  BY <1>1, <1>2, <1>3, <1>4

LEMMA FramedParts ==
  ASSUME NEW ls, NEW a, NEW d, Framed(ls, a, d), installed \in Nat
  PROVE  /\ Parts(ls, a, H!Block, d) /\ Len(a) \in Nat /\ Len(d) \in Nat /\ Len(ls) = Len(a) + 3 + Len(d)
         /\ ls[Len(a) + 1] = H!StartMark /\ ls[Len(a) + 2].is = "rule" /\ ls[Len(a) + 3] = H!EndMark
<1>1. H!Block \in Seq(LineRecs) /\ Len(H!Block) = 3 /\ H!Block[1] = H!StartMark /\ H!Block[2].is = "rule" /\ H!Block[3] = H!EndMark
  BY BlockIs
<1>2. a \in Seq(LineRecs) /\ d \in Seq(LineRecs) /\ ls = (a \o H!Block) \o d
  BY DEF Framed
<1>3. Parts(ls, a, H!Block, d)
  BY <1>1, <1>2, ThreeParts, Zenon
<1>4. ls[Len(a) + 1] = H!Block[1] /\ ls[Len(a) + 2] = H!Block[2] /\ ls[Len(a) + 3] = H!Block[3]
  <2>1. \A i \in 1 .. Len(H!Block) : ls[Len(a) + i] = H!Block[i]
    BY <1>3 DEF Parts
  <2>2. 1 \in 1 .. Len(H!Block) /\ 2 \in 1 .. Len(H!Block) /\ 3 \in 1 .. Len(H!Block)
    BY <1>1
  <2> HIDE DEF H!Block
  <2>3. QED
    BY <2>1, <2>2
<1>5. Len(a) \in Nat /\ Len(d) \in Nat
  BY <1>2
<1>6. Len(ls) = Len(a) + 3 + Len(d)
  BY <1>1, <1>3 DEF Parts
<1>7. QED
  BY <1>1, <1>3, <1>4, <1>5, <1>6

\* A block that is there is replaced by itself.
LEMMA FramedAgain ==
  ASSUME NEW ls, NEW a, NEW d, Framed(ls, a, d), installed \in Nat
  PROVE  H!appendMarkedBlock(ls) = H!Lines(ls) /\ Enclosed(ls) /\ HasBlock(ls) /\ ls \in Seq(LineRecs)
<1>1. /\ Parts(ls, a, H!Block, d) /\ Len(a) \in Nat /\ Len(d) \in Nat /\ Len(ls) = Len(a) + 3 + Len(d)
      /\ ls[Len(a) + 1] = H!StartMark /\ ls[Len(a) + 2].is = "rule" /\ ls[Len(a) + 3] = H!EndMark
  BY FramedParts
<1>2. ls \in Seq(LineRecs) /\ \A i \in 1 .. Len(a) : ls[i] # H!StartMark
  BY <1>1 DEF Parts, Framed
<1>3. DOMAIN ls = 1 .. Len(ls) /\ Len(a) + 1 \in 1 .. Len(ls) /\ Len(a) + 2 \in 1 .. Len(ls) /\ Len(a) + 3 \in 1 .. Len(ls)
  BY <1>1, <1>2
<1>4. ls[Len(a) + 2] # H!EndMark /\ ls[Len(a) + 1] # H!EndMark
  BY <1>1, BlockIs
<1>5. H!Min(Opens(ls)) = Len(a) + 1 /\ Opens(ls) # {}
  <2>1. Opens(ls) \in SUBSET Nat /\ Len(a) + 1 \in Opens(ls)
    BY <1>1, <1>3 DEF Opens
  <2>2. \A y \in Opens(ls) : Len(a) + 1 <= y
    BY <1>1, <1>2, <1>3 DEF Opens
  <2>3. QED
    BY <2>1, <2>2, LeastIs
<1>6. H!Min(Closes(ls, Len(a) + 1)) = Len(a) + 3 /\ Closes(ls, Len(a) + 1) # {}
  <2>1. Closes(ls, Len(a) + 1) \in SUBSET Nat /\ Len(a) + 3 \in Closes(ls, Len(a) + 1)
    BY <1>1, <1>3 DEF Closes
  <2>2. ASSUME NEW y \in Closes(ls, Len(a) + 1) PROVE Len(a) + 3 <= y
    <3>1. y \in Nat /\ y > Len(a) + 1 /\ y # Len(a) + 2
      BY <1>3, <1>4, <2>1 DEF Closes
    <3>2. QED
      BY <1>1, <3>1
  <2>3. QED
    BY <2>1, <2>2, LeastIs
<1>7. a \in Seq(LineRecs) /\ d \in Seq(LineRecs) /\ H!Block \in Seq(LineRecs) /\ Len(H!Block) = 3 /\ ls = (a \o H!Block) \o d
  BY BlockIs DEF Framed
<1>8. /\ SubSeq(ls, 1, Len(a)) = a /\ SubSeq(ls, Len(a) + 1, Len(a) + Len(H!Block)) = H!Block
      /\ SubSeq(ls, Len(a) + Len(H!Block) + 1, Len(ls)) = d
  <2>1. PICK b : b = H!Block
    OBVIOUS
  <2>2. a \in Seq(LineRecs) /\ b \in Seq(LineRecs) /\ d \in Seq(LineRecs) /\ ls = (a \o b) \o d
    BY <1>7, <2>1
  <2>3. /\ SubSeq(ls, 1, Len(a)) = a /\ SubSeq(ls, Len(a) + 1, Len(a) + Len(b)) = b
        /\ SubSeq(ls, Len(a) + Len(b) + 1, Len(ls)) = d
    BY <2>2, PartsAre
  <2>4. QED
    BY <2>1, <2>3
<1>9. (Len(a) + 1) - 1 = Len(a) /\ (Len(a) + 3) + 1 = Len(a) + Len(H!Block) + 1 /\ (Len(a) + 1) + 2 = Len(a) + Len(H!Block)
  BY <1>1, <1>7
<1>10. H!appendMarkedBlock(ls) = H!Lines((SubSeq(ls, 1, (Len(a) + 1) - 1) \o H!Block) \o SubSeq(ls, (Len(a) + 3) + 1, Len(ls)))
  BY <1>2, <1>5, <1>6, MarkedIs, OpensAre
<1>11. H!appendMarkedBlock(ls) = H!Lines(ls)
  BY <1>7, <1>8, <1>9, <1>10
<1>12. HasBlock(ls)
  BY <1>3, <1>8, <1>9 DEF HasBlock
<1>13. Enclosed(ls)
  <2>1. ASSUME NEW i \in DOMAIN ls, NEW j \in DOMAIN ls, ls[i] = H!StartMark, \A k \in 1 .. i - 1 : ls[k] # H!StartMark,
               i < j, ls[j] = H!EndMark, \A k \in i + 1 .. j - 1 : ls[k] # H!EndMark,
               NEW k \in i + 1 .. j - 1
        PROVE  ls[k].is \in {"mark", "rule"}
    <3>1. i \in Nat /\ j \in Nat /\ k \in Int
      BY <1>3, <2>1
    <3>2. i = Len(a) + 1
      <4>1. ~(i <= Len(a))
        BY <1>2, <2>1, <3>1, <1>3
      <4>2. ~(Len(a) + 1 < i)
        <5>1. SUFFICES ASSUME Len(a) + 1 < i PROVE FALSE
          OBVIOUS
        <5>2. Len(a) + 1 \in 1 .. i - 1
          BY <1>1, <3>1, <5>1, SMTT(40)
        <5>3. QED
          BY <1>1, <2>1, <5>2
      <4>3. QED
        BY <1>1, <3>1, <4>1, <4>2
    <3>3. ~(Len(a) + 3 < j)
      <4>1. SUFFICES ASSUME Len(a) + 3 < j PROVE FALSE
        OBVIOUS
      <4>2. Len(a) + 3 \in i + 1 .. j - 1
        BY <1>1, <3>1, <3>2, <4>1
      <4>3. QED
        BY <1>1, <2>1, <4>2
    <3>4. k = Len(a) + 2
      BY <1>1, <2>1, <3>1, <3>2, <3>3
    <3>5. QED
      BY <1>1, <3>4
  <2>2. QED
    BY <2>1 DEF Enclosed
<1>14. QED
  BY <1>2, <1>11, <1>12, <1>13

\* Lines of ours in the middle say nothing of where the others are.
AllOurs(b) == b \in Seq(LineRecs) /\ Len(b) >= 1 /\ \A i \in 1 .. Len(b) : b[i].is \in {"mark", "rule"}
Around(ls, a, b, d) ==
  /\ \A i \in 1 .. Len(a) : H!Under(ls, i) = H!Under(a, i)
  /\ \A i \in 1 .. Len(d) :
       H!Under(ls, Len(a) + Len(b) + i) = IF Headers(d, i) = {} THEN H!Under(a, Len(a)) ELSE H!Under(d, i)

LEMMA UnderAround ==
  ASSUME NEW a \in Seq(LineRecs), NEW b, AllOurs(b), NEW d \in Seq(LineRecs)
  PROVE  Around((a \o b) \o d, a, b, d)
<1> DEFINE ab == a \o b
           ls == ab \o d
<1>0. b \in Seq(LineRecs)
  BY DEF AllOurs
<1>1. ab \in Seq(LineRecs) /\ Len(ab) = Len(a) + Len(b) /\ Len(a) \in Nat /\ Len(b) \in Nat /\ Len(b) >= 1
  BY <1>0, TwoParts DEF AllOurs
<1>2. Headers(b, Len(b)) = {}
  BY DEF Headers, AllOurs
<1>3. Len(b) \in 1 .. Len(b)
  BY <1>1
<1>4. H!Under(ab, Len(a) + Len(b)) = H!Under(a, Len(a))
  BY <1>0, <1>2, <1>3, UnderRight
<1>5. ASSUME NEW i \in 1 .. Len(a) PROVE H!Under(ab, i) = H!Under(a, i)
  <2>1. i \in 0 .. Len(a)
    OBVIOUS
  <2>2. QED
    BY <1>0, <2>1, UnderLeft
<1> HIDE DEF ab
<1>7. ASSUME NEW i \in 1 .. Len(a) PROVE H!Under(ls, i) = H!Under(a, i)
  <2>1. i \in 0 .. Len(ab)
    BY <1>1
  <2>2. H!Under(ls, i) = H!Under(ab, i)
    BY <1>1, <2>1, UnderLeft
  <2>3. QED
    BY <1>5, <2>2
<1>8. ASSUME NEW i \in 1 .. Len(d)
      PROVE  H!Under(ls, Len(a) + Len(b) + i) = IF Headers(d, i) = {} THEN H!Under(a, Len(a)) ELSE H!Under(d, i)
  <2>1. H!Under(ls, Len(ab) + i) = IF Headers(d, i) = {} THEN H!Under(ab, Len(ab)) ELSE H!Under(d, i)
    BY <1>1, UnderRight
  <2>2. QED
    BY <1>1, <1>4, <2>1
<1> HIDE DEF ls
<1>9. Around(ls, a, b, d)
  BY <1>7, <1>8 DEF Around
<1>10. QED
  BY <1>9 DEF ls, ab

\* Lines of ours are replaced: those of the user stay.
LEMMA OursReplaced ==
  ASSUME NEW a \in Seq(LineRecs), NEW d \in Seq(LineRecs), NEW b, AllOurs(b), NEW u, AllOurs(u)
  PROVE  H!Items(H!Lines((a \o b) \o d)) \subseteq H!Items(H!Lines((a \o u) \o d))
<1> DEFINE ls == (a \o b) \o d
           m == (a \o u) \o d
<1>1. b \in Seq(LineRecs) /\ u \in Seq(LineRecs) /\ \A i \in 1 .. Len(b) : b[i].is \in {"mark", "rule"}
  BY DEF AllOurs
<1>2. Parts(ls, a, b, d) /\ Parts(m, a, u, d)
  BY <1>1, ThreeParts, Zenon
<1>3. Around(ls, a, b, d) /\ Around(m, a, u, d)
  BY UnderAround
<1> HIDE DEF ls, m
<1>4. Len(a) \in Nat /\ Len(b) \in Nat /\ Len(d) \in Nat /\ Len(u) \in Nat
  BY <1>1
<1>5. DOMAIN ls = 1 .. Len(ls) /\ DOMAIN m = 1 .. Len(m) /\ Len(m) = Len(a) + Len(u) + Len(d)
  BY <1>2 DEF Parts
<1>6. ASSUME NEW i \in DOMAIN ls, ~H!Ours(ls, i)
      PROVE  \E k \in DOMAIN m : m[k] = ls[i] /\ H!Under(m, k) = H!Under(ls, i)
  <2>1. CASE i \in 1 .. Len(a)
    <3>1. i \in DOMAIN m
      BY <1>4, <1>5, <2>1
    <3>2. m[i] = ls[i] /\ H!Under(m, i) = H!Under(ls, i)
      BY <1>2, <1>3, <2>1 DEF Parts, Around
    <3>3. QED
      BY <3>1, <3>2
  <2>2. CASE \E j \in 1 .. Len(b) : i = Len(a) + j
    <3>1. PICK j \in 1 .. Len(b) : i = Len(a) + j
      BY <2>2
    <3>2. ls[i] = b[j]
      BY <1>2, <3>1 DEF Parts
    <3>3. H!Ours(ls, i)
      BY <1>1, <3>2 DEF H!Ours
    <3>4. QED
      BY <1>6, <3>3
  <2>3. CASE \E j \in 1 .. Len(d) : i = Len(a) + Len(b) + j
    <3>1. PICK j \in 1 .. Len(d) : i = Len(a) + Len(b) + j
      BY <2>3
    <3>2. Len(a) + Len(u) + j \in DOMAIN m
      BY <1>4, <1>5
    <3>3. m[Len(a) + Len(u) + j] = d[j] /\ ls[i] = d[j]
      BY <1>2, <3>1 DEF Parts
    <3>4. H!Under(m, Len(a) + Len(u) + j) = H!Under(ls, i)
      BY <1>3, <3>1 DEF Around
    <3>5. QED
      BY <3>2, <3>3, <3>4
  <2>4. i \in 1 .. Len(a) \/ (\E j \in 1 .. Len(b) : i = Len(a) + j) \/ \E j \in 1 .. Len(d) : i = Len(a) + Len(b) + j
    BY <1>2, <1>5 DEF Parts
  <2>5. QED
    BY <2>1, <2>2, <2>3, <2>4
<1>7. H!Items(H!Lines(ls)) \subseteq H!Items(H!Lines(m))
  BY <1>6, LinesKept
<1>8. QED
  BY <1>7 DEF ls, m

\* The block is there, with the rule of now, and the lines of the user stay.
BlockMerged(ls, t) ==
  /\ t \in Seq(LineRecs) /\ Enclosed(t) /\ HasBlock(t)
  /\ H!appendMarkedBlock(ls) = H!Lines(t) /\ H!appendMarkedBlock(t) = H!Lines(t)
  /\ H!Items(H!Lines(ls)) \subseteq H!Items(H!Lines(t))

LEMMA AgentsKept ==
  ASSUME NEW ls \in Seq(LineRecs), Enclosed(ls), installed \in Nat
  PROVE  H!appendMarkedBlock(ls) = H!Error \/ \E t : BlockMerged(ls, t)
<1>1. PICK blk : blk = H!Block
  OBVIOUS
<1>2. /\ blk \in Seq(LineRecs) /\ Len(blk) = 3 /\ blk[1].is = "mark" /\ blk[2].is = "rule" /\ blk[3].is = "mark"
  BY <1>1, BlockIs
<1>3. \A i \in 1 .. Len(blk) : blk[i].is \in {"mark", "rule"}
  <2>1. \A i \in 1 .. Len(blk) : i = 1 \/ i = 2 \/ i = 3
    BY <1>2
  <2>2. QED
    BY <1>2, <2>1
<1>4. AllOurs(blk)
  BY <1>2, <1>3 DEF AllOurs
<1>5. CASE H!StartMark \notin H!ToSet(ls)
  <2> DEFINE t == (ls \o blk) \o <<>>
  <2>1. t \in Seq(LineRecs) /\ t = ls \o blk
    BY <1>2
  <2>2. H!appendMarkedBlock(ls) = H!Lines(ls \o blk)
    BY <1>1, <1>5, MarkedIs
  <2>3. \A i \in 1 .. Len(ls) : ls[i] # H!StartMark
    BY <1>5, OpensAre DEF Opens
  <2>4. H!Items(H!Lines(ls)) \subseteq H!Items(H!Lines(ls \o blk))
    BY <1>2, LinesAdded
  <2> HIDE DEF t
  <2>5. Framed(t, ls, <<>>)
    <3>1. <<>> \in Seq(LineRecs)
      OBVIOUS
    <3>2. t = (ls \o H!Block) \o <<>>
      BY <1>1 DEF t
    <3>3. QED
      BY <2>3, <3>1, <3>2 DEF Framed
  <2>6. H!appendMarkedBlock(t) = H!Lines(t) /\ Enclosed(t) /\ HasBlock(t)
    BY <2>5, FramedAgain
  <2>7. BlockMerged(ls, t)
    BY <2>1, <2>2, <2>4, <2>6 DEF BlockMerged
  <2>8. QED
    BY <2>7
<1>6. CASE H!StartMark \in H!ToSet(ls) /\ Closes(ls, H!Min(Opens(ls))) = {}
  BY <1>6, MarkedIs
<1>7. CASE H!StartMark \in H!ToSet(ls) /\ Closes(ls, H!Min(Opens(ls))) # {}
  <2> DEFINE from == H!Min(Opens(ls))
             to == H!Min(Closes(ls, from))
             a == SubSeq(ls, 1, from - 1)
             b == SubSeq(ls, from, to)
             d == SubSeq(ls, to + 1, Len(ls))
             t == (a \o blk) \o d
  <2>1. H!appendMarkedBlock(ls) = H!Lines(t)
    BY <1>1, <1>7, MarkedIs
  <2>2. from \in Opens(ls) /\ \A y \in Opens(ls) : from <= y
    <3>1. Opens(ls) \in SUBSET Nat /\ Opens(ls) # {}
      BY <1>7, OpensAre DEF Opens
    <3>2. QED
      BY <3>1, LeastOf
  <2> HIDE DEF from
  <2>3. to \in Closes(ls, from) /\ \A y \in Closes(ls, from) : to <= y
    <3>1. Closes(ls, from) \in SUBSET Nat /\ Closes(ls, from) # {}
      BY <1>7 DEF Closes, from
    <3>2. QED
      BY <3>1, LeastOf
  <2> HIDE DEF to
  <2>4. /\ from \in 1 .. Len(ls) /\ ls[from] = H!StartMark /\ to \in 1 .. Len(ls) /\ to > from /\ ls[to] = H!EndMark
        /\ Len(ls) \in Nat
    BY <2>2, <2>3 DEF Opens, Closes
  <2>5. \A k \in 1 .. from - 1 : ls[k] # H!StartMark
    <3>1. ASSUME NEW k \in 1 .. from - 1 PROVE ls[k] # H!StartMark
      <4>1. k \in 1 .. Len(ls) /\ ~(from <= k)
        BY <2>4
      <4>2. QED
        BY <2>2, <4>1 DEF Opens
    <3>2. QED
      BY <3>1
  <2>6. \A k \in from + 1 .. to - 1 : ls[k] # H!EndMark
    <3>1. ASSUME NEW k \in from + 1 .. to - 1 PROVE ls[k] # H!EndMark
      <4>1. k \in 1 .. Len(ls) /\ ~(to <= k) /\ k > from
        BY <2>4
      <4>2. QED
        BY <2>3, <4>1 DEF Closes
    <3>2. QED
      BY <3>1
  <2>7. \A k \in from + 1 .. to - 1 : ls[k].is \in {"mark", "rule"}
    <3>1. from \in DOMAIN ls /\ to \in DOMAIN ls /\ from < to
      BY <2>4
    <3>2. QED
      BY <2>4, <2>5, <2>6, <3>1 DEF Enclosed
  <2>8. from - 1 \in Nat /\ from - 1 <= to /\ (from - 1) + 1 = from /\ to \in Nat /\ to <= Len(ls)
    BY <2>4
  <2>9. /\ a \in Seq(LineRecs) /\ b \in Seq(LineRecs) /\ d \in Seq(LineRecs) /\ ls = (a \o b) \o d
        /\ Len(a) = from - 1 /\ Len(b) = to - (from - 1) /\ Len(d) = Len(ls) - to
    <3>1. LET p == SubSeq(ls, 1, from - 1)
              q == SubSeq(ls, (from - 1) + 1, to)
              r == SubSeq(ls, to + 1, Len(ls))
          IN /\ p \in Seq(LineRecs) /\ q \in Seq(LineRecs) /\ r \in Seq(LineRecs) /\ ls = (p \o q) \o r
             /\ Len(p) = from - 1 /\ Len(q) = to - (from - 1) /\ Len(r) = Len(ls) - to
      BY <2>8, PartsOf
    <3>2. QED
      BY <2>8, <3>1
  <2> HIDE DEF a, b, d
  <2>10. Parts(ls, a, b, d)
    BY <2>9, ThreeParts, Zenon
  <2>11. Len(b) >= 1 /\ \A i \in 1 .. Len(b) : b[i].is \in {"mark", "rule"}
    <3>1. Len(b) >= 1
      BY <2>4, <2>9
    <3>2. ASSUME NEW i \in 1 .. Len(b) PROVE b[i].is \in {"mark", "rule"}
      <4>1. b[i] = ls[Len(a) + i]
        BY <2>10 DEF Parts
      <4>2. Len(a) + i = from \/ Len(a) + i = to \/ Len(a) + i \in from + 1 .. to - 1
        BY <2>4, <2>9
      <4>3. H!StartMark.is = "mark" /\ H!EndMark.is = "mark"
        BY BlockIs
      <4>4. QED
        BY <2>4, <2>7, <4>1, <4>2, <4>3
    <3>3. QED
      BY <3>1, <3>2
  <2>12. \A i \in 1 .. Len(a) : a[i] # H!StartMark
    <3>1. \A i \in 1 .. Len(a) : ls[i] = a[i] /\ i \in 1 .. from - 1
      BY <2>9, <2>10 DEF Parts
    <3>2. QED
      BY <2>5, <3>1
  <2>13. H!Items(H!Lines(ls)) \subseteq H!Items(H!Lines(t))
    <3>1. AllOurs(b)
      BY <2>9, <2>11 DEF AllOurs
    <3>2. H!Items(H!Lines((a \o b) \o d)) \subseteq H!Items(H!Lines((a \o blk) \o d))
      BY <1>4, <2>9, <3>1, OursReplaced
    <3>3. QED
      BY <2>9, <3>2
  <2>14. t = (a \o H!Block) \o d
    BY <1>1
  <2> HIDE DEF t
  <2>15. Framed(t, a, d)
    BY <2>9, <2>12, <2>14 DEF Framed
  <2>16. H!appendMarkedBlock(t) = H!Lines(t) /\ Enclosed(t) /\ HasBlock(t) /\ t \in Seq(LineRecs)
    BY <2>15, FramedAgain
  <2>17. BlockMerged(ls, t)
    BY <2>1, <2>13, <2>16 DEF BlockMerged
  <2>18. QED
    BY <2>17
<1>8. QED
  BY <1>5, <1>6, <1>7

LEMMA StillEnclosed ==
  ASSUME NEW ls \in Seq(LineRecs), Enclosed(ls)
  PROVE  Enclosed(Append(ls, NewLine))
<1> DEFINE m == Append(ls, NewLine)
<1>1. NewLine # H!StartMark /\ NewLine # H!EndMark /\ NewLine \in LineRecs
  <2>1. H!StartMark.is = "mark" /\ H!EndMark.is = "mark"
    BY LineIs DEF Words, H!StartMark, H!EndMark
  <2>2. QED
    BY <2>1, NewLineIs
<1>2. m \in Seq(LineRecs) /\ Len(m) = Len(ls) + 1 /\ m[Len(ls) + 1] = NewLine /\ \A i \in 1 .. Len(ls) : m[i] = ls[i]
  BY <1>1, OneMore
<1> HIDE DEF m
<1>3. ASSUME NEW i \in DOMAIN m, NEW j \in DOMAIN m, m[i] = H!StartMark, \A k \in 1 .. i - 1 : m[k] # H!StartMark,
             i < j, m[j] = H!EndMark, \A k \in i + 1 .. j - 1 : m[k] # H!EndMark,
             NEW k \in i + 1 .. j - 1
      PROVE  m[k].is \in {"mark", "rule"}
  <2>1. i \in 1 .. Len(ls) + 1 /\ j \in 1 .. Len(ls) + 1 /\ Len(ls) \in Nat
    BY <1>2
  <2>2. i # Len(ls) + 1 /\ j # Len(ls) + 1
    BY <1>1, <1>2, <1>3
  <2>3. i \in 1 .. Len(ls) /\ j \in 1 .. Len(ls) /\ i \in DOMAIN ls /\ j \in DOMAIN ls
    BY <2>1, <2>2
  <2>4. \A n \in 1 .. j : m[n] = ls[n]
    BY <1>2, <2>3
  <2>5. ls[i] = H!StartMark /\ ls[j] = H!EndMark
    BY <1>2, <1>3, <2>3
  <2>6. \A n \in 1 .. i - 1 : ls[n] # H!StartMark
    <3>1. \A n \in 1 .. i - 1 : n \in 1 .. j
      BY <1>3, <2>3
    <3>2. QED
      BY <1>3, <2>4, <3>1
  <2>7. \A n \in i + 1 .. j - 1 : n \in 1 .. j
    BY <2>3
  <2>8. \A n \in i + 1 .. j - 1 : ls[n] # H!EndMark
    BY <1>3, <2>4, <2>7
  <2>9. ls[k].is \in {"mark", "rule"}
    BY <1>3, <2>3, <2>5, <2>6, <2>8 DEF Enclosed
  <2>10. QED
    BY <1>3, <2>4, <2>7, <2>9
<1>4. Enclosed(m)
  BY <1>3 DEF Enclosed
<1>5. QED
  BY <1>4 DEF m

\* The line of .gitignore is added once.
IgnoreLine == H!Line("text", "contextmaxxer", 0)

LEMMA IgnoreKept ==
  ASSUME NEW ls \in Seq(LineRecs)
  PROVE  LET m == H!EnsureGitignore(ls)
         IN m \in Seq(LineRecs) /\ H!EnsureGitignore(m) = m /\ H!Items(H!Lines(ls)) \subseteq H!Items(H!Lines(m))
<1>1. IgnoreLine \in LineRecs /\ IgnoreLine.of = "contextmaxxer"
  BY LineIs DEF IgnoreLine, Words
<1>2. CASE H!EnsureGitignore(ls) = ls
  BY <1>2
<1>3. CASE H!EnsureGitignore(ls) = Append(ls, IgnoreLine)
  <2> DEFINE m == Append(ls, IgnoreLine)
  <2>1. m \in Seq(LineRecs) /\ Len(m) = Len(ls) + 1 /\ m[Len(ls) + 1] = IgnoreLine
    BY <1>1, OneMore
  <2>2. m = ls \o <<IgnoreLine>> /\ <<IgnoreLine>> \in Seq(LineRecs)
    BY <1>1
  <2>3. H!Items(H!Lines(ls)) \subseteq H!Items(H!Lines(m))
    BY <2>2, LinesAdded
  <2> HIDE DEF m
  <2>4. Len(ls) + 1 \in DOMAIN m
    BY <2>1
  <2>5. H!EnsureGitignore(m) = m
    BY <1>1, <2>1, <2>4 DEF H!EnsureGitignore
  <2>6. H!EnsureGitignore(ls) = m
    BY <1>3 DEF m
  <2>7. QED
    BY <2>1, <2>3, <2>5, <2>6
<1>4. H!EnsureGitignore(ls) = ls \/ H!EnsureGitignore(ls) = Append(ls, IgnoreLine)
  BY DEF H!EnsureGitignore, IgnoreLine
<1>5. QED
  BY <1>2, <1>3, <1>4

-----------------------------------------------------------------------------
(* What each writer makes of a file.                                       *)

Hosts == {"claude-code", "cursor", "codex"}
JsonFiles == H!ServerFiles \union H!HookFiles

\* What is in file f is what may be there: a JSON object with servers where the
\* servers should be, TOML that is valid, and nothing but the rule in the block.
Fine(f, c) ==
  /\ c \in {H!Absent, H!Empty, H!Cut} \/ (f \in JsonFiles /\ c \in JsonDocs /\ ~c.odd)
     \/ (f \notin JsonFiles /\ c.is = "lines" /\ c = H!Lines(c.lines) /\ c.lines \in Seq(LineRecs))
  /\ f = "~/.codex/config.toml" => Tidy(H!ReadLines(c))
  /\ f = "AGENTS.md" => Enclosed(H!ReadLines(c))

\* File f starts the program that is installed.
Starter(f, c) ==
  /\ f \in H!ServerFiles => {s.bin : s \in {s \in c.servers : s.name = "contextmaxxer"}} = {installed}
  /\ f = ".claude/settings.json" =>
       HooksOf(c, "PreToolUse", "pre-search") /\ HooksOf(c, "PostToolUse", "post-find") /\ HooksOf(c, "PostToolUse", "post-search")
  /\ f = ".cursor/hooks.json" => HooksOf(c, "beforeShellExecution", "search-signal")
  /\ f = ".codex/hooks.json" => HooksOf(c, "PreToolUse", "search-signal")
  /\ f = "~/.codex/config.toml" => TomlWired(c.lines)
  /\ f = "AGENTS.md" => HasBlock(c.lines)

\* What file f becomes, m, is fine, is not merged again, and keeps what was in it.
MergedWell(f, c, m) ==
  Fine(f, m) /\ H!Same(f, m) /\ Starter(f, m) /\ (f # ".cursor/rules" => H!Items(c) \subseteq H!Items(m))

LEMMA FilesDiffer ==
  /\ ".mcp.json" \in H!ServerFiles /\ ".cursor/mcp.json" \in H!ServerFiles
  /\ H!ServerFiles \intersect H!HookFiles = {}
  /\ ".claude/settings.json" \in H!HookFiles /\ ".cursor/hooks.json" \in H!HookFiles /\ ".codex/hooks.json" \in H!HookFiles
  /\ {".cursor/rules", "~/.codex/config.toml", "AGENTS.md", ".gitignore"} \intersect JsonFiles = {}
  /\ \A f \in H!HookFiles : f = ".claude/settings.json" \/ f = ".cursor/hooks.json" \/ f = ".codex/hooks.json"
  /\ \A f \in H!Files : f \in JsonFiles \/ f = ".cursor/rules" \/ f = "~/.codex/config.toml" \/ f = "AGENTS.md" \/ f = ".gitignore"
BY DEF H!ServerFiles, H!HookFiles, JsonFiles, H!Files

LEMMA MergedIs ==
  ASSUME NEW f \in H!Files, NEW c
  PROVE  /\ f = ".gitignore" => H!Merged(f, c) = H!Lines(H!EnsureGitignore(H!ReadLines(c)))
         /\ f = ".cursor/rules" => H!Merged(f, c) = H!Lines(<<H!Line("rule", "ours", installed)>>)
         /\ f = "~/.codex/config.toml" => H!Merged(f, c) = H!Lines(H!appendCodexServer(H!ReadLines(c)))
         /\ f = "AGENTS.md" => H!Merged(f, c) = H!appendMarkedBlock(H!ReadLines(c))
         /\ f \in JsonFiles /\ H!loadJSONObject(c) = H!Error => H!Merged(f, c) = H!Error
         /\ f \in JsonFiles /\ H!loadJSONObject(c) # H!Error =>
              /\ f \in H!ServerFiles => H!Merged(f, c) = H!mergeMCPServers(H!loadJSONObject(c))
              /\ f = ".claude/settings.json" => H!Merged(f, c) = H!mergeClaudeHooks(H!loadJSONObject(c))
              /\ f = ".cursor/hooks.json" => H!Merged(f, c) = H!mergeCursorHooks(H!loadJSONObject(c))
              /\ f = ".codex/hooks.json" => H!Merged(f, c) = H!mergeCodexHooks(H!loadJSONObject(c))
<1>1. f \in JsonFiles => f \notin {".cursor/rules", "~/.codex/config.toml", "AGENTS.md", ".gitignore"}
  BY DEF JsonFiles, H!ServerFiles, H!HookFiles
<1>2. f \in H!ServerFiles => f \notin {".claude/settings.json", ".cursor/hooks.json", ".codex/hooks.json"}
  BY DEF H!ServerFiles
<1>3. f \in {".claude/settings.json", ".cursor/hooks.json", ".codex/hooks.json"} => f \notin H!ServerFiles
  BY <1>2
<1>4. /\ f = ".gitignore" => H!Merged(f, c) = H!Lines(H!EnsureGitignore(H!ReadLines(c)))
      /\ f = ".cursor/rules" => H!Merged(f, c) = H!Lines(<<H!Line("rule", "ours", installed)>>)
      /\ f = "~/.codex/config.toml" => H!Merged(f, c) = H!Lines(H!appendCodexServer(H!ReadLines(c)))
      /\ f = "AGENTS.md" => H!Merged(f, c) = H!appendMarkedBlock(H!ReadLines(c))
  BY DEF H!Merged
<1>5. CASE f \in JsonFiles
  <2> DEFINE doc == H!loadJSONObject(c)
  <2> HIDE DEF doc
  <2>1. H!Merged(f, c) = IF doc = H!Error THEN H!Error
                       ELSE CASE f \in H!ServerFiles -> H!mergeMCPServers(doc)
                              [] f = ".claude/settings.json" -> H!mergeClaudeHooks(doc)
                              [] f = ".cursor/hooks.json" -> H!mergeCursorHooks(doc)
                              [] f = ".codex/hooks.json" -> H!mergeCodexHooks(doc)
    BY <1>1, <1>5 DEF H!Merged, doc
  <2>2. QED
    BY <1>2, <1>3, <1>4, <1>5, <2>1 DEF doc
<1>6. QED
  BY <1>4, <1>5

LEMMA LinesIs == ASSUME NEW ls PROVE H!Lines(ls).is = "lines" /\ H!Lines(ls).lines = ls /\ H!ReadLines(H!Lines(ls)) = ls
BY DEF H!Lines, H!ReadLines

LEMMA NotError ==
  /\ H!Absent # H!Error /\ H!Empty # H!Error /\ H!Cut # H!Error /\ \A ls : H!Lines(ls) # H!Error
  /\ \A c \in JsonDocs : c # H!Error /\ c.is = "json"
<1>1. H!Absent # H!Error /\ H!Empty # H!Error /\ H!Cut # H!Error
  <2>1. H!Absent.is # H!Error.is /\ H!Empty.is # H!Error.is /\ H!Cut.is # H!Error.is
    BY DEF H!Absent, H!Empty, H!Cut, H!Error
  <2>2. QED
    BY <2>1
<1>2. ASSUME NEW ls PROVE H!Lines(ls) # H!Error
  <2>1. H!Lines(ls).is # H!Error.is
    BY LinesIs DEF H!Error
  <2>2. QED
    BY <2>1
<1>3. ASSUME NEW c \in JsonDocs PROVE c # H!Error /\ c.is = "json"
  <2>1. c.is = "json"
    BY DEF JsonDocs
  <2>2. QED
    BY <2>1 DEF H!Error
<1>4. QED
  BY <1>1, <1>2, <1>3

LEMMA SimplyIs ==
  /\ H!Absent.is = "absent" /\ H!Empty.is = "empty" /\ H!Cut.is = "cut"
  /\ H!Items(H!Absent) = {} /\ H!Items(H!Empty) = {} /\ H!Items(H!Cut) = {}
  /\ H!ReadLines(H!Absent) = <<>> /\ H!ReadLines(H!Empty) = <<>> /\ H!ReadLines(H!Cut) = <<>>
BY DEF H!Absent, H!Empty, H!Cut, H!Items, H!ReadLines

LEMMA NoLines == Tidy(<<>>) /\ Enclosed(<<>>) /\ <<>> \in Seq(LineRecs)
BY DEF Tidy, NoSection, Enclosed

LEMMA FineLines ==
  ASSUME NEW f \in H!Files \ JsonFiles, NEW c, Fine(f, c)
  PROVE  H!ReadLines(c) \in Seq(LineRecs) /\ (f = "~/.codex/config.toml" => Tidy(H!ReadLines(c)))
<1>1. CASE c \in {H!Absent, H!Empty, H!Cut}
  BY <1>1, SimplyIs, NoLines
<1>2. CASE c.is = "lines" /\ c.lines \in Seq(LineRecs)
  BY <1>2 DEF H!ReadLines, Fine
<1>3. QED
  BY <1>1, <1>2 DEF Fine

\* A document that is loaded.
LEMMA Loaded ==
  ASSUME NEW f \in JsonFiles, NEW c, Fine(f, c), H!loadJSONObject(c) # H!Error
  PROVE  H!loadJSONObject(c) \in JsonDocs /\ ~H!loadJSONObject(c).odd /\ H!Items(c) \subseteq H!Items(H!loadJSONObject(c))
<1>1. CASE c \in JsonDocs /\ ~c.odd
  <2>1. H!loadJSONObject(c) = c
    BY <1>1, NotError DEF H!loadJSONObject
  <2>2. QED
    BY <1>1, <2>1
<1>2. CASE c \in {H!Absent, H!Empty}
  <2>1. PICK none : none = <<>>
    OBVIOUS
  <2>2. PICK no \in BOOLEAN : no = FALSE
    OBVIOUS
  <2>3. none \in Seq(HookRecs) /\ {} \in SUBSET ServerRecs
    BY <2>1
  <2>4. Plain({}, none, no) \in JsonDocs /\ ~Plain({}, none, no).odd
    BY <2>3, PlainIs, PlainNotOdd
  <2>5. H!loadJSONObject(c) = H!Json({}, <<>>, FALSE, FALSE)
    BY <1>2, SimplyIs DEF H!loadJSONObject
  <2>6. H!loadJSONObject(c) = Plain({}, none, no)
    BY <2>1, <2>2, <2>5, Zenon DEF Plain
  <2>7. H!Items(c) = {}
    BY <1>2, SimplyIs
  <2>8. QED
    BY <2>4, <2>6, <2>7
<1>3. CASE c = H!Cut
  BY <1>3, SimplyIs DEF H!loadJSONObject
<1>4. QED
  BY <1>1, <1>2, <1>3 DEF Fine

LEMMA LoadedAgain == ASSUME NEW m \in JsonDocs PROVE H!loadJSONObject(m) = m
BY NotError DEF H!loadJSONObject

LEMMA JsonMerged ==
  ASSUME NEW f \in JsonFiles, NEW c, Fine(f, c), installed \in Nat, ~HookInPath
  PROVE  H!Merged(f, c) = H!Error \/ MergedWell(f, c, H!Merged(f, c))
<1> DEFINE doc == H!loadJSONObject(c)
           m == H!Merged(f, c)
<1>1. f \in H!Files
  BY DEF JsonFiles, H!Files
<1>2. CASE doc = H!Error
  BY <1>1, <1>2, MergedIs
<1>3. CASE doc # H!Error
  <2>1. doc \in JsonDocs /\ ~doc.odd /\ H!Items(c) \subseteq H!Items(doc)
    BY <1>3, Loaded
  <2>2. \A e : f \in JsonFiles /\ e \in JsonDocs => H!loadJSONObject(e) = e /\ e # H!Error
    BY LoadedAgain, NotError
  <2> HIDE DEF doc, m
  <2>3. SUFFICES /\ m \in JsonDocs /\ ~m.odd /\ H!Merged(f, m) = m /\ Starter(f, m)
                 /\ H!Items(doc) \subseteq H!Items(m)
    <3>1. ASSUME m \in JsonDocs, ~m.odd, H!Merged(f, m) = m, Starter(f, m), H!Items(doc) \subseteq H!Items(m)
          PROVE  MergedWell(f, c, m)
      <4>1. f # "~/.codex/config.toml" /\ f # "AGENTS.md"
        BY DEF JsonFiles, H!ServerFiles, H!HookFiles
      <4>2. Fine(f, m)
        BY <3>1, <4>1 DEF Fine
      <4>3. H!Same(f, m)
        BY <3>1 DEF H!Same
      <4>4. QED
        BY <2>1, <3>1, <4>2, <4>3 DEF MergedWell
    <3>2. QED
      BY <3>1 DEF m
  <2>4. CASE f \in H!ServerFiles
    <3>1. m = H!mergeMCPServers(doc)
      BY <1>1, <1>3, <2>4, MergedIs DEF m, doc
    <3>2. /\ m \in JsonDocs /\ ~m.odd /\ H!mergeMCPServers(m) = m /\ H!Items(doc) \subseteq H!Items(m)
          /\ {s.bin : s \in {s \in m.servers : s.name = "contextmaxxer"}} = {installed}
      BY <2>1, <3>1, ServersKept
    <3>3. H!Merged(f, m) = m
      BY <1>1, <2>2, <2>4, <3>2, MergedIs
    <3>4. f \notin {".claude/settings.json", ".cursor/hooks.json", ".codex/hooks.json", "~/.codex/config.toml", "AGENTS.md"}
      BY <2>4 DEF H!ServerFiles
    <3>5. Starter(f, m)
      BY <2>4, <3>2, <3>4 DEF Starter
    <3>6. QED
      BY <3>2, <3>3, <3>5
  <2>5. CASE f = ".claude/settings.json"
    <3>1. m = H!mergeClaudeHooks(doc)
      BY <1>1, <1>3, <2>5, MergedIs DEF m, doc
    <3>2. /\ HooksMerged(doc, m) /\ H!mergeClaudeHooks(m) = m
          /\ HooksOf(m, "PreToolUse", "pre-search") /\ HooksOf(m, "PostToolUse", "post-find")
          /\ HooksOf(m, "PostToolUse", "post-search")
      BY <2>1, <3>1, ClaudeKept
    <3>3. m \in JsonDocs /\ ~m.odd /\ H!Items(doc) \subseteq H!Items(m)
      BY <3>2 DEF HooksMerged
    <3>4. H!Merged(f, m) = m
      BY <1>1, <2>2, <2>5, <3>2, <3>3, MergedIs
    <3>5. Starter(f, m)
      BY <2>5, <3>2, FilesDiffer DEF Starter, H!ServerFiles
    <3>6. QED
      BY <3>3, <3>4, <3>5
  <2>6. CASE f = ".cursor/hooks.json"
    <3>1. m = H!mergeCursorHooks(doc)
      BY <1>1, <1>3, <2>6, MergedIs DEF m, doc
    <3>2. HooksMerged(doc, m) /\ H!mergeCursorHooks(m) = m /\ HooksOf(m, "beforeShellExecution", "search-signal")
      BY <2>1, <3>1, CursorKept
    <3>3. m \in JsonDocs /\ ~m.odd /\ H!Items(doc) \subseteq H!Items(m)
      BY <3>2 DEF HooksMerged
    <3>4. H!Merged(f, m) = m
      BY <1>1, <2>2, <2>6, <3>2, <3>3, MergedIs
    <3>5. Starter(f, m)
      BY <2>6, <3>2, FilesDiffer DEF Starter, H!ServerFiles
    <3>6. QED
      BY <3>3, <3>4, <3>5
  <2>7. CASE f = ".codex/hooks.json"
    <3>1. m = H!mergeCodexHooks(doc)
      BY <1>1, <1>3, <2>7, MergedIs DEF m, doc
    <3>2. HooksMerged(doc, m) /\ H!mergeCodexHooks(m) = m /\ HooksOf(m, "PreToolUse", "search-signal")
      BY <2>1, <3>1, CodexKept
    <3>3. m \in JsonDocs /\ ~m.odd /\ H!Items(doc) \subseteq H!Items(m)
      BY <3>2 DEF HooksMerged
    <3>4. H!Merged(f, m) = m
      BY <1>1, <2>2, <2>7, <3>2, <3>3, MergedIs
    <3>5. Starter(f, m)
      BY <2>7, <3>2, FilesDiffer DEF Starter, H!ServerFiles
    <3>6. QED
      BY <3>3, <3>4, <3>5
  <2>8. QED
    BY <2>4, <2>5, <2>6, <2>7, FilesDiffer DEF JsonFiles
<1>4. QED
  BY <1>2, <1>3

LEMMA LinesMerged ==
  ASSUME NEW f \in H!Files \ JsonFiles, NEW c, Fine(f, c), installed \in Nat
  PROVE  H!Merged(f, c) = H!Error \/ MergedWell(f, c, H!Merged(f, c))
<1> DEFINE ls == H!ReadLines(c)
<1>1. ls \in Seq(LineRecs) /\ H!Items(c) \subseteq H!Items(H!Lines(ls))
  <2>1. CASE c \in {H!Absent, H!Empty, H!Cut}
    BY <2>1, SimplyIs, NoLines
  <2>2. CASE c.is = "lines" /\ c = H!Lines(c.lines) /\ c.lines \in Seq(LineRecs)
    BY <2>2 DEF H!ReadLines
  <2>3. QED
    BY <2>1, <2>2 DEF Fine
<1>2. f \notin H!ServerFiles /\ f \notin H!HookFiles
  BY DEF JsonFiles
<1> HIDE DEF ls
<1>3. CASE f = ".gitignore"
  <2> DEFINE new == H!EnsureGitignore(ls)
  <2>1. new \in Seq(LineRecs) /\ H!EnsureGitignore(new) = new /\ H!Items(H!Lines(ls)) \subseteq H!Items(H!Lines(new))
    BY <1>1, IgnoreKept
  <2> HIDE DEF new
  <2>2. H!Merged(f, c) = H!Lines(new)
    BY <1>3, MergedIs DEF ls, new
  <2>3. H!Merged(f, H!Lines(new)) = H!Lines(new)
    BY <1>3, <2>1, MergedIs, LinesIs
  <2>4. Fine(f, H!Lines(new)) /\ Starter(f, H!Lines(new))
    BY <1>2, <1>3, <2>1, LinesIs, FilesDiffer DEF Fine, Starter
  <2>5. QED
    BY <1>1, <2>1, <2>2, <2>3, <2>4 DEF MergedWell, H!Same
<1>4. CASE f = ".cursor/rules"
  <2> DEFINE new == <<H!Line("rule", "ours", installed)>>
  <2>1. new \in Seq(LineRecs)
    <3>1. H!Line("rule", "ours", installed) \in LineRecs
      BY LineIs DEF Words
    <3>2. QED
      BY <3>1
  <2>2. \A e : H!Merged(f, e) = H!Lines(new)
    BY <1>4, MergedIs
  <2> HIDE DEF new
  <2>3. Fine(f, H!Lines(new)) /\ Starter(f, H!Lines(new))
    BY <1>2, <1>4, <2>1, LinesIs, FilesDiffer DEF Fine, Starter
  <2>4. QED
    BY <1>4, <2>2, <2>3 DEF MergedWell, H!Same
<1>5. CASE f = "~/.codex/config.toml"
  <2> DEFINE new == H!appendCodexServer(ls)
  <2>1. Tidy(ls)
    BY <1>5 DEF Fine, ls
  <2>2. /\ new \in Seq(LineRecs) /\ Tidy(new) /\ H!appendCodexServer(new) = new /\ TomlWired(new)
        /\ H!Items(H!Lines(ls)) \subseteq H!Items(H!Lines(new))
    BY <1>1, <2>1, TomlKept
  <2> HIDE DEF new
  <2>3. H!Merged(f, c) = H!Lines(new)
    BY <1>5, MergedIs DEF ls, new
  <2>4. H!Merged(f, H!Lines(new)) = H!Lines(new)
    BY <1>5, <2>2, MergedIs, LinesIs
  <2>5. Fine(f, H!Lines(new)) /\ Starter(f, H!Lines(new))
    BY <1>2, <1>5, <2>2, LinesIs, FilesDiffer DEF Fine, Starter
  <2>6. QED
    BY <1>1, <2>2, <2>3, <2>4, <2>5 DEF MergedWell, H!Same
<1>6. CASE f = "AGENTS.md"
  <2>1. Enclosed(ls)
    BY <1>6 DEF Fine, ls
  <2>2. H!Merged(f, c) = H!appendMarkedBlock(ls)
    BY <1>6, MergedIs DEF ls
  <2>3. CASE H!appendMarkedBlock(ls) = H!Error
    BY <2>2, <2>3
  <2>4. CASE \E t : BlockMerged(ls, t)
    <3>1. PICK t : BlockMerged(ls, t)
      BY <2>4
    <3>2. /\ t \in Seq(LineRecs) /\ Enclosed(t) /\ HasBlock(t)
          /\ H!appendMarkedBlock(ls) = H!Lines(t) /\ H!appendMarkedBlock(t) = H!Lines(t)
          /\ H!Items(H!Lines(ls)) \subseteq H!Items(H!Lines(t))
      BY <3>1 DEF BlockMerged
    <3>3. H!Merged(f, H!Lines(t)) = H!Lines(t)
      BY <1>6, <3>2, MergedIs, LinesIs
    <3>4. Fine(f, H!Lines(t)) /\ Starter(f, H!Lines(t))
      BY <1>2, <1>6, <3>2, LinesIs, FilesDiffer DEF Fine, Starter
    <3>5. QED
      BY <1>1, <2>2, <3>2, <3>3, <3>4 DEF MergedWell, H!Same
  <2>5. QED
    BY <1>1, <2>1, <2>3, <2>4, AgentsKept
<1>7. QED
  BY <1>3, <1>4, <1>5, <1>6, FilesDiffer

LEMMA MergeKeeps ==
  ASSUME NEW f \in H!Files, NEW c, Fine(f, c), installed \in Nat, ~HookInPath
  PROVE  H!Merged(f, c) = H!Error \/ MergedWell(f, c, H!Merged(f, c))
BY JsonMerged, LinesMerged

\* A file that would not change starts what is installed.
LEMMA SameStarts ==
  ASSUME NEW f \in H!Files, NEW c, Fine(f, c), H!Same(f, c), installed \in Nat, ~HookInPath
  PROVE  Starter(f, c)
<1>1. CASE H!Merged(f, c) = c
  <2>1. c # H!Error
    <3>1. c \in {H!Absent, H!Empty, H!Cut} \/ c \in JsonDocs \/ c = H!Lines(c.lines)
      BY DEF Fine
    <3>2. QED
      BY <3>1, NotError
  <2>2. QED
    BY <1>1, <2>1, MergeKeeps DEF MergedWell
<1>2. CASE f = ".gitignore"
  BY <1>2, FilesDiffer DEF Starter, H!ServerFiles
<1>3. QED
  BY <1>1, <1>2 DEF H!Same

\* What the writers make depends on the version and on git alone.
LEMMA UpsertStays ==
  ASSUME UNCHANGED installed, NEW CONSTANT b, NEW CONSTANT k
  PROVE  H!upsertSectionLine(b, k)' = H!upsertSectionLine(b, k)
BY DEF H!upsertSectionLine

LEMMA ServerStays ==
  ASSUME UNCHANGED installed, NEW CONSTANT c
  PROVE  H!mergeMCPServers(c)' = H!mergeMCPServers(c)
BY DEF H!mergeMCPServers

LEMMA AddHookStays ==
  ASSUME UNCHANGED installed, NEW CONSTANT hooks, NEW CONSTANT event, NEW CONSTANT matcher, NEW CONSTANT signal, NEW CONSTANT odd
  PROVE  H!AddHook(hooks, event, matcher, signal, odd)' = H!AddHook(hooks, event, matcher, signal, odd)
BY DEF H!AddHook

LEMMA TomlStays ==
  ASSUME UNCHANGED installed, NEW CONSTANT ls
  PROVE  H!appendCodexServer(ls)' = H!appendCodexServer(ls)
BY UpsertStays DEF H!appendCodexServer

LEMMA GitStays ==
  ASSUME UNCHANGED git, NEW CONSTANT ls
  PROVE  H!EnsureGitignore(ls)' = H!EnsureGitignore(ls)
BY DEF H!EnsureGitignore

LEMMA BlockStays ==
  ASSUME UNCHANGED installed, NEW CONSTANT ls
  PROVE  H!appendMarkedBlock(ls)' = H!appendMarkedBlock(ls)
BY DEF H!appendMarkedBlock, H!Block

LEMMA ClaudeStays ==
  ASSUME UNCHANGED installed, NEW CONSTANT c
  PROVE  H!mergeClaudeHooks(c)' = H!mergeClaudeHooks(c)
<1> DEFINE one == H!AddHook(c.hooks, "PreToolUse", "Grep", "pre-search", HookInPath)
           two == H!AddHook(one, "PostToolUse", "find_context", "post-find", HookInPath)
           three == H!AddHook(two, "PostToolUse", "Grep", "post-search", HookInPath)
<1>1. three' = three
  BY AddHookStays
<1>2. H!mergeClaudeHooks(c) = [c EXCEPT !.hooks = three, !.odd = FALSE]
  BY Zenon DEF H!mergeClaudeHooks
<1>3. H!mergeClaudeHooks(c)' = [c EXCEPT !.hooks = three', !.odd = FALSE]
  BY Zenon DEF H!mergeClaudeHooks
<1> HIDE DEF three
<1>4. QED
  BY <1>1, <1>2, <1>3, Zenon

LEMMA CodexStays ==
  ASSUME UNCHANGED installed, NEW CONSTANT c
  PROVE  H!mergeCodexHooks(c)' = H!mergeCodexHooks(c)
<1> DEFINE wired == H!AddHook(c.hooks, "PreToolUse", "^Bash$", "search-signal", FALSE)
<1>1. wired' = wired
  BY AddHookStays
<1>2. H!mergeCodexHooks(c) = [c EXCEPT !.hooks = wired, !.odd = FALSE]
  BY Zenon DEF H!mergeCodexHooks
<1>3. H!mergeCodexHooks(c)' = [c EXCEPT !.hooks = wired', !.odd = FALSE]
  BY Zenon DEF H!mergeCodexHooks
<1> HIDE DEF wired
<1>4. QED
  BY <1>1, <1>2, <1>3, Zenon

LEMMA CursorStays ==
  ASSUME UNCHANGED installed, NEW CONSTANT c
  PROVE  H!mergeCursorHooks(c)' = H!mergeCursorHooks(c)
<1> DEFINE wired == H!AddHook(c.hooks, "beforeShellExecution", "grep|rg|ag|ack", "search-signal", FALSE)
<1>1. wired' = wired
  BY AddHookStays
<1>2. H!mergeCursorHooks(c) = IF wired = c.hooks THEN c ELSE [c EXCEPT !.hooks = wired, !.version = TRUE, !.odd = FALSE]
  BY Zenon DEF H!mergeCursorHooks
<1>3. H!mergeCursorHooks(c)' = IF wired' = c.hooks THEN c ELSE [c EXCEPT !.hooks = wired', !.version = TRUE, !.odd = FALSE]
  BY Zenon DEF H!mergeCursorHooks
<1> HIDE DEF wired
<1>4. QED
  BY <1>1, <1>2, <1>3, Zenon

LEMMA MergedStays ==
  ASSUME UNCHANGED <<installed, git>>, NEW CONSTANT f, NEW CONSTANT c
  PROVE  H!Merged(f, c)' = H!Merged(f, c)
<1> DEFINE doc == H!loadJSONObject(c)
           ls == H!ReadLines(c)
<1>1. /\ H!mergeMCPServers(doc)' = H!mergeMCPServers(doc) /\ H!mergeClaudeHooks(doc)' = H!mergeClaudeHooks(doc)
      /\ H!mergeCursorHooks(doc)' = H!mergeCursorHooks(doc) /\ H!mergeCodexHooks(doc)' = H!mergeCodexHooks(doc)
  BY ServerStays, ClaudeStays, CursorStays, CodexStays
<1>2. /\ H!EnsureGitignore(ls)' = H!EnsureGitignore(ls) /\ H!appendCodexServer(ls)' = H!appendCodexServer(ls)
      /\ H!appendMarkedBlock(ls)' = H!appendMarkedBlock(ls)
  BY GitStays, TomlStays, BlockStays
<1>3. QED
  BY <1>1, <1>2 DEF H!Merged

LEMMA SameStays ==
  ASSUME UNCHANGED <<installed, git>>, NEW CONSTANT f, NEW CONSTANT c
  PROVE  H!Same(f, c)' <=> H!Same(f, c)
<1>1. H!Merged(f, c)' = H!Merged(f, c)
  BY MergedStays
<1>2. QED
  BY <1>1 DEF H!Same

LEMMA SameThen ==
  ASSUME UNCHANGED <<installed, git>>, NEW CONSTANT f
  PROVE  H!Same(f, disk[f])' <=> H!Same(f, disk'[f])
<1>1. \A c : H!Same(f, c)' <=> H!Same(f, c)
  BY SameStays
<1>2. QED
  BY <1>1

-----------------------------------------------------------------------------
(* What the user makes of a file.                                          *)

LEMMA HooksPlain ==
  ASSUME NEW servers \in SUBSET ServerRecs, NEW hooks \in Seq(HookRecs), NEW version \in BOOLEAN
  PROVE  Plain(servers, hooks, version) \in JsonDocs /\ ~Plain(servers, hooks, version).odd
BY PlainIs, PlainNotOdd

LEMMA ChangedJson ==
  ASSUME NEW f, NEW c \in JsonDocs, ~c.odd, NEW d \in H!Changed(f, c)
  PROVE  d \in JsonDocs /\ ~d.odd
<1>1. PICK servers \in SUBSET ServerRecs, hooks \in Seq(HookRecs), version \in BOOLEAN : c = Plain(servers, hooks, version)
  BY PlainHas
<1>2. c.servers = servers /\ c.hooks = hooks /\ c.is = "json"
  BY <1>1, PlainFields
<1>3. CASE d = [c EXCEPT !.servers = c.servers \union {H!Server("new", 0, FALSE)}]
  <2> DEFINE more == servers \union {H!Server("new", 0, FALSE)}
  <2>1. more \in SUBSET ServerRecs
    <3>1. H!Server("new", 0, FALSE) \in ServerRecs
      BY DEF H!Server, ServerRecs, Words
    <3>2. QED
      BY <3>1
  <2> HIDE DEF more
  <2>2. PICK no : no = FALSE
    OBVIOUS
  <2>3. [H!Json(servers, hooks, version, no) EXCEPT !.servers = more] = H!Json(more, hooks, version, no)
    BY JsonServers
  <2>4. [c EXCEPT !.servers = more] = Plain(more, hooks, version)
    BY <1>1, <2>2, <2>3, Zenon DEF Plain
  <2>5. d = [c EXCEPT !.servers = more]
    BY <1>2, <1>3 DEF more
  <2>6. QED
    BY <2>1, <2>4, <2>5, HooksPlain
<1>4. CASE d = [c EXCEPT !.hooks = <<H!Hook("PreToolUse", "Grep|Glob", "new", 0, FALSE)>> \o c.hooks]
  <2> DEFINE more == <<Off("PreToolUse", "Grep|Glob", "new", 0)>> \o hooks
  <2>1. more \in Seq(HookRecs)
    <3>1. Off("PreToolUse", "Grep|Glob", "new", 0) \in HookRecs
      BY OffIs DEF Words
    <3>2. QED
      BY <3>1
  <2>2. d = [c EXCEPT !.hooks = more]
    BY <1>2, <1>4, Zenon DEF Off
  <2> HIDE DEF more
  <2>3. [c EXCEPT !.hooks = more] = Plain(servers, more, version)
    BY <1>1, PlainHooks
  <2>4. QED
    BY <2>1, <2>2, <2>3, HooksPlain
<1>5. CASE \E i \in DOMAIN c.hooks : d = [c EXCEPT !.hooks[i].bin = 0]
  <2>1. PICK i \in DOMAIN hooks : d = [c EXCEPT !.hooks[i].bin = 0]
    BY <1>2, <1>5
  <2> DEFINE h == [hooks[i] EXCEPT !.bin = 0]
             more == [hooks EXCEPT ![i] = h]
  <2>2. h \in HookRecs
    <3>1. PICK event \in Words, matcher \in Words, signal \in Words, bin \in Nat, back \in BOOLEAN :
            hooks[i] = H!Hook(event, matcher, signal, bin, back)
      BY HookHas
    <3>2. h = H!Hook(event, matcher, signal, 0, back)
      BY <3>1, HookBin
    <3>3. H!Hook(event, matcher, signal, 0, back) \in HookRecs
      BY DEF H!Hook, HookRecs
    <3>4. QED
      BY <3>2, <3>3
  <2>3. [c EXCEPT !.hooks[i].bin = 0] = [c EXCEPT !.hooks = [c.hooks EXCEPT ![i] = [c.hooks[i] EXCEPT !.bin = 0]]]
    OBVIOUS
  <2>4. d = [c EXCEPT !.hooks = more]
    BY <1>2, <2>1, <2>3
  <2> HIDE DEF h
  <2>5. more \in Seq(HookRecs)
    BY <2>2
  <2> HIDE DEF more
  <2>6. [c EXCEPT !.hooks = more] = Plain(servers, more, version)
    BY <1>1, PlainHooks
  <2>7. QED
    BY <2>4, <2>5, <2>6, HooksPlain
<1>6. \/ d = [c EXCEPT !.servers = c.servers \union {H!Server("new", 0, FALSE)}]
      \/ d = [c EXCEPT !.hooks = <<H!Hook("PreToolUse", "Grep|Glob", "new", 0, FALSE)>> \o c.hooks]
      \/ \E i \in DOMAIN c.hooks : d = [c EXCEPT !.hooks[i].bin = 0]
  BY <1>2, Zenon DEF H!Changed
<1>7. QED
  BY <1>3, <1>4, <1>5, <1>6

LEMMA ChangedFine ==
  ASSUME NEW f \in H!Files, NEW c, Fine(f, c), NEW d \in H!Changed(f, c)
  PROVE  Fine(f, d)
<1>1. f \in JsonFiles => f # "~/.codex/config.toml" /\ f # "AGENTS.md"
  BY DEF JsonFiles, H!ServerFiles, H!HookFiles
<1>2. CASE f \in JsonFiles /\ c \in JsonDocs /\ ~c.odd
  <2>1. d \in JsonDocs /\ ~d.odd
    BY <1>2, ChangedJson
  <2>2. QED
    BY <1>1, <1>2, <2>1 DEF Fine
<1>3. CASE f \notin JsonFiles /\ c.is = "lines" /\ c = H!Lines(c.lines) /\ c.lines \in Seq(LineRecs)
  <2> DEFINE ls == c.lines
             new == Append(ls, NewLine)
  <2>1. d = H!Lines(new)
    BY <1>3 DEF H!Changed, NewLine
  <2>2. new \in Seq(LineRecs) /\ H!ReadLines(c) = ls
    BY <1>3, NewLineIs DEF H!ReadLines
  <2>3. /\ f = "~/.codex/config.toml" => Tidy(new)
        /\ f = "AGENTS.md" => Enclosed(new)
    BY <1>3, <2>2, StillTidy, StillEnclosed DEF Fine
  <2> HIDE DEF new
  <2>4. QED
    BY <1>3, <2>1, <2>2, <2>3, LinesIs DEF Fine
<1>4. CASE c \in {H!Absent, H!Empty, H!Cut}
  <2>1. c.is \notin {"json", "lines"}
    BY <1>4, SimplyIs
  <2>2. CASE f \in JsonFiles
    <3>1. PICK none : none = <<>>
      OBVIOUS
    <3>2. PICK no \in BOOLEAN : no = FALSE
      OBVIOUS
    <3>3. none \in Seq(HookRecs) /\ {} \in SUBSET ServerRecs
      BY <3>1
    <3>4. Plain({}, none, no) \in JsonDocs /\ ~Plain({}, none, no).odd
      BY <3>3, HooksPlain
    <3>5. d = H!Json({}, <<>>, FALSE, FALSE)
      BY <2>1, <2>2 DEF H!Changed, JsonFiles
    <3>6. d = Plain({}, none, no)
      BY <3>1, <3>2, <3>5, Zenon DEF Plain
    <3>7. QED
      BY <1>1, <2>2, <3>4, <3>6 DEF Fine
  <2>3. CASE f \notin JsonFiles
    <3>1. d = H!Lines(<<>>)
      BY <2>1, <2>3 DEF H!Changed, JsonFiles
    <3>2. QED
      BY <2>3, <3>1, NoLines, LinesIs DEF Fine
  <2>4. QED
    BY <2>2, <2>3
<1>5. QED
  BY <1>2, <1>3, <1>4 DEF Fine

-----------------------------------------------------------------------------
(* The runs.                                                               *)

FilesOf(hosts) == UNION {H!ToSet(H!HostFiles(h)) : h \in hosts}

HostTypeOK ==
  /\ installed \in Nat /\ done \subseteq Hosts /\ asked \subseteq Hosts
  /\ disk = [f \in H!Files |-> disk[f]] /\ mine = [f \in H!Files |-> mine[f]]
  /\ initAt \in {"off", "load", "open", "write"}
  /\ initAt # "off" => left \in Seq(H!Files) /\ left # <<>>

FilesFine == \A f \in H!Files : Fine(f, disk[f])

\* What is written is what the file becomes, and no file of a host that is done.
OutInv ==
  initAt \in {"open", "write"} =>
    /\ Fine(Head(left), out) /\ H!Same(Head(left), out) /\ Head(left) \notin FilesOf(done)
    /\ Head(left) \notin cut \union {".cursor/rules"} => mine[Head(left)] \subseteq H!Items(out)

\* The files of a host that is done would not change; those of the hosts of the
\* run are to be written, or would not change.
DoneInv == \A f \in FilesOf(done) : H!Same(f, disk[f])
AskedInv == initAt # "off" => \A f \in FilesOf(asked) : f \in H!ToSet(left) \/ H!Same(f, disk[f])

HostInv == HostTypeOK /\ FilesFine /\ OutInv /\ DoneInv /\ AskedInv /\ H!ItemsKept

LEMMA FilesOfEach ==
  /\ H!ToSet(H!HostFiles("claude-code")) = {".mcp.json", ".claude/settings.json"}
  /\ H!ToSet(H!HostFiles("cursor")) = {".cursor/mcp.json", ".cursor/rules", ".cursor/hooks.json"}
  /\ H!ToSet(H!HostFiles("codex")) = {"~/.codex/config.toml", "AGENTS.md", ".codex/hooks.json"}
<1>1. ASSUME NEW a, NEW b PROVE H!ToSet(<<a, b>>) = {a, b}
  BY DEF H!ToSet
<1>2. ASSUME NEW a, NEW b, NEW c PROVE H!ToSet(<<a, b, c>>) = {a, b, c}
  <2>1. DOMAIN <<a, b, c>> = {1, 2, 3}
    OBVIOUS
  <2>2. QED
    BY <2>1 DEF H!ToSet
<1>3. /\ H!HostFiles("claude-code") = <<".mcp.json", ".claude/settings.json">>
      /\ H!HostFiles("cursor") = <<".cursor/mcp.json", ".cursor/rules", ".cursor/hooks.json">>
      /\ H!HostFiles("codex") = <<"~/.codex/config.toml", "AGENTS.md", ".codex/hooks.json">>
  BY DEF H!HostFiles
<1>4. QED
  BY <1>1, <1>2, <1>3

LEMMA FilesOfHosts ==
  ASSUME NEW hosts \in SUBSET Hosts
  PROVE  FilesOf(hosts) \subseteq H!Files \ {".gitignore"}
<1>1. ASSUME NEW h \in Hosts PROVE H!ToSet(H!HostFiles(h)) \subseteq H!Files \ {".gitignore"}
  BY FilesOfEach DEF Hosts, H!Files, H!ServerFiles, H!HookFiles
<1>2. QED
  BY <1>1 DEF FilesOf

LEMMA TodoIs ==
  ASSUME NEW s \in Seq(H!Files), s # <<>>
  PROVE  /\ Head(s) \in H!Files /\ Tail(s) \in Seq(H!Files) /\ H!ToSet(s) = {Head(s)} \union H!ToSet(Tail(s))
         /\ Len(s) # 1 => Tail(s) # <<>>
         /\ Len(s) = 1 => H!ToSet(Tail(s)) = {}
<1>1. Head(s) \in H!Files /\ Tail(s) \in Seq(H!Files) /\ Len(s) \in Nat /\ Len(s) >= 1 /\ Len(Tail(s)) = Len(s) - 1
      /\ Head(s) = s[1] /\ \A i \in 1 .. Len(s) - 1 : Tail(s)[i] = s[i + 1]
  OBVIOUS
<1>2. H!ToSet(s) = {s[i] : i \in 1 .. Len(s)} /\ H!ToSet(Tail(s)) = {Tail(s)[i] : i \in 1 .. Len(s) - 1}
  <2>1. DOMAIN s = 1 .. Len(s) /\ DOMAIN Tail(s) = 1 .. Len(s) - 1
    BY <1>1
  <2>2. QED
    BY <2>1 DEF H!ToSet
<1>3. H!ToSet(s) = {Head(s)} \union H!ToSet(Tail(s))
  <2>1. ASSUME NEW i \in 1 .. Len(s) PROVE s[i] \in {Head(s)} \union H!ToSet(Tail(s))
    <3>1. CASE i = 1
      BY <1>1, <3>1
    <3>2. CASE i # 1
      <4>1. i - 1 \in 1 .. Len(s) - 1 /\ (i - 1) + 1 = i
        BY <1>1, <3>2
      <4>2. s[i] = Tail(s)[i - 1]
        BY <1>1, <4>1
      <4>3. QED
        BY <1>2, <4>1, <4>2
    <3>3. QED
      BY <3>1, <3>2
  <2>2. ASSUME NEW i \in 1 .. Len(s) - 1 PROVE Tail(s)[i] \in H!ToSet(s)
    <3>1. i + 1 \in 1 .. Len(s) /\ Tail(s)[i] = s[i + 1]
      BY <1>1
    <3>2. QED
      BY <1>2, <3>1
  <2>3. Head(s) \in H!ToSet(s)
    <3>1. 1 \in 1 .. Len(s)
      BY <1>1
    <3>2. QED
      BY <1>1, <1>2, <3>1
  <2>4. QED
    BY <1>2, <2>1, <2>2, <2>3
<1>4. Len(s) # 1 => Tail(s) # <<>>
  <2>1. PICK n \in Nat : n = Len(s)
    BY <1>1, Zenon
  <2>2. Len(Tail(s)) = n - 1
    BY <1>1, <2>1, Zenon
  <2>3. n # 1 => n - 1 # 0
    OBVIOUS
  <2>4. Len(<<>>) = 0
    OBVIOUS
  <2>5. QED
    BY <2>1, <2>2, <2>3, <2>4, Zenon
<1>5. Len(s) = 1 => H!ToSet(Tail(s)) = {}
  BY <1>1, <1>2
<1>6. QED
  BY <1>1, <1>3, <1>4, <1>5

\* What files would not change after the step.
Keeps(f) == H!Same(f, disk[f])'

LEMMA AfterNext ==
  ASSUME HostTypeOK, initAt # "off", H!NextFile,
         \A f \in FilesOf(done) : Keeps(f),
         \A f \in FilesOf(asked) : f \in H!ToSet(Tail(left)) \/ Keeps(f)
  PROVE  initAt' \in {"off", "load"} /\ DoneInv' /\ AskedInv' /\ done' \subseteq Hosts /\ asked' \subseteq Hosts
         /\ (initAt' # "off" => left' \in Seq(H!Files) /\ left' # <<>>)
<1>1. left \in Seq(H!Files) /\ left # <<>> /\ done \subseteq Hosts /\ asked \subseteq Hosts
  BY DEF HostTypeOK
<1>2. CASE Len(left) = 1
  <2>1. initAt' = "off" /\ asked' = {} /\ done' = asked
    BY <1>2 DEF H!NextFile, H!Ended
  <2>2. H!ToSet(Tail(left)) = {}
    BY <1>1, <1>2, TodoIs
  <2>3. \A f \in FilesOf(asked) : Keeps(f)
    BY <2>2
  <2>4. DoneInv'
    BY <2>1, <2>3 DEF DoneInv, Keeps, FilesOf
  <2>5. AskedInv'
    BY <2>1 DEF AskedInv
  <2>6. QED
    BY <1>1, <2>1, <2>4, <2>5
<1>3. CASE Len(left) # 1
  <2>1. initAt' = "load" /\ left' = Tail(left) /\ asked' = asked /\ done' = done
    BY <1>3 DEF H!NextFile
  <2>2. DoneInv'
    BY <2>1 DEF DoneInv, Keeps, FilesOf
  <2>3. AskedInv'
    BY <2>1 DEF AskedInv, Keeps, FilesOf, H!ToSet
  <2>4. Tail(left) \in Seq(H!Files) /\ Tail(left) # <<>>
    BY <1>1, <1>3, TodoIs
  <2>5. QED
    BY <1>1, <2>1, <2>2, <2>3, <2>4
<1>4. QED
  BY <1>2, <1>3

LEMMA AfterEnd ==
  ASSUME HostTypeOK, H!Ended, UNCHANGED done, \A f \in FilesOf(done) : Keeps(f)
  PROVE  initAt' = "off" /\ DoneInv' /\ AskedInv' /\ done' \subseteq Hosts /\ asked' \subseteq Hosts
<1>1. initAt' = "off" /\ asked' = {} /\ done' = done
  BY DEF H!Ended
<1>2. DoneInv'
  BY <1>1 DEF DoneInv, Keeps, FilesOf
<1>3. QED
  BY <1>1, <1>2 DEF AskedInv, HostTypeOK

LEMMA AfterFailed ==
  ASSUME HostTypeOK, initAt # "off", H!Failed \/ (H!Ended /\ UNCHANGED done),
         \A f \in FilesOf(done) : Keeps(f),
         \A f \in FilesOf(asked) : f \in H!ToSet(left) \/ Keeps(f)
  PROVE  initAt' \in {"off", "load"} /\ DoneInv' /\ AskedInv' /\ done' \subseteq Hosts /\ asked' \subseteq Hosts
         /\ (initAt' # "off" => left' \in Seq(H!Files) /\ left' # <<>>)
<1>1. CASE Head(left) = ".gitignore" /\ H!NextFile
  <2>1. H!ToSet(left) = {Head(left)} \union H!ToSet(Tail(left))
    BY TodoIs DEF HostTypeOK
  <2>2. Head(left) \notin FilesOf(asked)
    BY <1>1, FilesOfHosts DEF HostTypeOK
  <2>3. \A f \in FilesOf(asked) : f \in H!ToSet(Tail(left)) \/ Keeps(f)
    BY <2>1, <2>2
  <2>4. QED
    BY <1>1, <2>3, AfterNext
<1>2. CASE H!Ended /\ UNCHANGED done
  BY <1>2, AfterEnd
<1>3. QED
  BY <1>1, <1>2 DEF H!Failed

LEMMA KeepsIs ==
  ASSUME UNCHANGED <<installed, git>>, NEW CONSTANT f
  PROVE  Keeps(f) <=> H!Same(f, disk'[f])
BY SameThen DEF Keeps

LEMMA RunInitKeeps == ASSUME HostInv, NEW hosts \in SUBSET Hosts, H!RunInit(hosts) PROVE HostInv'
<1>1. /\ initAt' = "load" /\ asked' = hosts /\ left' = H!Wanted(hosts)
      /\ UNCHANGED <<disk, git, installed, out, mine, done, cut>> /\ initAt = "off"
  BY DEF H!RunInit
<1>2. HostTypeOK /\ FilesFine /\ DoneInv /\ H!ItemsKept
  BY DEF HostInv
<1> DEFINE of(h) == IF h \in hosts THEN H!HostFiles(h) ELSE <<>>
<1>3. /\ of("claude-code") \in Seq(H!Files) /\ of("cursor") \in Seq(H!Files) /\ of("codex") \in Seq(H!Files)
  <2>1. H!HostFiles("claude-code") \in Seq(H!Files) /\ H!HostFiles("cursor") \in Seq(H!Files) /\ H!HostFiles("codex") \in Seq(H!Files)
    BY DEF H!HostFiles, H!Files, H!ServerFiles, H!HookFiles
  <2>2. QED
    BY <2>1
<1>4. H!Wanted(hosts) = <<".gitignore">> \o of("claude-code") \o of("cursor") \o of("codex")
  BY DEF H!Wanted
<1>5. <<".gitignore">> \in Seq(H!Files)
  BY DEF H!Files
<1>6. \A h \in hosts : H!ToSet(H!HostFiles(h)) \subseteq H!ToSet(H!Wanted(hosts))
  <2>1. H!ToSet(of("claude-code")) \subseteq H!ToSet(H!Wanted(hosts)) /\ H!ToSet(of("cursor")) \subseteq H!ToSet(H!Wanted(hosts))
        /\ H!ToSet(of("codex")) \subseteq H!ToSet(H!Wanted(hosts))
    <3> HIDE DEF of
    <3>1. ASSUME NEW a \in Seq(H!Files), NEW b \in Seq(H!Files)
          PROVE  a \o b \in Seq(H!Files) /\ H!ToSet(a) \subseteq H!ToSet(a \o b) /\ H!ToSet(b) \subseteq H!ToSet(a \o b)
      <4>1. a \o b \in Seq(H!Files) /\ Len(a \o b) = Len(a) + Len(b) /\ (\A i \in 1 .. Len(a) : (a \o b)[i] = a[i])
            /\ \A i \in 1 .. Len(b) : (a \o b)[Len(a) + i] = b[i]
        OBVIOUS
      <4>2. ASSUME NEW i \in 1 .. Len(a) PROVE a[i] \in H!ToSet(a \o b)
        <5>1. i \in DOMAIN (a \o b)
          BY <4>1
        <5>2. QED
          BY <4>1, <5>1 DEF H!ToSet
      <4>3. ASSUME NEW i \in 1 .. Len(b) PROVE b[i] \in H!ToSet(a \o b)
        <5>1. Len(a) + i \in DOMAIN (a \o b)
          BY <4>1
        <5>2. QED
          BY <4>1, <5>1 DEF H!ToSet
      <4>4. H!ToSet(a) = {a[i] : i \in 1 .. Len(a)} /\ H!ToSet(b) = {b[i] : i \in 1 .. Len(b)}
        BY DEF H!ToSet
      <4>5. QED
        BY <4>1, <4>2, <4>3, <4>4
    <3>2. PICK g \in Seq(H!Files) : g = <<".gitignore">>
      BY <1>5
    <3>3. PICK x \in Seq(H!Files) : x = of("claude-code")
      BY <1>3
    <3>4. PICK y \in Seq(H!Files) : y = of("cursor")
      BY <1>3
    <3>5. PICK z \in Seq(H!Files) : z = of("codex")
      BY <1>3
    <3>6. H!Wanted(hosts) = g \o x \o y \o z
      BY <1>4, <3>2, <3>3, <3>4, <3>5
    <3>7. g \o x \in Seq(H!Files) /\ H!ToSet(x) \subseteq H!ToSet(g \o x)
      BY <3>1
    <3>8. g \o x \o y \in Seq(H!Files) /\ H!ToSet(g \o x) \subseteq H!ToSet(g \o x \o y) /\ H!ToSet(y) \subseteq H!ToSet(g \o x \o y)
      BY <3>1, <3>7
    <3>9. H!ToSet(g \o x \o y) \subseteq H!ToSet(g \o x \o y \o z) /\ H!ToSet(z) \subseteq H!ToSet(g \o x \o y \o z)
      BY <3>1, <3>8
    <3>10. QED
      BY <3>3, <3>4, <3>5, <3>6, <3>7, <3>8, <3>9
  <2>2. QED
    BY <2>1 DEF Hosts
<1>7. H!Wanted(hosts) \in Seq(H!Files) /\ H!Wanted(hosts) # <<>>
  <2> HIDE DEF of
  <2>1. QED
    BY <1>3, <1>4, <1>5
<1>8. HostTypeOK'
  BY <1>1, <1>2, <1>7 DEF HostTypeOK
<1>9. FilesFine' /\ OutInv'
  BY <1>1, <1>2 DEF FilesFine, Fine, H!ReadLines, OutInv
<1>10. DoneInv'
  <2>1. \A f \in FilesOf(done) : Keeps(f)
    BY <1>1, <1>2, KeepsIs DEF DoneInv
  <2>2. QED
    BY <1>1, <2>1 DEF DoneInv, Keeps, FilesOf
<1>11. AskedInv'
  <2>1. \A f \in FilesOf(hosts) : f \in H!ToSet(H!Wanted(hosts))
    BY <1>6 DEF FilesOf
  <2>2. \A f \in FilesOf(asked)' : f \in H!ToSet(left)'
    BY <1>1, <2>1 DEF FilesOf, H!ToSet
  <2>3. QED
    BY <2>2 DEF AskedInv
<1>12. H!ItemsKept'
  BY <1>1, <1>2 DEF H!ItemsKept
<1>13. QED
  BY <1>8, <1>9, <1>10, <1>11, <1>12 DEF HostInv

LEMMA LoadKeeps == ASSUME HostInv, ~HookInPath, H!Load PROVE HostInv'
<1> DEFINE f == Head(left)
           merged == H!Merged(f, disk[f])
<1>1. /\ initAt = "load" /\ UNCHANGED <<disk, git, installed, mine, cut>>
      /\ \/ merged = H!Error /\ H!Failed
         \/ merged # H!Error /\ H!Same(f, disk[f]) /\ H!NextFile
         \/ merged # H!Error /\ ~H!Same(f, disk[f]) /\ initAt' = "open" /\ out' = merged /\ UNCHANGED <<left, asked, done>>
  BY DEF H!Load
<1>2. HostTypeOK /\ FilesFine /\ DoneInv /\ AskedInv /\ H!ItemsKept
  BY DEF HostInv
<1>3. \A g : Keeps(g) <=> H!Same(g, disk[g])
  BY <1>1, KeepsIs
<1>4. (\A g \in FilesOf(done) : Keeps(g)) /\ \A g \in FilesOf(asked) : g \in H!ToSet(left) \/ Keeps(g)
  BY <1>1, <1>2, <1>3 DEF DoneInv, AskedInv
<1>5. f \in H!Files /\ H!ToSet(left) = {f} \union H!ToSet(Tail(left)) /\ left \in Seq(H!Files) /\ left # <<>>
  BY <1>1, <1>2, TodoIs DEF HostTypeOK
<1> HIDE DEF f
<1>6. FilesFine'
  BY <1>1, <1>2 DEF FilesFine, Fine, H!ReadLines
<1>7. H!ItemsKept' \/ initAt' = "write"
  BY <1>1, <1>2 DEF H!ItemsKept
<1>8. CASE initAt' # "open"
  <2>1. initAt' \in {"off", "load"} /\ DoneInv' /\ AskedInv' /\ done' \subseteq Hosts /\ asked' \subseteq Hosts
        /\ (initAt' # "off" => left' \in Seq(H!Files) /\ left' # <<>>)
    <3>1. CASE H!Failed
      BY <1>1, <1>2, <1>4, <3>1, AfterFailed
    <3>2. CASE H!Same(f, disk[f]) /\ H!NextFile
      <4>1. \A g \in FilesOf(asked) : g \in H!ToSet(Tail(left)) \/ Keeps(g)
        BY <1>3, <1>4, <1>5, <3>2
      <4>2. QED
        BY <1>1, <1>2, <1>4, <3>2, <4>1, AfterNext
    <3>3. QED
      BY <1>1, <1>8, <3>1, <3>2
  <2>2. HostTypeOK'
    BY <1>1, <1>2, <2>1 DEF HostTypeOK
  <2>3. OutInv'
    BY <2>1 DEF OutInv
  <2>4. QED
    BY <1>6, <1>7, <2>1, <2>2, <2>3 DEF HostInv
<1>9. CASE initAt' = "open"
  <2>1. merged # H!Error /\ ~H!Same(f, disk[f]) /\ out' = merged /\ UNCHANGED <<left, asked, done>>
    <3>1. ~(H!Failed \/ H!NextFile)
      BY <1>9 DEF H!Failed, H!NextFile, H!Ended
    <3>2. QED
      BY <1>1, <3>1
  <2>2. MergedWell(f, disk[f], merged)
    BY <1>2, <1>5, <2>1, MergeKeeps DEF FilesFine, HostTypeOK
  <2> HIDE DEF merged
  <2>3. f \notin FilesOf(done)
    BY <1>2, <2>1 DEF DoneInv
  <2>4. f \notin cut \union {".cursor/rules"} => mine[f] \subseteq H!Items(merged)
    <3>1. ASSUME f \notin cut \union {".cursor/rules"} PROVE mine[f] \subseteq H!Items(merged)
      <4>1. mine[f] \subseteq H!Items(disk[f])
        BY <1>1, <1>2, <1>5, <3>1 DEF H!ItemsKept
      <4>2. QED
        BY <2>2, <3>1, <4>1 DEF MergedWell
    <3>2. QED
      BY <3>1
  <2>5. Fine(f, merged) /\ H!Same(f, merged)
    BY <2>2 DEF MergedWell
  <2>6. OutInv'
    <3>1. PICK g : g = f
      OBVIOUS
    <3>2. PICK m : m = merged
      OBVIOUS
    <3>3. H!Same(g, m)' <=> H!Same(g, m)
      BY <1>1, SameStays
    <3>4. g = Head(left)' /\ m = out'
      BY <2>1, <3>1, <3>2 DEF f
    <3>5. H!Same(Head(left), out)'
      BY <2>5, <3>1, <3>2, <3>3, <3>4
    <3>6. Fine(Head(left), out)'
      BY <2>5, <3>1, <3>2, <3>4 DEF Fine, H!ReadLines
    <3>7. (Head(left) \notin FilesOf(done))'
      BY <2>1, <2>3 DEF FilesOf, f
    <3>8. (Head(left) \notin cut \union {".cursor/rules"} => mine[Head(left)] \subseteq H!Items(out))'
      BY <1>1, <2>1, <2>4 DEF f
    <3>9. QED
      BY <3>5, <3>6, <3>7, <3>8 DEF OutInv
  <2>7. HostTypeOK'
    BY <1>1, <1>2, <1>9, <2>1 DEF HostTypeOK
  <2>8. DoneInv' /\ AskedInv'
    BY <1>1, <1>4, <2>1 DEF DoneInv, AskedInv, Keeps, FilesOf, H!ToSet
  <2>9. H!ItemsKept'
    BY <1>7, <1>9
  <2>10. QED
    BY <1>6, <2>6, <2>7, <2>8, <2>9 DEF HostInv
<1>10. QED
  BY <1>8, <1>9

LEMMA DiskPut ==
  ASSUME HostTypeOK, FilesFine, NEW CONSTANT f \in H!Files, NEW x, Fine(f, x), disk' = [disk EXCEPT ![f] = x]
  PROVE  /\ disk'[f] = x /\ \A g \in H!Files \ {f} : disk'[g] = disk[g]
         /\ \A g \in H!Files : Fine(g, disk'[g])
         /\ disk' = [g \in H!Files |-> disk'[g]]
<1>1. DOMAIN disk = H!Files
  BY DEF HostTypeOK
<1>2. disk'[f] = x /\ \A g \in H!Files \ {f} : disk'[g] = disk[g]
  BY <1>1
<1>3. disk' = [g \in H!Files |-> disk'[g]]
  BY <1>1
<1>4. QED
  BY <1>2, <1>3 DEF FilesFine

LEMMA OpenKeeps == ASSUME HostInv, H!Open PROVE HostInv'
<1> DEFINE f == Head(left)
<1>1. /\ initAt = "open" /\ initAt' = "write" /\ disk' = [disk EXCEPT ![f] = H!Empty]
      /\ UNCHANGED <<git, installed, left, asked, out, mine, done, cut>>
  BY DEF H!Open
<1>2. HostTypeOK /\ FilesFine /\ OutInv /\ DoneInv /\ AskedInv /\ H!ItemsKept
  BY DEF HostInv
<1>3. f \in H!Files /\ H!ToSet(left) = {f} \union H!ToSet(Tail(left))
  BY <1>1, <1>2, TodoIs DEF HostTypeOK
<1>4. f \notin FilesOf(done)
  BY <1>1, <1>2 DEF OutInv
<1> HIDE DEF f
<1>5. Fine(f, H!Empty)
  BY NoLines, SimplyIs DEF Fine
<1>6. /\ \A g \in H!Files \ {f} : disk'[g] = disk[g]
      /\ \A g \in H!Files : Fine(g, disk'[g])
      /\ disk' = [g \in H!Files |-> disk'[g]]
  BY <1>1, <1>2, <1>3, <1>5, DiskPut
<1>7. HostTypeOK'
  BY <1>1, <1>2, <1>6 DEF HostTypeOK
<1>8. FilesFine'
  BY <1>6 DEF FilesFine, Fine, H!ReadLines
<1>9. \A g \in H!Files \ {f} : Keeps(g) <=> H!Same(g, disk[g])
  BY <1>1, <1>6, KeepsIs
<1>10. FilesOf(done) \subseteq H!Files /\ FilesOf(asked) \subseteq H!Files
  BY <1>2, FilesOfHosts DEF HostTypeOK
<1>11. DoneInv'
  <2>1. \A g \in FilesOf(done) : Keeps(g)
    BY <1>2, <1>4, <1>9, <1>10 DEF DoneInv
  <2>2. QED
    BY <1>1, <2>1 DEF DoneInv, Keeps, FilesOf
<1>12. AskedInv'
  <2>1. \A g \in FilesOf(asked) : g \in H!ToSet(left) \/ Keeps(g)
    BY <1>1, <1>2, <1>3, <1>9, <1>10 DEF AskedInv
  <2>2. QED
    BY <1>1, <2>1 DEF AskedInv, Keeps, FilesOf, H!ToSet
<1>13. OutInv'
  <2>1. Fine(f, out) /\ H!Same(f, out) /\ f \notin FilesOf(done)
        /\ (f \notin cut \union {".cursor/rules"} => mine[f] \subseteq H!Items(out))
    BY <1>1, <1>2 DEF OutInv, f
  <2>2. PICK g, m : g = f /\ m = out
    OBVIOUS
  <2>3. H!Same(g, m)' <=> H!Same(g, m)
    BY <1>1, SameStays
  <2>4. g = Head(left)' /\ m = out'
    BY <1>1, <2>2 DEF f
  <2>5. H!Same(Head(left), out)'
    BY <2>1, <2>2, <2>3, <2>4
  <2>6. Fine(Head(left), out)'
    BY <2>1, <2>2, <2>4 DEF Fine, H!ReadLines
  <2>7. (Head(left) \notin FilesOf(done))'
    BY <1>1, <1>4 DEF FilesOf, f
  <2>8. (Head(left) \notin cut \union {".cursor/rules"} => mine[Head(left)] \subseteq H!Items(out))'
    BY <1>1, <2>1 DEF f
  <2>9. QED
    BY <2>5, <2>6, <2>7, <2>8 DEF OutInv
<1>14. H!ItemsKept'
  BY <1>1, <1>2, <1>6 DEF H!ItemsKept, f
<1>15. QED
  BY <1>7, <1>8, <1>11, <1>12, <1>13, <1>14 DEF HostInv

LEMMA WriteKeeps == ASSUME HostInv, H!Write PROVE HostInv'
<1> DEFINE f == Head(left)
<1>1. initAt = "write" /\ disk' = [disk EXCEPT ![f] = out] /\ H!NextFile /\ UNCHANGED <<git, installed, mine, cut>>
  BY DEF H!Write
<1>2. HostTypeOK /\ FilesFine /\ OutInv /\ DoneInv /\ AskedInv /\ H!ItemsKept
  BY DEF HostInv
<1>3. f \in H!Files /\ H!ToSet(left) = {f} \union H!ToSet(Tail(left))
  BY <1>1, <1>2, TodoIs DEF HostTypeOK
<1>4. Fine(f, out) /\ H!Same(f, out) /\ f \notin FilesOf(done)
      /\ (f \notin cut \union {".cursor/rules"} => mine[f] \subseteq H!Items(out))
  BY <1>1, <1>2 DEF OutInv
<1>5. /\ disk'[f] = out /\ \A g \in H!Files \ {f} : disk'[g] = disk[g]
      /\ \A g \in H!Files : Fine(g, disk'[g])
      /\ disk' = [g \in H!Files |-> disk'[g]]
  BY <1>1, <1>2, <1>3, <1>4, DiskPut
<1>6. \A g \in H!Files \ {f} : mine[g] \subseteq H!Items(disk[g]) \/ g \in cut \union {".cursor/rules"}
  BY <1>2 DEF H!ItemsKept
<1> HIDE DEF f
<1>7. (\A g \in H!Files \ {f} : Keeps(g) <=> H!Same(g, disk[g])) /\ Keeps(f)
  BY <1>1, <1>4, <1>5, KeepsIs
<1>8. FilesOf(done) \subseteq H!Files /\ FilesOf(asked) \subseteq H!Files
  BY <1>2, FilesOfHosts DEF HostTypeOK
<1>9. \A g \in FilesOf(done) : Keeps(g)
  BY <1>2, <1>4, <1>7, <1>8 DEF DoneInv
<1>10. \A g \in FilesOf(asked) : g \in H!ToSet(Tail(left)) \/ Keeps(g)
  BY <1>1, <1>2, <1>3, <1>7, <1>8 DEF AskedInv
<1>11. initAt' \in {"off", "load"} /\ DoneInv' /\ AskedInv' /\ done' \subseteq Hosts /\ asked' \subseteq Hosts
       /\ (initAt' # "off" => left' \in Seq(H!Files) /\ left' # <<>>)
  BY <1>1, <1>2, <1>9, <1>10, AfterNext
<1>12. HostTypeOK'
  BY <1>1, <1>2, <1>5, <1>11 DEF HostTypeOK
<1>13. FilesFine'
  BY <1>5 DEF FilesFine, Fine, H!ReadLines
<1>14. OutInv'
  BY <1>11 DEF OutInv
<1>15. H!ItemsKept'
  BY <1>1, <1>4, <1>5, <1>6 DEF H!ItemsKept
<1>16. QED
  BY <1>11, <1>12, <1>13, <1>14, <1>15 DEF HostInv

LEMMA InitFailsKeeps == ASSUME HostInv, H!Fails PROVE HostInv'
<1> DEFINE f == Head(left)
<1>1. /\ initAt # "off" /\ UNCHANGED <<git, installed, mine>>
      /\ cut' = IF initAt = "write" THEN cut \union {f} ELSE cut
      /\ UNCHANGED disk \/ (initAt = "write" /\ disk' = [disk EXCEPT ![f] = H!Cut])
      /\ H!Failed \/ (H!Ended /\ UNCHANGED done)
  BY DEF H!Fails
<1>2. HostTypeOK /\ FilesFine /\ OutInv /\ DoneInv /\ AskedInv /\ H!ItemsKept
  BY DEF HostInv
<1>3. f \in H!Files /\ H!ToSet(left) = {f} \union H!ToSet(Tail(left))
  BY <1>1, <1>2, TodoIs DEF HostTypeOK
<1>4. initAt = "write" => f \notin FilesOf(done)
  BY <1>1, <1>2 DEF OutInv
<1>5. \A g \in H!Files \ (cut \union {".cursor/rules"}) : (initAt = "write" /\ g = f) \/ mine[g] \subseteq H!Items(disk[g])
  BY <1>2 DEF H!ItemsKept
<1> HIDE DEF f
<1>6. Fine(f, H!Cut)
  BY NoLines, SimplyIs DEF Fine
<1>7. /\ \A g \in H!Files : g # f \/ initAt # "write" => disk'[g] = disk[g]
      /\ \A g \in H!Files : Fine(g, disk'[g])
      /\ disk' = [g \in H!Files |-> disk'[g]]
  <2>1. CASE UNCHANGED disk
    BY <1>2, <2>1 DEF FilesFine, HostTypeOK
  <2>2. CASE initAt = "write" /\ disk' = [disk EXCEPT ![f] = H!Cut]
    BY <1>2, <1>3, <1>6, <2>2, DiskPut
  <2>3. QED
    BY <1>1, <2>1, <2>2
<1>8. \A g \in H!Files : g # f \/ initAt # "write" => (Keeps(g) <=> H!Same(g, disk[g]))
  BY <1>1, <1>7, KeepsIs
<1>9. FilesOf(done) \subseteq H!Files /\ FilesOf(asked) \subseteq H!Files
  BY <1>2, FilesOfHosts DEF HostTypeOK
<1>10. \A g \in FilesOf(done) : Keeps(g)
  BY <1>2, <1>4, <1>8, <1>9 DEF DoneInv
<1>11. \A g \in FilesOf(asked) : g \in H!ToSet(left) \/ Keeps(g)
  BY <1>1, <1>2, <1>3, <1>8, <1>9 DEF AskedInv
<1>12. initAt' \in {"off", "load"} /\ DoneInv' /\ AskedInv' /\ done' \subseteq Hosts /\ asked' \subseteq Hosts
       /\ (initAt' # "off" => left' \in Seq(H!Files) /\ left' # <<>>)
  BY <1>1, <1>2, <1>10, <1>11, AfterFailed
<1>13. HostTypeOK'
  BY <1>1, <1>2, <1>7, <1>12 DEF HostTypeOK
<1>14. FilesFine'
  BY <1>7 DEF FilesFine, Fine, H!ReadLines
<1>15. OutInv'
  BY <1>12 DEF OutInv
<1>16. H!ItemsKept'
  BY <1>1, <1>5, <1>7 DEF H!ItemsKept
<1>17. QED
  BY <1>12, <1>13, <1>14, <1>15, <1>16 DEF HostInv

LEMMA UpgradeKeeps == ASSUME HostInv, H!Upgrade PROVE HostInv'
<1>1. /\ initAt = "off" /\ initAt' = "off" /\ installed' = installed + 1 /\ done' = {}
      /\ UNCHANGED <<disk, left, asked, out, mine, cut>>
  BY DEF H!Upgrade
<1>2. HostTypeOK /\ FilesFine /\ H!ItemsKept
  BY DEF HostInv
<1>3. HostTypeOK'
  BY <1>1, <1>2 DEF HostTypeOK
<1>4. FilesFine'
  BY <1>1, <1>2 DEF FilesFine, Fine, H!ReadLines
<1>5. OutInv' /\ DoneInv' /\ AskedInv' /\ H!ItemsKept'
  BY <1>1, <1>2 DEF OutInv, DoneInv, AskedInv, H!ItemsKept, FilesOf
<1>6. QED
  BY <1>3, <1>4, <1>5 DEF HostInv

LEMMA UserEditsKeeps == ASSUME HostInv, NEW f \in H!Files, H!UserEdits(f) PROVE HostInv'
<1>1. PICK c \in H!Changed(f, disk[f]) : disk' = [disk EXCEPT ![f] = c] /\ mine' = [mine EXCEPT ![f] = H!Items(c)]
  BY DEF H!UserEdits
<1>2. initAt = "off" /\ initAt' = "off" /\ done' = {} /\ cut' = cut \ {f} /\ UNCHANGED <<installed, left, asked, out>>
  BY DEF H!UserEdits
<1>3. HostTypeOK /\ FilesFine /\ H!ItemsKept
  BY DEF HostInv
<1>4. Fine(f, c)
  BY <1>3, ChangedFine DEF FilesFine
<1>5. /\ disk'[f] = c /\ \A g \in H!Files \ {f} : disk'[g] = disk[g]
      /\ \A g \in H!Files : Fine(g, disk'[g])
      /\ disk' = [g \in H!Files |-> disk'[g]]
  BY <1>1, <1>3, <1>4, DiskPut
<1>6. /\ mine'[f] = H!Items(c) /\ (\A g \in H!Files \ {f} : mine'[g] = mine[g])
      /\ mine' = [g \in H!Files |-> mine'[g]]
  BY <1>1, <1>3 DEF HostTypeOK
<1>7. HostTypeOK'
  BY <1>2, <1>3, <1>5, <1>6 DEF HostTypeOK
<1>8. FilesFine'
  BY <1>5 DEF FilesFine, Fine, H!ReadLines
<1>9. OutInv' /\ DoneInv' /\ AskedInv'
  BY <1>2 DEF OutInv, DoneInv, AskedInv, FilesOf
<1>10. H!ItemsKept'
  BY <1>2, <1>3, <1>5, <1>6 DEF H!ItemsKept
<1>11. QED
  BY <1>7, <1>8, <1>9, <1>10 DEF HostInv

-----------------------------------------------------------------------------
(* The invariant is inductive, and says what is promised.                  *)

\* What the files are found to be: no value of another type where the servers,
\* the hooks or those of an event of ours should be, TOML with our table once,
\* spelled as init writes it, and each of our keys there once, as `key =` and a
\* value on that line, and nothing but the rule between the marks.
TidyStarts ==
  \A s \in Starts :
    /\ \A f \in JsonFiles : s.disk[f].is = "json" => ~s.disk[f].odd
    /\ TomlOnce(H!ReadLines(s.disk["~/.codex/config.toml"])) /\ Enclosed(H!ReadLines(s.disk["AGENTS.md"]))

LEMMA ContentsAre ==
  ASSUME NEW f \in H!Files, NEW c \in H!Contents(f)
  PROVE  c \in {H!Absent, H!Empty, H!Cut} \/ (f \in JsonFiles /\ c \in JsonDocs)
         \/ (f \notin JsonFiles /\ c.is = "lines" /\ c = H!Lines(c.lines) /\ c.lines \in Seq(LineRecs))
<1>1. ASSUME f \in JsonFiles, c \notin {H!Absent, H!Empty, H!Cut} PROVE c \in JsonDocs
  <2>1. c \in [is : {"json"}, servers : SUBSET [name : STRING, bin : Nat, extra : BOOLEAN],
               hooks : Seq([event : STRING, matcher : STRING, signal : STRING, bin : Nat, back : BOOLEAN]),
               version : BOOLEAN, odd : BOOLEAN]
    BY <1>1 DEF H!Contents, JsonFiles
  <2>2. [name : STRING, bin : Nat, extra : BOOLEAN] \subseteq ServerRecs
    BY DEF ServerRecs, Words
  <2>3. [event : STRING, matcher : STRING, signal : STRING, bin : Nat, back : BOOLEAN] \subseteq HookRecs
    BY DEF HookRecs, Words
  <2>4. \A S, T : S \subseteq T => Seq(S) \subseteq Seq(T)
    OBVIOUS
  <2>5. QED
    BY <2>1, <2>2, <2>3, <2>4 DEF JsonDocs
<1>2. ASSUME f \notin JsonFiles, c \notin {H!Absent, H!Empty, H!Cut}
      PROVE  c.is = "lines" /\ c = H!Lines(c.lines) /\ c.lines \in Seq(LineRecs)
  <2>1. c \in [is : {"lines"}, lines : Seq([is : STRING, of : STRING, val : Nat])]
    BY <1>2 DEF H!Contents, JsonFiles
  <2>2. [is : STRING, of : STRING, val : Nat] \subseteq LineRecs
    BY DEF LineRecs, Words
  <2>3. \A S, T : S \subseteq T => Seq(S) \subseteq Seq(T)
    OBVIOUS
  <2>4. c = [is |-> "lines", lines |-> c.lines] /\ c.lines \in Seq(LineRecs)
    BY <2>1, <2>2, <2>3
  <2>5. QED
    BY <2>1, <2>4 DEF H!Lines
<1>3. QED
  BY <1>1, <1>2

LEMMA HostInit == ASSUME TidyStarts, H!Init PROVE HostInv
<1>1. PICK start \in Starts : disk = start.disk
  BY DEF H!Init
<1>2. /\ installed = 1 /\ initAt = "off" /\ left = <<>> /\ asked = {} /\ done = {}
      /\ mine = [f \in H!Files |-> H!Items(disk[f])]
  BY DEF H!Init
<1>3. disk = [f \in H!Files |-> disk[f]] /\ \A f \in H!Files : disk[f] \in H!Contents(f)
  BY <1>1, SetupGiven DEF H!HostSetupAssumption
<1>4. /\ \A f \in JsonFiles : disk[f].is = "json" => ~disk[f].odd
      /\ TomlOnce(H!ReadLines(disk["~/.codex/config.toml"])) /\ Enclosed(H!ReadLines(disk["AGENTS.md"]))
  BY <1>1 DEF TidyStarts
<1>5. HostTypeOK
  BY <1>2, <1>3 DEF HostTypeOK
<1>6. ASSUME NEW f \in H!Files PROVE Fine(f, disk[f])
  <2>1. \/ disk[f] \in {H!Absent, H!Empty, H!Cut}
        \/ f \in JsonFiles /\ disk[f] \in JsonDocs
        \/ f \notin JsonFiles /\ disk[f].is = "lines" /\ disk[f] = H!Lines(disk[f].lines) /\ disk[f].lines \in Seq(LineRecs)
    BY <1>3, ContentsAre
  <2>2. f \in JsonFiles /\ disk[f] \in JsonDocs => ~disk[f].odd
    BY <1>4, NotError
  <2>3. f \notin JsonFiles => H!ReadLines(disk[f]) \in Seq(LineRecs)
    <3>1. CASE disk[f] \in {H!Absent, H!Empty, H!Cut}
      BY <3>1, SimplyIs, NoLines
    <3>2. CASE disk[f].is = "lines" /\ disk[f].lines \in Seq(LineRecs)
      BY <3>2 DEF H!ReadLines
    <3>3. QED
      BY <2>1, <3>1, <3>2
  <2>4. f = "~/.codex/config.toml" => Tidy(H!ReadLines(disk[f]))
    BY <1>4, <2>3, TidyIf, FilesDiffer
  <2>5. QED
    BY <1>4, <2>1, <2>2, <2>4 DEF Fine
<1>7. OutInv /\ DoneInv /\ AskedInv
  BY <1>2 DEF OutInv, DoneInv, AskedInv, FilesOf
<1>8. H!ItemsKept
  BY <1>2 DEF H!ItemsKept
<1>9. QED
  BY <1>5, <1>6, <1>7, <1>8 DEF HostInv, FilesFine

LEMMA HostStep == ASSUME HostInv, ~HookInPath, H!Next PROVE HostInv'
<1>1. H!DetectHosts \in SUBSET Hosts
  BY DEF H!DetectHosts, Hosts
<1>2. \A h \in {"claude-code", "cursor", "codex"} : {h} \in SUBSET Hosts
  BY DEF Hosts
<1>3. CASE \E hosts \in SUBSET Hosts : H!RunInit(hosts)
  BY <1>3, RunInitKeeps
<1>4. CASE H!Load
  BY <1>4, LoadKeeps
<1>5. CASE H!Open
  BY <1>5, OpenKeeps
<1>6. CASE H!Write
  BY <1>6, WriteKeeps
<1>7. CASE H!Fails
  BY <1>7, InitFailsKeeps
<1>8. CASE H!Upgrade
  BY <1>8, UpgradeKeeps
<1>9. CASE \E f \in H!Files : H!UserEdits(f)
  BY <1>9, UserEditsKeeps
<1>10. QED
  BY <1>1, <1>2, <1>3, <1>4, <1>5, <1>6, <1>7, <1>8, <1>9 DEF H!Next

LEMMA HostStutters == ASSUME HostInv, UNCHANGED H!vars PROVE HostInv'
<1>1. UNCHANGED <<disk, git, installed, initAt, left, asked, out, mine, done, cut>>
  BY DEF H!vars
<1>2. HostTypeOK /\ FilesFine /\ OutInv /\ DoneInv /\ AskedInv /\ H!ItemsKept
  BY DEF HostInv
<1>3. \A f : Keeps(f) <=> H!Same(f, disk[f])
  BY <1>1, KeepsIs
<1>4. HostTypeOK' /\ FilesFine' /\ H!ItemsKept'
  BY <1>1, <1>2 DEF HostTypeOK, FilesFine, Fine, H!ReadLines, H!ItemsKept
<1>5. DoneInv' /\ AskedInv'
  <2>1. (\A f \in FilesOf(done) : Keeps(f)) /\ (initAt # "off" => \A f \in FilesOf(asked) : f \in H!ToSet(left) \/ Keeps(f))
    BY <1>2, <1>3 DEF DoneInv, AskedInv
  <2>2. QED
    BY <1>1, <2>1 DEF DoneInv, AskedInv, Keeps, FilesOf, H!ToSet
<1>6. OutInv'
  <2> DEFINE f == Head(left)
  <2>1. SUFFICES ASSUME initAt \in {"open", "write"} PROVE OutInv'
    BY <1>1 DEF OutInv
  <2>2. Fine(f, out) /\ H!Same(f, out) /\ f \notin FilesOf(done)
        /\ (f \notin cut \union {".cursor/rules"} => mine[f] \subseteq H!Items(out))
    BY <1>2, <2>1 DEF OutInv
  <2>3. PICK g, m : g = f /\ m = out
    OBVIOUS
  <2>4. H!Same(g, m)' <=> H!Same(g, m)
    BY <1>1, SameStays
  <2>5. g = Head(left)' /\ m = out'
    BY <1>1, <2>3
  <2>6. H!Same(Head(left), out)'
    BY <2>2, <2>3, <2>4, <2>5
  <2>7. Fine(Head(left), out)'
    BY <2>2, <2>3, <2>5 DEF Fine, H!ReadLines
  <2>8. (Head(left) \notin FilesOf(done))'
    BY <1>1, <2>2 DEF FilesOf
  <2>9. (Head(left) \notin cut \union {".cursor/rules"} => mine[Head(left)] \subseteq H!Items(out))'
    BY <1>1, <2>2
  <2>10. QED
    BY <2>6, <2>7, <2>8, <2>9 DEF OutInv
<1>7. QED
  BY <1>4, <1>5, <1>6 DEF HostInv

LEMMA HostPromises == ASSUME HostInv, ~HookInPath PROVE H!UsersKept /\ H!Idempotent /\ H!Wired
<1>1. HostTypeOK /\ FilesFine /\ DoneInv /\ H!ItemsKept
  BY DEF HostInv
<1>2. H!ValidToml(H!ReadLines(disk["~/.codex/config.toml"]))
  <2>1. "~/.codex/config.toml" \in H!Files \ JsonFiles
    BY FilesDiffer DEF H!Files
  <2>2. Tidy(H!ReadLines(disk["~/.codex/config.toml"])) /\ H!ReadLines(disk["~/.codex/config.toml"]) \in Seq(LineRecs)
    BY <1>1, <2>1, FineLines DEF FilesFine
  <2>3. QED
    BY <2>2, TidyValid
<1>3. H!UsersKept
  BY <1>1, <1>2 DEF H!UsersKept
<1>4. H!Idempotent
  BY <1>1 DEF DoneInv, H!Idempotent, FilesOf
<1>5. \A f \in FilesOf(done) : Starter(f, disk[f])
  <2>1. FilesOf(done) \subseteq H!Files
    BY <1>1, FilesOfHosts DEF HostTypeOK
  <2>2. QED
    BY <1>1, <2>1, SameStarts DEF DoneInv, FilesFine, HostTypeOK
<1>6. H!Wired
  <2>1. "claude-code" \in done => Starter(".mcp.json", disk[".mcp.json"]) /\ Starter(".claude/settings.json", disk[".claude/settings.json"])
    BY <1>5, FilesOfEach DEF FilesOf
  <2>2. "cursor" \in done => Starter(".cursor/mcp.json", disk[".cursor/mcp.json"]) /\ Starter(".cursor/hooks.json", disk[".cursor/hooks.json"])
    BY <1>5, FilesOfEach DEF FilesOf
  <2>3. "codex" \in done => /\ Starter("~/.codex/config.toml", disk["~/.codex/config.toml"])
                            /\ Starter("AGENTS.md", disk["AGENTS.md"]) /\ Starter(".codex/hooks.json", disk[".codex/hooks.json"])
    BY <1>5, FilesOfEach DEF FilesOf
  <2>4. \A f \in H!ServerFiles : (f = ".mcp.json" /\ "claude-code" \in done) \/ (f # ".mcp.json" /\ "cursor" \in done) =>
          {s.bin : s \in {s \in disk[f].servers : s.name = "contextmaxxer"}} = {installed}
    <3>1. ASSUME NEW f \in H!ServerFiles, (f = ".mcp.json" /\ "claude-code" \in done) \/ (f # ".mcp.json" /\ "cursor" \in done)
          PROVE  Starter(f, disk[f])
      BY <2>1, <2>2, <3>1 DEF H!ServerFiles
    <3>2. QED
      BY <3>1 DEF Starter
  <2>5. "claude-code" \in done => LET f == ".claude/settings.json"
                                  IN H!HasHook(f, "PreToolUse", "pre-search") /\ H!HasHook(f, "PostToolUse", "post-find")
                                     /\ H!HasHook(f, "PostToolUse", "post-search")
    BY <2>1 DEF Starter, HooksOf, H!HasHook
  <2>6. "cursor" \in done => H!HasHook(".cursor/hooks.json", "beforeShellExecution", "search-signal")
    BY <2>2 DEF Starter, HooksOf, H!HasHook
  <2>7. "codex" \in done => H!HasHook(".codex/hooks.json", "PreToolUse", "search-signal")
    BY <2>3 DEF Starter, HooksOf, H!HasHook
  <2>8. "codex" \in done =>
          LET toml == disk["~/.codex/config.toml"].lines
          IN H!ValidToml(toml) /\ \A k \in {"command", "args"} : {toml[i].val : i \in H!KeyLines(toml, k)} = {installed}
    <3>1. SUFFICES ASSUME "codex" \in done
                   PROVE  LET toml == disk["~/.codex/config.toml"].lines
                          IN H!ValidToml(toml) /\ \A k \in {"command", "args"} : {toml[i].val : i \in H!KeyLines(toml, k)} = {installed}
      OBVIOUS
    <3>2. PICK c : c = disk["~/.codex/config.toml"]
      OBVIOUS
    <3>3. TomlWired(c.lines)
      BY <2>3, <3>1, <3>2 DEF Starter
    <3>4. \A k \in {"command", "args"} : {c.lines[i].val : i \in H!KeyLines(c.lines, k)} = {installed}
      BY <3>3 DEF TomlWired, OurKeys, Values, H!KeyLines
    <3>5. c.is = "lines"
      <4>1. H!Same("~/.codex/config.toml", c)
        BY <1>1, <3>1, <3>2, FilesOfEach DEF DoneInv, FilesOf
      <4>2. "~/.codex/config.toml" \in H!Files /\ "~/.codex/config.toml" # ".gitignore"
        BY DEF H!Files
      <4>3. c = H!Lines(H!appendCodexServer(H!ReadLines(c)))
        BY <4>1, <4>2, MergedIs DEF H!Same
      <4>4. QED
        BY <4>3 DEF H!Lines
    <3>6. H!ValidToml(c.lines)
      BY <1>2, <3>2, <3>5 DEF H!ReadLines
    <3>7. QED
      BY <3>2, <3>4, <3>6
  <2>9. "codex" \in done => HasBlock(disk["AGENTS.md"].lines)
    BY <2>3 DEF Starter
  <2>10. QED
    BY <2>4, <2>5, <2>6, <2>7, <2>8, <2>9 DEF H!Wired, HasBlock
<1>7. QED
  BY <1>3, <1>4, <1>6

-----------------------------------------------------------------------------
(* The commands.                                                           *)

\* While processes take turns, a model that is there is the file that was
\* pinned, one that gives out a session has a whole library and what comes with
\* it, unless that was cut off while it was unpacked, and a failure leaves
\* neither archive nor .tmp file, but one it could not rename, as long as no
\* process died (ensureRuntime, DownloadModel).
THEOREM RuntimeHeld == ~Overlap => (SetupSpec => []RuntimeWhole)
<1> SUFFICES ASSUME ~Overlap PROVE SetupSpec => []RuntimeWhole
  OBVIOUS
<1>1. SetupInit => InstallInv
  BY InstallInit DEF SetupInit
<1>2. InstallInv /\ [SetupNext]_setupVars => InstallInv'
  <2> SUFFICES ASSUME InstallInv, [SetupNext]_setupVars PROVE InstallInv'
    OBVIOUS
  <2>1. CASE I!Next
    BY <2>1, InstallStep
  <2>2. CASE UNCHANGED installVars
    <3>1. UNCHANGED I!vars
      BY <2>2 DEF installVars, I!vars
    <3>2. QED
      BY <3>1, InstallStutters
  <2>3. QED
    BY <2>1, <2>2 DEF SetupNext, setupVars
<1>3. InstallInv => RuntimeWhole
  BY InstallPromises DEF RuntimeWhole
<1>4. QED
  BY <1>1, <1>2, <1>3, PTL DEF SetupSpec, setupVars

\* No enrichment that could read the file undoes what is there, one that ends has saved all it got,
\* and what a death loses is bounded by a save per worker, whatever runs are
\* forced, cancelled, fail or die, while the agent does not write beside one
\* (enrich.go: "partial runs").
THEOREM EnrichmentHeld == ~AgentBeside => (SetupSpec => EnrichmentKept)
<1> SUFFICES ASSUME ~AgentBeside PROVE SetupSpec => EnrichmentKept
  OBVIOUS
<1> DEFINE Kept == blind \/ \A n \in Names : file[n] # 0 => file'[n] # 0
           Saved == at = "rename" /\ at' = "off" /\ <<endings, failures>>' = <<endings, failures>> => file' = sidecar
<1>1. SetupInit => EnrichInv
  BY EnrichInit DEF SetupInit
<1>2. ASSUME [SetupNext]_setupVars PROVE Next \/ UNCHANGED vars
  BY <1>2 DEF SetupNext, setupVars
<1>3. EnrichInv /\ [SetupNext]_setupVars => EnrichInv'
  BY <1>2, EnrichStep, EnrichStutters
<1>4. EnrichInv => LossBounded
  BY AnswersBounded
<1>5. EnrichInv /\ [SetupNext]_setupVars => [Kept]_vars
  BY <1>2, SummariesStep
<1>6. EnrichInv /\ [SetupNext]_setupVars => [Saved]_vars
  BY <1>2, EndedStep
<1>7. QED
  BY <1>1, <1>3, <1>4, <1>5, <1>6, PTL DEF SetupSpec, setupVars, EnrichmentKept, SummariesKept, EndedIsSaved

\* hostsetup.go merges what it installs into files the user already has:
\* over any sequence of setups what was the user's stays there, and a host
\* whose setup ended without an error is wired and would not change again.
\* Of the user's files it is assumed that nothing of another type is where the
\* servers and the hooks should be, that our TOML table and its keys are there
\* once and written as init writes them, a key and its value on one line, and
\* that only the rule is between its marks; and of the path of the binary that
\* it does not hold what a hook is known by.
THEOREM HostsHeld == TidyStarts /\ ~HookInPath => (SetupSpec => []HostsKept)
<1> SUFFICES ASSUME TidyStarts, ~HookInPath
             PROVE  SetupSpec => []HostsKept
  OBVIOUS
<1>1. SetupInit => HostInv
  BY HostInit DEF SetupInit
<1>2. HostInv /\ [SetupNext]_setupVars => HostInv'
  <2> SUFFICES ASSUME HostInv, [SetupNext]_setupVars
               PROVE  HostInv'
    OBVIOUS
  <2>1. CASE H!Next
    BY <2>1, HostStep
  <2>2. CASE UNCHANGED hostVars
    <3>1. UNCHANGED H!vars
      BY <2>2 DEF hostVars, H!vars
    <3>2. QED
      BY <3>1, HostStutters
  <2>3. H!Next \/ UNCHANGED hostVars
    BY DEF SetupNext, setupVars
  <2>4. QED
    BY <2>1, <2>2, <2>3
<1>3. HostInv => HostsKept
  BY HostPromises DEF HostsKept
<1>4. QED
  BY <1>1, <1>2, <1>3, PTL DEF SetupSpec, setupVars

=============================================================================
