------------------------------ MODULE Install ------------------------------
(***************************************************************************)
(* Before it can embed anything, a contextmaxxer process sees to it that   *)
(* the ONNX Runtime and the model files are in the cache directory of the  *)
(* user (embed/model.go, embed/onnx.go, rerank/onnx.go).  A download goes  *)
(* to a .tmp file, is checked against its pinned hash and renamed; what is *)
(* taken out of an archive is written where it belongs at once.  Whether a *)
(* file is there is all a later run asks.                                  *)
(*                                                                         *)
(* Several processes (the server, index, warmup) share the directory; each *)
(* may fail or die at any place.  A file is an inode of Chunks chunks.     *)
(***************************************************************************)
EXTENDS Naturals, Sequences, SequencesExt, FiniteSets, FiniteSetsExt

CONSTANTS
  Processes,
  Machines,    \* [os, asked, cuda, attaches]: see Init
  Models,      \* the model files, in the order they are fetched
  Chunks,      \* chunks of every file
  Overlap,     \* whether two processes may be at it at a time
  Corruptions, \* bound on the downloads that differ from their hash
  Failures, Deaths  \* bounds on calls that fail and processes that die

VARIABLES
  machine,  \* os and architecture, $CONTEXTMAXXER_ORT_PROVIDER, whether CUDA
            \* loads, whether the provider attaches
  files,    \* files[f]: the inode of f, 0 when there is none
  parts,    \* parts[f]: the same of f.tmp
  data,     \* data[i]: the chunks of inode i
  job,      \* job[p]: what p has still to do
  corruptions, failures, deaths,
  cut,      \* history: files whose extraction was cut off
  stranded  \* history: files whose .tmp could not be given their name

vars == <<machine, files, parts, data, job, corruptions, failures, deaths, cut, stranded>>

-----------------------------------------------------------------------------
(* What a machine needs.                                                   *)

OrtProvider ==
  IF machine.asked # "auto" THEN machine.asked
  ELSE IF machine.os # "windows-amd64" THEN "cpu"
  ELSE IF machine.cuda THEN "cuda" ELSE "directml"

Supported ==
  IF OrtProvider = "cuda" THEN machine.os \in {"linux-amd64", "windows-amd64"}
                          ELSE machine.os \in {"linux-amd64", "linux-arm64", "darwin-arm64", "windows-amd64"}

\* Libraries that come in the archive of the runtime, and those that have
\* one of their own.
Extras == IF OrtProvider = "cuda" THEN <<"providers_shared", "providers_cuda">> ELSE <<>>
Companions == IF OrtProvider = "directml" /\ machine.os = "windows-amd64" THEN <<"DirectML">> ELSE <<>>

Archives == {"runtime.archive", "companion.archive"}
Libraries == {"lib", "providers_shared", "providers_cuda", "DirectML"}
Paths == Archives \union Libraries \union ToSet(Models)

InstallAssumption ==
  /\ {Chunks, Corruptions, Failures, Deaths} \subseteq Nat /\ Chunks > 0 /\ Overlap \in BOOLEAN
  /\ Models \in Seq(STRING) /\ ToSet(Models) \intersect (Archives \union Libraries) = {}

Present(f) == files[f] # 0
Whole(f) == Present(f) /\ data[files[f]] = [c \in 1 .. Chunks |-> "good"]

\* A step of a process: fetch a file, unpack one from an archive, drop an
\* archive, or initialize what has been installed.  The steps of a goal are
\* left out when all the files of unless are there.
Fetch(f) == [do |-> "fetch", from |-> f, to |-> f]
Unpack(f, a) == [do |-> "unpack", from |-> a, to |-> f]
Drop(a) == [do |-> "drop", from |-> a, to |-> a]
Goal(unless, steps) == [unless |-> unless, steps |-> steps]

FetchCompanion(c) == <<Fetch("companion.archive"), Unpack(c, "companion.archive"), Drop("companion.archive")>>

\* Mutant: only the main library is looked for.
RuntimeGoalsOfLib ==
  IF Present("lib") THEN <<>>
  ELSE <<Goal({}, <<Fetch("runtime.archive"), Unpack("lib", "runtime.archive")>>
                  \o [i \in DOMAIN Extras |-> Unpack(Extras[i], "runtime.archive")]
                  \o FlattenSeq([i \in DOMAIN Companions |-> FetchCompanion(Companions[i])])
                  \o <<Drop("runtime.archive")>>)>>

RuntimeGoals ==
  IF Present("lib") /\ \A c \in ToSet(Companions) : Present(c) THEN <<>>
  ELSE IF Present("lib") THEN [i \in DOMAIN Companions |-> Goal({Companions[i]}, FetchCompanion(Companions[i]))]
  ELSE <<Goal({}, <<Fetch("runtime.archive"), Unpack("lib", "runtime.archive")>>
                  \o [i \in DOMAIN Extras |-> Unpack(Extras[i], "runtime.archive")]
                  \o FlattenSeq([i \in DOMAIN Companions |-> FetchCompanion(Companions[i])])
                  \o <<Drop("runtime.archive")>>)>>

ModelGoals == [i \in DOMAIN Models |-> Goal({Models[i]}, <<Fetch(Models[i])>>)]

InitRuntime == Goal({}, <<[do |-> "init", from |-> "lib", to |-> "lib"]>>)
OpenSession == Goal({}, <<[do |-> "open", from |-> "lib", to |-> "lib"]>>)

-----------------------------------------------------------------------------
Off(result) == [at |-> "off", todo |-> <<>>, steps |-> <<>>, out |-> 0, in |-> 0, off |-> 0,
                stream |-> "good", held |-> {}, result |-> result]

Init ==
  /\ machine \in Machines
  /\ files = [f \in Paths |-> 0] /\ parts = [f \in Paths |-> 0] /\ data = <<>>
  /\ job = [p \in Processes |-> Off("none")]
  /\ corruptions = 0 /\ failures = 0 /\ deaths = 0 /\ cut = {} /\ stranded = {}

Step(p) == Head(job[p].steps)
Doing(p, what) == job[p].at = "run" /\ job[p].steps # <<>> /\ Step(p).do = what
StepDone(p) == [job[p] EXCEPT !.at = "run", !.steps = Tail(@)]

\* p returns an error; the archives it fetched are removed on the way out.
ReturnError(p) ==
  /\ files' = [f \in Paths |-> IF f \in job[p].held THEN 0 ELSE files[f]]
  /\ job' = [job EXCEPT ![p] = Off("failed")]

\* What p would leave half unpacked if it stopped now: the file it copies,
\* and what has to follow the library in its archive.
HalfUnpacked(p) ==
  (IF job[p].at = "copy" THEN {Step(p).to} ELSE {})
  \union {f \in ToSet(Extras) : Present("lib") /\ Unpack(f, "runtime.archive") \in ToSet(job[p].steps)}

NewEmbedder(p) ==
  /\ job[p].at = "off" /\ (Overlap \/ \A q \in Processes : job[q].at = "off")
  /\ Supported
  /\ job' = [job EXCEPT ![p] = [Off("none") EXCEPT !.at = "run",
               !.todo = RuntimeGoals \o <<InitRuntime>> \o ModelGoals \o <<OpenSession>>]]
  /\ UNCHANGED <<machine, files, parts, data, corruptions, failures, deaths, cut, stranded>>

NextGoal(p) ==
  /\ job[p].at = "run" /\ job[p].steps = <<>> /\ job[p].todo # <<>>
  /\ LET goal == Head(job[p].todo)
         there == goal.unless # {} /\ \A f \in goal.unless : Present(f)
     IN job' = [job EXCEPT ![p].todo = Tail(@), ![p].steps = IF there THEN <<>> ELSE goal.steps]
  /\ UNCHANGED <<machine, files, parts, data, corruptions, failures, deaths, cut, stranded>>

\* os.Create and O_TRUNC: the inode at a path, emptied, or a new one.
Truncated(i) == IF i = 0 THEN Append(data, <<>>) ELSE [data EXCEPT ![i] = <<>>]
InodeFor(i) == IF i = 0 THEN Len(data) + 1 ELSE i

\* The response has begun; the server may send other bytes than were pinned.
BeginDownload(p) ==
  /\ Doing(p, "fetch")
  /\ LET i == parts[Step(p).to] IN
     \E s \in {"good"} \union (IF corruptions < Corruptions THEN {"bad"} ELSE {}) :
       /\ data' = Truncated(i) /\ parts' = [parts EXCEPT ![Step(p).to] = InodeFor(i)]
       /\ job' = [job EXCEPT ![p].at = "write", ![p].out = InodeFor(i), ![p].off = 0, ![p].stream = s]
       /\ corruptions' = corruptions + (IF s = "bad" THEN 1 ELSE 0)
  /\ UNCHANGED <<machine, files, failures, deaths, cut, stranded>>

\* Chunk n of a file becomes x; what lies before it and was never written is
\* a hole.
Put(chunks, n, x) ==
  [c \in 1 .. Max({n, Len(chunks)}) |-> IF c = n THEN x ELSE IF c <= Len(chunks) THEN chunks[c] ELSE "hole"]

WriteChunk(p) ==
  /\ job[p].at = "write" /\ job[p].off < Chunks
  /\ data' = [data EXCEPT ![job[p].out] = Put(@, job[p].off + 1, job[p].stream)]
  /\ job' = [job EXCEPT ![p].off = @ + 1]
  /\ UNCHANGED <<machine, files, parts, corruptions, failures, deaths, cut, stranded>>

\* Mutant: the checksum is only logged.
VerifiedNever(p) == TRUE
\* The hash is taken of what was received.
Verified(p) == job[p].stream = "good"

FinishDownload(p) ==
  /\ job[p].at = "write" /\ job[p].off = Chunks
  /\ LET f == Step(p).to IN
     /\ parts' = [parts EXCEPT ![f] = 0]
     /\ IF Verified(p) /\ parts[f] # 0
        THEN /\ files' = [files EXCEPT ![f] = parts[f]]
             /\ job' = [job EXCEPT ![p] = [StepDone(p) EXCEPT !.held = @ \union ({f} \intersect Archives)]]
        ELSE ReturnError(p)
  /\ UNCHANGED <<machine, data, corruptions, failures, deaths, cut, stranded>>

OpenEntry(p) ==
  /\ Doing(p, "unpack")
  /\ LET i == files[Step(p).to] IN
     IF Present(Step(p).from)
     THEN /\ data' = Truncated(i) /\ files' = [files EXCEPT ![Step(p).to] = InodeFor(i)]
          /\ job' = [job EXCEPT ![p].at = "copy", ![p].out = InodeFor(i), ![p].in = files[Step(p).from], ![p].off = 0]
          /\ UNCHANGED cut
     ELSE ReturnError(p) /\ cut' = cut \union HalfUnpacked(p) /\ UNCHANGED data
  /\ UNCHANGED <<machine, parts, corruptions, failures, deaths, stranded>>

CopyChunk(p) ==
  /\ job[p].at = "copy" /\ job[p].off < Chunks
  /\ LET from == data[job[p].in]  n == job[p].off + 1 IN
     IF n <= Len(from) /\ from[n] # "hole"
     THEN /\ data' = [data EXCEPT ![job[p].out] = Put(@, n, from[n])]
          /\ job' = [job EXCEPT ![p].off = n]
          /\ UNCHANGED <<files, cut>>
     ELSE ReturnError(p) /\ cut' = cut \union HalfUnpacked(p) /\ UNCHANGED data
  /\ UNCHANGED <<machine, parts, corruptions, failures, deaths, stranded>>

CloseEntry(p) ==
  /\ job[p].at = "copy" /\ job[p].off = Chunks
  /\ job' = [job EXCEPT ![p] = StepDone(p)]
  /\ UNCHANGED <<machine, files, parts, data, corruptions, failures, deaths, cut, stranded>>

DropArchive(p) ==
  /\ Doing(p, "drop")
  /\ files' = [files EXCEPT ![Step(p).to] = 0]
  /\ job' = [job EXCEPT ![p] = [StepDone(p) EXCEPT !.held = @ \ {Step(p).to}]]
  /\ UNCHANGED <<machine, parts, data, corruptions, failures, deaths, cut, stranded>>

\* InitializeEnvironment loads the library.
InitializeEnvironment(p) ==
  /\ Doing(p, "init")
  /\ IF Whole("lib") THEN job' = [job EXCEPT ![p] = StepDone(p)] /\ UNCHANGED files ELSE ReturnError(p)
  /\ UNCHANGED <<machine, parts, data, corruptions, failures, deaths, cut, stranded>>

\* A provider attaches if the machine has it and its libraries load; one that
\* was asked for by name must, otherwise the session runs on the CPU.
Attached == machine.attaches /\ \A f \in ToSet(Extras) \union ToSet(Companions) : Whole(f)
Tolerated == machine.asked = "auto" \/ OrtProvider = "cpu"

NewSession(p) ==
  /\ Doing(p, "open")
  /\ IF (Attached \/ Tolerated) /\ \A m \in ToSet(Models) : Whole(m)
     THEN job' = [job EXCEPT ![p] = Off("ready")] /\ UNCHANGED files
     ELSE ReturnError(p)
  /\ UNCHANGED <<machine, parts, data, corruptions, failures, deaths, cut, stranded>>

\* A call fails before that: the connection, the disk.  A download removes
\* its .tmp; to remove and to close a file always succeed.
Fails(p) ==
  /\ failures < Failures /\ failures' = failures + 1
  /\ job[p].at \in {"write", "copy"} \/ Doing(p, "fetch") \/ Doing(p, "unpack")
  /\ parts' = IF job[p].at = "write" THEN [parts EXCEPT ![Step(p).to] = 0] ELSE parts
  /\ cut' = cut \union HalfUnpacked(p)
  /\ ReturnError(p)
  /\ UNCHANGED <<machine, data, corruptions, deaths, stranded>>

\* The file that has been checked cannot be given its name: its .tmp stays.
RenameFails(p) ==
  /\ failures < Failures /\ failures' = failures + 1
  /\ job[p].at = "write" /\ job[p].off = Chunks /\ Verified(p)
  /\ stranded' = stranded \union {Step(p).to}
  /\ cut' = cut \union HalfUnpacked(p)
  /\ ReturnError(p)
  /\ UNCHANGED <<machine, parts, data, corruptions, deaths>>

Dies(p) ==
  /\ job[p].at # "off" /\ deaths < Deaths /\ deaths' = deaths + 1
  /\ job' = [job EXCEPT ![p] = Off("dead")]
  /\ cut' = cut \union HalfUnpacked(p)
  /\ UNCHANGED <<machine, files, parts, data, corruptions, failures, stranded>>

Runs(p) ==
  \/ NextGoal(p) \/ BeginDownload(p) \/ WriteChunk(p) \/ FinishDownload(p)
  \/ OpenEntry(p) \/ CopyChunk(p) \/ CloseEntry(p) \/ DropArchive(p)
  \/ InitializeEnvironment(p) \/ NewSession(p)

Next == \E p \in Processes : NewEmbedder(p) \/ Runs(p) \/ Fails(p) \/ RenameFails(p) \/ Dies(p)

\* A process runs on; sooner or later another is started.
Fairness == \A p \in Processes : WF_vars(Runs(p)) /\ WF_vars(NewEmbedder(p))

Spec == Init /\ [][Next]_vars /\ Fairness
-----------------------------------------------------------------------------
(* Properties.                                                             *)

\* A model file that is there is the file that was pinned, however the runs
\* that fetched it ended (model.go: "the hash is verified after download").
DownloadsWhole == \A m \in ToSet(Models) : Present(m) => Whole(m)

\* A process gives its session out only over files that are what they should
\* be, on the provider that was asked for, and leaves nothing behind but what
\* a run that died left.
ReadyWhole ==
  \A p \in Processes : job[p].result = "ready" =>
    /\ Whole("lib") /\ (machine.asked \in {"cuda", "directml"} => machine.attaches)
    /\ \A f \in ToSet(Extras) \union ToSet(Companions) : f \in cut \/ Whole(f)

\* A failure cleans up: with no process at work and none that died, there is
\* neither an archive nor a .tmp file, but those that could not be renamed.
FailureLeavesNothing ==
  (\A p \in Processes : job[p].at = "off") /\ deaths = 0 =>
    (\A f \in Paths : parts[f] = 0 \/ f \in stranded) /\ ~ \E a \in Archives : Present(a)

\* Failed and broken runs, and corrupted downloads, are made good by later
\* runs, unless one was cut off while it unpacked (warmup.go: "Idempotent").
EventuallyReady ==
  Supported /\ (machine.attaches \/ Tolerated) =>
    <>(cut # {} \/ \E p \in Processes : job[p].result = "ready")

-----------------------------------------------------------------------------
(* What the code does not keep.                                            *)

\* A run that is cut off while it unpacks is made good by a later one.
EvenWhenCut ==
  Supported /\ (machine.attaches \/ Tolerated) => <>(\E p \in Processes : job[p].result = "ready")

\* A failed run leaves no .tmp file, whichever call failed.
RenameLeavesNothing == (\A p \in Processes : job[p].at = "off") /\ deaths = 0 => \A f \in Paths : parts[f] = 0

=============================================================================
