------------------------------ MODULE Feedback ------------------------------
(***************************************************************************)
(* The feedback log (feedback/recorder.go): retrievals wait in a ring of   *)
(* the server until a label arrives and the two are appended to the log;   *)
(* the last retrieval is also left in a file of its own, the breadcrumb,   *)
(* for the hooks of the agent's host, which are processes of their own and *)
(* label it when the agent goes on to search.  Whoever appends rotates the *)
(* log first when it is large, under the mutex of its own Recorder.        *)
(*                                                                         *)
(* Requests are numbered as they are asked.  A file is what its name links *)
(* to at the moment, so files are numbered as they are created, and a file *)
(* that was opened is written to whatever it is called by then.            *)
(***************************************************************************)
EXTENDS Naturals, Sequences, FiniteSets

CONSTANTS
  Handlers,     \* calls of record_feedback the server handles at a time
  Hooks,        \* hook processes at a time
  RingLimit,    \* pendingRetrievals
  LogCap,       \* maxBytes, in records
  MaxRequests,  \* bound on retrievals
  MaxLosses     \* bound on failed appends and restarts of the server

ASSUME FeedbackAssumption ==
  /\ RingLimit \in Nat \ {0} /\ LogCap \in Nat \ {0}
  /\ MaxRequests \in Nat /\ MaxLosses \in Nat
  /\ Handlers \cap Hooks = {}

VARIABLES
  asked,       \* the number of retrievals so far
  pending,     \* the requests whose retrievals are held
  order,       \* the same, oldest first
  breadcrumb,  \* the request in the .pending file, 0 for no file
  files,       \* files[k]: the records in the k-th log file, as indexes into written
  log,         \* the file named feedback.jsonl, 0 for none
  rotated,     \* the file named feedback.jsonl.1, 0 for none
  job,         \* job[p]: where p is, the request and the kind of record it is about
  mu,          \* the server's mutex, held across the steps of an append
  told,        \* history: the requests the agent has labelled
  written,     \* history: every record in the order of the writes
  aged,        \* history: requests whose held retrieval was dropped
  losses

vars == <<asked, pending, order, breadcrumb, files, log, rotated, job, mu, told, written, aged, losses>>
logVars == <<files, log, rotated, written>>

Processes == Handlers \cup Hooks
NoJob == [at |-> "idle", id |-> 0, kind |-> "none", file |-> 0]
InOrder(s) == {s[i] : i \in DOMAIN s}

Init ==
  /\ asked = 0 /\ pending = {} /\ order = <<>> /\ breadcrumb = 0
  /\ files = <<>> /\ log = 0 /\ rotated = 0
  /\ job = [p \in Processes |-> NoJob] /\ mu = "free"
  /\ told = {} /\ written = <<>> /\ aged = {} /\ losses = 0

Goto(p, place) == job' = [job EXCEPT ![p].at = place]

-----------------------------------------------------------------------------
(* The server's ring.                                                      *)

\* Mutant: evicted requests stay in pending.
EvictOrderOnly(held, ids) ==
  /\ order' = IF Len(ids) > RingLimit THEN Tail(ids) ELSE ids
  /\ pending' = held

Evict(held, ids) ==
  /\ order' = IF Len(ids) > RingLimit THEN Tail(ids) ELSE ids
  /\ pending' = IF Len(ids) > RingLimit THEN held \ {Head(ids)} ELSE held

\* RecordRetrieval, holdRetrieval: the oldest goes when the ring is full, and
\* the breadcrumb is overwritten.
HoldRetrieval ==
  /\ asked < MaxRequests /\ mu = "free"
  /\ asked' = asked + 1
  /\ Evict(pending \cup {asked + 1}, Append(order, asked + 1))
  /\ aged' = aged \cup (pending \ pending')
  /\ breadcrumb' = asked + 1
  /\ UNCHANGED <<logVars, job, mu, told, losses>>

\* takeRetrieval: out of the map, and out of the order where it is met first.
TakeOut(id) ==
  /\ pending' = pending \ {id}
  /\ \/ id \notin pending \cap InOrder(order) /\ order' = order
     \/ \E i \in DOMAIN order :
          /\ id \in pending /\ order[i] = id /\ \A k \in 1 .. i - 1 : order[k] # id
          /\ order' = SubSeq(order, 1, i - 1) \o SubSeq(order, i + 1, Len(order))

\* Mutant: the retrieval is taken, and only the label appended.
TakeRetrievalLabelOnly(h, id) ==
  /\ job[h].at = "idle" /\ id \in 1 .. asked \ told /\ mu = "free"
  /\ told' = told \cup {id}
  /\ job' = [job EXCEPT ![h] = [NoJob EXCEPT !.at = "clear", !.id = id, !.kind = "retrieval"]]
  /\ TakeOut(id)
  /\ UNCHANGED <<asked, breadcrumb, logVars, mu, aged, losses>>

\* RecordFeedback: the agent labels a request, once.
TakeRetrieval(h, id) ==
  /\ job[h].at = "idle" /\ id \in 1 .. asked \ told /\ mu = "free"
  /\ told' = told \cup {id}
  /\ job' = [job EXCEPT ![h] = [NoJob EXCEPT !.at = IF id \in pending THEN "stat" ELSE "clear",
                                             !.id = id, !.kind = "retrieval"]]
  /\ TakeOut(id)
  /\ UNCHANGED <<asked, breadcrumb, logVars, mu, aged, losses>>

\* os.Remove(PendingPath), whatever request is in it; the label comes next.
ClearBreadcrumb(h) ==
  /\ job[h].at = "clear"
  /\ breadcrumb' = 0
  /\ job' = [job EXCEPT ![h].at = "stat", ![h].kind = "label"]
  /\ UNCHANGED <<asked, pending, order, logVars, mu, told, aged, losses>>

-----------------------------------------------------------------------------
(* A hook: RecordObservedOutcome.                                          *)

\* The breadcrumb is read; one that is too old is left alone.
ReadBreadcrumb(k) ==
  /\ job[k].at = "idle" /\ breadcrumb # 0
  /\ job' = [job EXCEPT ![k] = [NoJob EXCEPT !.at = "consume", !.id = breadcrumb]]
  /\ UNCHANGED <<asked, pending, order, breadcrumb, logVars, mu, told, aged, losses>>

\* Mutant: the breadcrumb is left for the next search.
ConsumeNot(k) ==
  /\ job[k].at = "consume"
  /\ job' = [job EXCEPT ![k].at = "stat", ![k].kind = "retrieval"]
  /\ UNCHANGED <<asked, pending, order, breadcrumb, logVars, mu, told, aged, losses>>

Consume(k) ==
  /\ job[k].at = "consume"
  /\ breadcrumb' = 0
  /\ job' = [job EXCEPT ![k].at = "stat", ![k].kind = "retrieval"]
  /\ UNCHANGED <<asked, pending, order, logVars, mu, told, aged, losses>>

-----------------------------------------------------------------------------
(* append, by a handler under the server's mutex or by a hook, whose       *)
(* Recorder nobody shares.                                                 *)

Lock(p) == p \in Handlers => mu = "free" /\ mu' = p
Keep(p) == p \in Hooks => mu' = mu

\* rotateIfLarge: os.Stat.
Stat(p) ==
  /\ job[p].at = "stat"
  /\ Lock(p) /\ Keep(p)
  /\ Goto(p, IF log # 0 /\ Len(files[log]) >= LogCap THEN "unlink" ELSE "open")
  /\ UNCHANGED <<asked, pending, order, breadcrumb, logVars, told, aged, losses>>

\* os.Remove(RotatedPath)
Unlink(p) ==
  /\ job[p].at = "unlink"
  /\ rotated' = 0
  /\ Goto(p, "rename")
  /\ UNCHANGED <<asked, pending, order, breadcrumb, files, log, mu, told, written, aged, losses>>

\* os.Rename; an error is ignored.
Rename(p) ==
  /\ job[p].at = "rename"
  /\ \/ log # 0 /\ rotated' = log /\ log' = 0
     \/ log = 0 /\ UNCHANGED <<log, rotated>>
  /\ Goto(p, "open")
  /\ UNCHANGED <<asked, pending, order, breadcrumb, files, mu, told, written, aged, losses>>

\* os.OpenFile with O_CREATE and O_APPEND.
Open(p) ==
  /\ job[p].at = "open"
  /\ \/ log # 0 /\ UNCHANGED <<files, log>>
     \/ log = 0 /\ files' = Append(files, <<>>) /\ log' = Len(files) + 1
  /\ job' = [job EXCEPT ![p].at = "write", ![p].file = log']
  /\ UNCHANGED <<asked, pending, order, breadcrumb, rotated, mu, told, written, aged, losses>>

Unlock(p) == mu' = IF p \in Handlers THEN "free" ELSE mu

\* What comes after the record: behind its retrieval a handler removes the
\* breadcrumb, a hook, which has done so, appends the label.
Proceed(p) ==
  job' = IF job[p].kind = "label" THEN [job EXCEPT ![p] = NoJob]
         ELSE IF p \in Handlers THEN [job EXCEPT ![p].at = "clear"]
         ELSE [job EXCEPT ![p].at = "stat", ![p].kind = "label"]

Write(p) ==
  /\ job[p].at = "write"
  /\ written' = Append(written, [kind |-> job[p].kind, id |-> job[p].id, by |-> p])
  /\ files' = [files EXCEPT ![job[p].file] = Append(@, Len(written) + 1)]
  /\ Unlock(p) /\ Proceed(p)
  /\ UNCHANGED <<asked, pending, order, breadcrumb, log, rotated, told, aged, losses>>

\* The file cannot be opened or written: the call returns the error.
AppendFails(p) ==
  /\ job[p].at \in {"open", "write"} /\ losses < MaxLosses
  /\ losses' = losses + 1
  /\ aged' = aged \cup {job[p].id}
  /\ job' = [job EXCEPT ![p] = NoJob]
  /\ Unlock(p)
  /\ UNCHANGED <<asked, pending, order, breadcrumb, logVars, told>>

\* The server goes away, with its ring, and a new one takes its place.
Restart ==
  /\ losses < MaxLosses
  /\ losses' = losses + 1
  /\ aged' = aged \cup pending
  /\ pending' = {} /\ order' = <<>> /\ mu' = "free"
  /\ job' = [p \in Processes |-> IF p \in Handlers THEN NoJob ELSE job[p]]
  /\ UNCHANGED <<asked, breadcrumb, logVars, told>>

AppendSteps(p) == Stat(p) \/ Unlink(p) \/ Rename(p) \/ Open(p) \/ Write(p) \/ AppendFails(p)

Next ==
  \/ HoldRetrieval \/ Restart
  \/ \E h \in Handlers : (\E id \in 1 .. asked : TakeRetrieval(h, id)) \/ ClearBreadcrumb(h)
  \/ \E k \in Hooks : ReadBreadcrumb(k) \/ Consume(k)
  \/ \E p \in Processes : AppendSteps(p)

Spec == Init /\ [][Next]_vars

-----------------------------------------------------------------------------
Labels(id) == {i \in DOMAIN written : written[i].kind = "label" /\ written[i].id = id}
HookLabels(id) == {i \in Labels(id) : written[i].by \in Hooks}

Retained == (IF log = 0 THEN {} ELSE InOrder(files[log]))
              \cup (IF rotated = 0 THEN {} ELSE InOrder(files[rotated]))

Quiet == \A p \in Processes : job[p].at = "idle"

\* The ring and its order are the same requests, each once, within the limit.
RingConsistent ==
  /\ pending = InOrder(order) /\ Cardinality(pending) = Len(order)
  /\ Len(order) <= RingLimit

\* "a reader meets the candidates before the label that judges them"
\* (recorder.go): a label has the retrieval in front of it, unless the
\* retrieval had aged out of the ring or was lost.
CandidatesFirst ==
  \A i \in DOMAIN written : written[i].kind = "label" /\ written[i].id \notin aged =>
    \E k \in 1 .. i - 1 : written[k].kind = "retrieval" /\ written[k].id = written[i].id

\* "must not be labelled twice by the next search" (recorder.go): searches give
\* a retrieval one label at most, and what the breadcrumb offers to the next
\* one has no label yet ("removed the moment the retrieval is labelled").
SearchLabelsOnce ==
  /\ \A id \in 1 .. asked : Cardinality(HookLabels(id)) <= 1
  /\ breadcrumb # 0 => Labels(breadcrumb) = {}

\* "a snapshot of the last query" (recorder.go): while nobody is at work, the
\* last retrieval is in the breadcrumb as long as nobody has labelled it.
LastQueryLabellable ==
  Quiet /\ asked > 0 /\ asked \notin told /\ Labels(asked) = {} => breadcrumb = asked

\* "One previous generation is kept" (recorder.go): the last records, as many
\* as a generation holds, can be read.
RecentRetained ==
  \A i \in DOMAIN written : i > Len(written) - LogCap => i \in Retained
=============================================================================
