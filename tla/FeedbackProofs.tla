--------------------------- MODULE FeedbackProofs ---------------------------
(***************************************************************************)
(* What the feedback recorder (module Feedback) keeps, for any handlers,   *)
(* hooks, ring and log, with appends that fail and servers that go away at *)
(* any step.  A label is written behind its retrieval because a request is *)
(* always to be found: still held, taken by who labels it, or counted as   *)
(* aged (Accounted); and who is past its retrieval has it in the log or    *)
(* lost it (LabelsBehind).  A search labels a retrieval once because the   *)
(* breadcrumb is removed before anything is appended (BreadcrumbFresh),    *)
(* with no second hook to read it in between.                              *)
(***************************************************************************)
EXTENDS Feedback, Integers, FiniteSetTheorems, SequenceTheorems, TLAPS

\* The requests there have been.
Ids == 1 .. asked
Kinds == {"none", "retrieval", "label"}
Appending == {"stat", "unlink", "rename", "open", "write"}
Places == {"idle", "clear", "consume"} \union Appending
Jobs == [at : Places, id : Nat, kind : Kinds, file : Nat]
Records == [kind : Kinds, id : Nat, by : Processes]

FeedbackTypeOK ==
  /\ asked \in Nat /\ breadcrumb \in 0 .. asked
  /\ pending \subseteq Ids /\ order \in Seq(Nat)
  /\ told \subseteq Ids /\ aged \subseteq Ids
  /\ job \in [Processes -> Jobs]
  /\ written \in Seq(Records)

\* The names link to files that exist, and so does an open file.
FilesOK ==
  /\ files \in Seq(Seq(Nat))
  /\ log \in 0 .. Len(files) /\ rotated \in 0 .. Len(files)
  /\ \A p \in Processes : job[p].at = "write" => job[p].file \in 1 .. Len(files)

\* What a job has of a record follows from where it is.
JobRight(r) ==
  /\ r.at # "idle" => r.id \in Ids
  /\ r.at \in Appending => r.kind # "none"
  /\ r.at \in {"idle", "consume"} => r.kind = "none"

JobsRight == \A p \in Processes : JobRight(job[p])

WrittenAsked == \A i \in DOMAIN written : written[i].id \in Ids

\* Each held request once, and as many as the ring takes.
Distinct(s) == \A i, j \in DOMAIN s : s[i] = s[j] => i = j
Ring == pending = InOrder(order) /\ Distinct(order) /\ Len(order) <= RingLimit

\* No request is forgotten.
Accounted == Ids \subseteq told \union pending \union aged

\* The retrieval of id is in the log.
Logged(id) == \E k \in DOMAIN written : written[k].kind = "retrieval" /\ written[k].id = id
PastRetrieval(p) == job[p].kind = "label" \/ (p \in Handlers /\ job[p].at = "clear")

\* Who is past its retrieval has it in the log, or it was lost.
LabelsBehind ==
  \A p \in Processes : PastRetrieval(p) => job[p].id \in aged \/ Logged(job[p].id)

\* Removed the breadcrumb, or may have: its request is not on offer.
PastBreadcrumb(p) == job[p].kind = "label" \/ (p \in Hooks /\ job[p].kind = "retrieval")

\* What is on offer has no label, and nobody is about to write it one.
BreadcrumbFresh ==
  /\ breadcrumb # 0 => Labels(breadcrumb) = {}
  /\ \A p \in Processes : PastBreadcrumb(p) => job[p].id # breadcrumb

\* A hook at work is about a request no hook has labelled.
HooksOnce ==
  /\ \A k \in Hooks : job[k].at # "idle" => HookLabels(job[k].id) = {}
  /\ \A id \in Nat : \A i, j \in HookLabels(id) : i = j

\* All that says what things are.
Typed == FeedbackTypeOK /\ FilesOK /\ JobsRight /\ WrittenAsked
-----------------------------------------------------------------------------
(* Sequences without repetition.                                           *)

\* As many elements as positions.
LEMMA DistinctCounts ==
  ASSUME NEW s \in Seq(Nat), Distinct(s)
  PROVE  Cardinality(InOrder(s)) = Len(s)
<1>1. s \in [1 .. Len(s) -> InOrder(s)]
  BY DEF InOrder
<1>2. s \in Bijection(1 .. Len(s), InOrder(s))
  BY <1>1 DEF Distinct, InOrder, Bijection, Injection, Surjection, IsInjective
<1> QED
  BY <1>2, FS_CountingElements DEF ExistsBijection

\* One more, that was not there.
LEMMA AppendDistinct ==
  ASSUME NEW s \in Seq(Nat), Distinct(s), NEW e \in Nat, e \notin InOrder(s)
  PROVE  /\ Append(s, e) \in Seq(Nat) /\ Distinct(Append(s, e))
         /\ InOrder(Append(s, e)) = InOrder(s) \union {e}
         /\ Len(Append(s, e)) = Len(s) + 1
<1>1. /\ Append(s, e) \in Seq(Nat) /\ Len(Append(s, e)) = Len(s) + 1
      /\ \A i \in 1 .. Len(s) : Append(s, e)[i] = s[i]
      /\ Append(s, e)[Len(s) + 1] = e
  OBVIOUS
<1>2. \A i \in 1 .. Len(s) : s[i] # e
  BY DEF InOrder
<1>3. Distinct(Append(s, e))
  BY <1>1, <1>2 DEF Distinct
<1>4. InOrder(Append(s, e)) = InOrder(s) \union {e}
  <2>1. \A x : x \in InOrder(Append(s, e)) => x \in InOrder(s) \union {e}
    BY <1>1 DEF InOrder
  <2>2. ASSUME NEW x \in InOrder(s)
        PROVE  x \in InOrder(Append(s, e))
    <3>1. PICK i \in 1 .. Len(s) : s[i] = x
      BY DEF InOrder
    <3>2. i \in DOMAIN Append(s, e) /\ Append(s, e)[i] = x
      BY <1>1, <3>1
    <3> QED
      BY <3>2 DEF InOrder
  <2>3. e \in InOrder(Append(s, e))
    <3>1. Len(s) + 1 \in DOMAIN Append(s, e)
      BY <1>1
    <3> QED
      BY <1>1, <3>1 DEF InOrder
  <2> QED
    BY <2>1, <2>2, <2>3
<1> QED
  BY <1>1, <1>3, <1>4

\* The i-th goes: what is before it stays, what is after it moves up.
LEMMA CutAt ==
  ASSUME NEW s \in Seq(Nat), NEW i \in 1 .. Len(s)
  PROVE  LET t == SubSeq(s, 1, i - 1) \o SubSeq(s, i + 1, Len(s))
         IN  /\ t \in Seq(Nat) /\ Len(t) = Len(s) - 1
             /\ \A k \in 1 .. i - 1 : t[k] = s[k]
             /\ \A k \in i + 1 .. Len(s) : t[k - 1] = s[k]
<1> DEFINE front == SubSeq(s, 1, i - 1)
           back == SubSeq(s, i + 1, Len(s))
           t == front \o back
<1>1. i \in Nat /\ 1 <= i /\ i <= Len(s) /\ Len(s) \in Nat
  OBVIOUS
<1>2. /\ front \in Seq(Nat) /\ Len(front) = i - 1
      /\ \A k \in 1 .. i - 1 : front[k] = s[k]
  BY <1>1, SubSeqProperties
<1>3. /\ back \in Seq(Nat) /\ Len(back) = Len(s) - i
      /\ \A k \in 1 .. Len(s) - i : back[k] = s[i + k]
  BY <1>1, SubSeqProperties
<1> HIDE DEF front, back
<1>4. /\ t \in Seq(Nat)
      /\ Len(t) = Len(front) + Len(back)
      /\ \A k \in 1 .. Len(front) + Len(back) :
           t[k] = IF k <= Len(front) THEN front[k] ELSE back[k - Len(front)]
  BY <1>2, <1>3, ConcatProperties
<1> HIDE DEF t
<1>5. Len(t) = Len(s) - 1
  BY <1>1, <1>2, <1>3, <1>4
<1>6. ASSUME NEW k \in 1 .. i - 1
      PROVE  t[k] = s[k]
  <2>1. k \in 1 .. Len(front) + Len(back) /\ k <= Len(front)
    BY <1>1, <1>2, <1>3
  <2> QED
    BY <1>2, <1>4, <2>1
<1>7. ASSUME NEW k \in i + 1 .. Len(s)
      PROVE  t[k - 1] = s[k]
  <2>1. k - 1 \in 1 .. Len(front) + Len(back) /\ ~(k - 1 <= Len(front))
    <3>1. Len(front) = i - 1 /\ Len(back) = Len(s) - i
      BY <1>2, <1>3
    <3>2. k - 1 \in 1 .. (i - 1) + (Len(s) - i) /\ ~(k - 1 <= i - 1)
      BY <1>1
    <3> QED
      BY <3>1, <3>2
  <2>2. t[k - 1] = back[(k - 1) - Len(front)]
    BY <1>4, <2>1
  <2>3. (k - 1) - Len(front) = k - i /\ k - i \in 1 .. Len(s) - i /\ i + (k - i) = k
    BY <1>1, <1>2
  <2> QED
    BY <1>3, <2>2, <2>3
<1>8. t \in Seq(Nat) /\ t = SubSeq(s, 1, i - 1) \o SubSeq(s, i + 1, Len(s))
  BY <1>4 DEF t, front, back
<1> QED
  BY <1>5, <1>6, <1>7, <1>8

\* Without the i-th, the elements are the others, still each once.
LEMMA CutDistinct ==
  ASSUME NEW s \in Seq(Nat), Distinct(s), NEW i \in 1 .. Len(s),
         NEW t \in Seq(Nat), Len(t) = Len(s) - 1,
         \A k \in 1 .. i - 1 : t[k] = s[k],
         \A k \in i + 1 .. Len(s) : t[k - 1] = s[k]
  PROVE  Distinct(t) /\ InOrder(t) = InOrder(s) \ {s[i]}
<1>1. i \in Nat /\ 1 <= i /\ i <= Len(s) /\ Len(s) \in Nat /\ DOMAIN t = 1 .. Len(s) - 1
  OBVIOUS
<1> DEFINE from(k) == IF k < i THEN k ELSE k + 1
<1>2. ASSUME NEW k \in 1 .. Len(s) - 1
      PROVE  from(k) \in 1 .. Len(s) /\ from(k) # i /\ t[k] = s[from(k)]
  <2>1. CASE k < i
    BY <1>1, <2>1
  <2>2. CASE k >= i
    <3>1. k + 1 \in i + 1 .. Len(s) /\ (k + 1) - 1 = k /\ ~(k < i)
      BY <1>1, <2>2
    <3>2. t[k] = s[k + 1]
      BY <3>1
    <3> QED
      BY <1>1, <3>1, <3>2
  <2> QED
    BY <1>1, <2>1, <2>2
<1>3. ASSUME NEW k \in 1 .. Len(s) - 1, NEW j \in 1 .. Len(s) - 1, from(k) = from(j)
      PROVE  k = j
  <2>1. k \in Int /\ j \in Int /\ i \in Int
    BY <1>1
  <2>2. CASE k < i /\ j < i
    BY <1>3, <2>1, <2>2
  <2>3. CASE k >= i /\ j >= i
    BY <1>3, <2>1, <2>3
  <2>4. CASE k < i /\ j >= i
    BY <1>3, <2>1, <2>4
  <2>5. CASE k >= i /\ j < i
    BY <1>3, <2>1, <2>5
  <2> QED
    BY <2>1, <2>2, <2>3, <2>4, <2>5
<1> HIDE DEF from
<1>4. Distinct(t)
  <2> SUFFICES ASSUME NEW k \in 1 .. Len(s) - 1, NEW j \in 1 .. Len(s) - 1, t[k] = t[j]
               PROVE  k = j
    BY <1>1 DEF Distinct
  <2>1. /\ from(k) \in DOMAIN s /\ t[k] = s[from(k)]
        /\ from(j) \in DOMAIN s /\ t[j] = s[from(j)]
    <3>1. DOMAIN s = 1 .. Len(s)
      OBVIOUS
    <3> QED
      BY <1>2, <3>1, Zenon
  <2> QED
    BY <1>3, <2>1 DEF Distinct
<1>5. ASSUME NEW k \in 1 .. Len(s) - 1
      PROVE  t[k] \in InOrder(s) \ {s[i]}
  <2>0. DOMAIN s = 1 .. Len(s)
    OBVIOUS
  <2>1. from(k) \in DOMAIN s /\ i \in DOMAIN s /\ from(k) # i /\ t[k] = s[from(k)]
    BY <1>2, <2>0, Zenon
  <2>2. s[from(k)] # s[i]
    BY <2>1 DEF Distinct
  <2> QED
    BY <2>1, <2>2 DEF InOrder
<1>6. ASSUME NEW k \in 1 .. Len(s), s[k] # s[i]
      PROVE  s[k] \in InOrder(t)
  <2>1. CASE k < i
    <3>1. k \in DOMAIN t /\ t[k] = s[k]
      BY <1>1, <2>1
    <3> QED
      BY <3>1 DEF InOrder
  <2>2. CASE k > i
    <3>1. k \in i + 1 .. Len(s) /\ k - 1 \in DOMAIN t
      BY <1>1, <2>2
    <3> QED
      BY <3>1 DEF InOrder
  <2> QED
    BY <1>1, <1>6, <2>1, <2>2
<1>7. InOrder(t) = InOrder(s) \ {s[i]}
  <2>1. \A x : x \in InOrder(t) => x \in InOrder(s) \ {s[i]}
    BY <1>1, <1>5 DEF InOrder
  <2>2. ASSUME NEW x \in InOrder(s) \ {s[i]}
        PROVE  x \in InOrder(t)
    <3>1. PICK k \in 1 .. Len(s) : s[k] = x
      BY DEF InOrder
    <3> QED
      BY <1>6, <3>1
  <2> QED
    BY <2>1, <2>2
<1> QED
  BY <1>4, <1>7

\* The first goes.
LEMMA TailDistinct ==
  ASSUME NEW s \in Seq(Nat), Distinct(s), s # <<>>
  PROVE  /\ Tail(s) \in Seq(Nat) /\ Distinct(Tail(s))
         /\ InOrder(Tail(s)) = InOrder(s) \ {Head(s)}
         /\ Len(Tail(s)) = Len(s) - 1
<1>1. /\ Tail(s) \in Seq(Nat) /\ Len(Tail(s)) = Len(s) - 1
      /\ \A i \in 1 .. Len(s) - 1 : Tail(s)[i] = s[i + 1]
  OBVIOUS
<1>2. PICK t \in Seq(Nat) : t = Tail(s)
  BY <1>1
<1>3. PICK i \in 1 .. Len(s) : i = 1
  OBVIOUS
<1>4. /\ Len(t) = Len(s) - 1 /\ s[i] = Head(s)
      /\ \A k \in 1 .. i - 1 : t[k] = s[k]
  BY <1>1, <1>2, <1>3
<1>5. \A k \in i + 1 .. Len(s) : t[k - 1] = s[k]
  <2>1. ASSUME NEW k \in i + 1 .. Len(s)
        PROVE  k - 1 \in 1 .. Len(s) - 1 /\ (k - 1) + 1 = k
    BY <1>3
  <2> QED
    BY <1>1, <1>2, <2>1
<1>6. Distinct(t) /\ InOrder(t) = InOrder(s) \ {s[i]}
  BY <1>4, <1>5, CutDistinct
<1> QED
  BY <1>1, <1>2, <1>4, <1>6

-----------------------------------------------------------------------------
(* Steps of a process.                                                     *)

\* p goes on with r, the others stay where they are.
Becomes(p, r) == r \in Jobs /\ job' = [job EXCEPT ![p] = r]

\* The steps of an append before the record is in the file.
Advance(p) == Stat(p) \/ Unlink(p) \/ Rename(p) \/ Open(p)

\* Effect of these: p is nearer the record, and no record is written yet.
Advanced(p) ==
  /\ UNCHANGED <<asked, pending, order, breadcrumb, told, written, aged>>
  /\ job[p].at \in Appending
  /\ \E r \in Jobs : /\ Becomes(p, r) /\ r.at \in Appending
                      /\ r.id = job[p].id /\ r.kind = job[p].kind
  /\ FilesOK'

\* Stat, Unlink, Rename and Open leave p with a file that exists.
LEMMA AdvanceShape ==
  ASSUME Typed, NEW p \in Processes, Advance(p)
  PROVE  Advanced(p)
<1> USE DEF Typed, FeedbackTypeOK, FilesOK, Becomes, Jobs, Places, Appending, Goto, logVars, Advanced
<1>1. CASE Stat(p)
  <2> DEFINE r == [job[p] EXCEPT !.at = IF log # 0 /\ Len(files[log]) >= LogCap THEN "unlink" ELSE "open"]
  <2>1. Becomes(p, r) /\ r.at \in {"unlink", "open"} /\ r.id = job[p].id /\ r.kind = job[p].kind
    BY <1>1 DEF Stat
  <2> HIDE DEF r
  <2> QED
    BY <1>1, <2>1 DEF Stat
<1>2. CASE Unlink(p)
  <2> DEFINE r == [job[p] EXCEPT !.at = "rename"]
  <2>1. Becomes(p, r) /\ r.at = "rename" /\ r.id = job[p].id /\ r.kind = job[p].kind
    BY <1>2 DEF Unlink
  <2> HIDE DEF r
  <2>2. files' = files /\ log' = log /\ rotated' = 0
    BY <1>2 DEF Unlink
  <2>3. FilesOK'
    BY <2>1, <2>2
  <2> QED
    BY <1>2, <2>1, <2>3 DEF Unlink
<1>3. CASE Rename(p)
  <2> DEFINE r == [job[p] EXCEPT !.at = "open"]
  <2>1. Becomes(p, r) /\ r.at = "open" /\ r.id = job[p].id /\ r.kind = job[p].kind
    BY <1>3 DEF Rename
  <2> HIDE DEF r
  <2>2. files' = files /\ log' \in {0, log} /\ rotated' \in {log, rotated}
    BY <1>3 DEF Rename
  <2>3. FilesOK'
    BY <2>1, <2>2
  <2> QED
    BY <1>3, <2>1, <2>3 DEF Rename
<1>4. CASE Open(p)
  <2>1. /\ files' \in Seq(Seq(Nat)) /\ Len(files) <= Len(files')
        /\ log' \in 1 .. Len(files') /\ rotated' \in 0 .. Len(files')
    <3>1. CASE log # 0 /\ UNCHANGED <<files, log>>
      BY <1>4, <3>1 DEF Open
    <3>2. CASE log = 0 /\ files' = Append(files, <<>>) /\ log' = Len(files) + 1
      <4>1. <<>> \in Seq(Nat)
        BY EmptySeq
      <4>2. files' \in Seq(Seq(Nat)) /\ Len(files') = Len(files) + 1
        BY <3>2, <4>1, AppendProperties
      <4> QED
        BY <1>4, <3>2, <4>2 DEF Open
    <3> QED
      BY <1>4, <3>1, <3>2 DEF Open
  <2>2. PICK n \in 1 .. Len(files') : n = log'
    BY <2>1
  <2> DEFINE r == [job[p] EXCEPT !.at = "write", !.file = n]
  <2>3. r \in Jobs /\ r.at = "write" /\ r.id = job[p].id /\ r.kind = job[p].kind /\ r.file = n
    <3>1. n \in Nat
      BY <2>1
    <3> QED
      BY <3>1
  <2>4. job' = [job EXCEPT ![p] = r] /\ job[p].at = "open"
    BY <1>4, <2>2 DEF Open
  <2> HIDE DEF r
  <2>5. FilesOK'
    BY <2>1, <2>2, <2>3, <2>4
  <2> QED
    BY <1>4, <2>3, <2>4, <2>5 DEF Open
<1> QED
  BY <1>1, <1>2, <1>3, <1>4 DEF Advance

\* The record is the last one, and p goes on with what comes after it.
Wrote(p) ==
  /\ UNCHANGED <<asked, pending, order, breadcrumb, told, aged>>
  /\ job[p].at = "write" /\ job[p].id \in Ids /\ job[p].kind \in {"retrieval", "label"}
  /\ written' \in Seq(Records) /\ Len(written') = Len(written) + 1
  /\ \A i \in 1 .. Len(written) : written'[i] = written[i]
  /\ written'[Len(written')] = [kind |-> job[p].kind, id |-> job[p].id, by |-> p]
  /\ \E r \in Jobs :
       /\ Becomes(p, r)
       /\ \/ job[p].kind = "label" /\ r = NoJob
          \/ /\ job[p].kind = "retrieval" /\ r.id = job[p].id
             /\ \/ p \in Handlers /\ r.at = "clear" /\ r.kind = "retrieval"
                \/ p \notin Handlers /\ r.at = "stat" /\ r.kind = "label"
  /\ FilesOK'

\* Write appends what p has in hand, to the log and to the file p has open.
LEMMA WriteShape ==
  ASSUME Typed, NEW p \in Processes, Write(p)
  PROVE  Wrote(p)
<1> USE DEF Typed, FeedbackTypeOK, JobsRight, JobRight, FilesOK, Becomes, Jobs, Kinds, Places,
            Appending, Wrote
<1> DEFINE rec == [kind |-> job[p].kind, id |-> job[p].id, by |-> p]
<1>1. job[p].at = "write" /\ job[p].id \in Ids /\ job[p].kind \in {"retrieval", "label"}
  BY DEF Write
<1>2. rec \in Records
  BY <1>1 DEF Records
<1>3. written' = Append(written, rec)
  BY DEF Write
<1> HIDE DEF rec
<1>4. /\ written' \in Seq(Records) /\ Len(written') = Len(written) + 1
      /\ \A i \in 1 .. Len(written) : written'[i] = written[i]
      /\ written'[Len(written')] = rec
  BY <1>2, <1>3, AppendProperties
<1>5. files' \in Seq(Seq(Nat)) /\ Len(files') = Len(files) /\ log' = log /\ rotated' = rotated
  <2> DEFINE f == job[p].file
  <2>1. f \in 1 .. Len(files) /\ files[f] \in Seq(Nat) /\ Len(written) + 1 \in Nat
    BY <1>1
  <2>2. Append(files[f], Len(written) + 1) \in Seq(Nat)
    BY <2>1, AppendProperties
  <2>3. files' = [files EXCEPT ![f] = Append(files[f], Len(written) + 1)]
    BY DEF Write
  <2> HIDE DEF f
  <2> QED
    BY <2>1, <2>2, <2>3, ExceptSeq DEF Write
<1>6. CASE job[p].kind = "label"
  <2>1. job' = [job EXCEPT ![p] = NoJob] /\ NoJob \in Jobs /\ NoJob.at = "idle"
    BY <1>6 DEF Write, Proceed, NoJob
  <2>2. FilesOK'
    BY <1>5, <2>1
  <2> QED
    BY <1>1, <1>4, <1>6, <2>1, <2>2 DEF Write, rec
<1>7. CASE job[p].kind = "retrieval" /\ p \in Handlers
  <2> DEFINE r == [job[p] EXCEPT !.at = "clear"]
  <2>1. Becomes(p, r) /\ r.at = "clear" /\ r.id = job[p].id /\ r.kind = "retrieval"
    BY <1>7 DEF Write, Proceed
  <2> HIDE DEF r
  <2>2. FilesOK'
    BY <1>5, <2>1
  <2> QED
    BY <1>1, <1>4, <1>7, <2>1, <2>2 DEF Write, rec
<1>8. CASE job[p].kind = "retrieval" /\ p \notin Handlers
  <2> DEFINE r == [job[p] EXCEPT !.at = "stat", !.kind = "label"]
  <2>1. Becomes(p, r) /\ r.at = "stat" /\ r.id = job[p].id /\ r.kind = "label"
    BY <1>8 DEF Write, Proceed
  <2> HIDE DEF r
  <2>2. FilesOK'
    BY <1>5, <2>1
  <2> QED
    BY <1>1, <1>4, <1>8, <2>1, <2>2 DEF Write, rec
<1> QED
  BY <1>1, <1>6, <1>7, <1>8

\* h is about to write the retrieval if it was held, else past it.
Took(h, id) ==
  /\ UNCHANGED <<asked, breadcrumb, written, aged>> /\ UNCHANGED <<files, log, rotated>>
  /\ id \notin told /\ told' = told \union {id} /\ TakeOut(id)
  /\ \E r \in Jobs :
       /\ Becomes(h, r) /\ r.id = id /\ r.kind = "retrieval"
       /\ r.at = "stat" \/ (r.at = "clear" /\ id \notin pending)

\* TakeRetrieval gives h the request and takes it out of the ring.
LEMMA TakeShape ==
  ASSUME Typed, NEW h \in Handlers, NEW id \in Ids, TakeRetrieval(h, id)
  PROVE  Took(h, id)
<1> DEFINE r == [NoJob EXCEPT !.at = IF id \in pending THEN "stat" ELSE "clear",
                             !.id = id, !.kind = "retrieval"]
<1>1. id \in Nat
  BY DEF Typed, FeedbackTypeOK, Ids
<1>2. /\ r \in Jobs /\ r.id = id /\ r.kind = "retrieval"
      /\ r.at = "stat" \/ (r.at = "clear" /\ id \notin pending)
  BY <1>1 DEF NoJob, Jobs, Places, Appending, Kinds
<1>3. job' = [job EXCEPT ![h] = r]
  BY DEF TakeRetrieval
<1> HIDE DEF r
<1> QED
  BY <1>2, <1>3 DEF TakeRetrieval, Becomes, logVars, Took

\* The steps that read or remove the breadcrumb.
BreadcrumbStep(p) ==
  \/ p \in Handlers /\ ClearBreadcrumb(p)
  \/ p \in Hooks /\ (ReadBreadcrumb(p) \/ Consume(p))

\* Removed between the records or before the first, or read by a hook.
Tended(p) ==
  /\ UNCHANGED <<asked, pending, order, told, written, aged>>
  /\ UNCHANGED <<files, log, rotated>>
  /\ \E r \in Jobs :
       /\ Becomes(p, r) /\ r.id \in Ids
       /\ \/ /\ p \in Handlers /\ job[p].at = "clear" /\ breadcrumb' = 0
             /\ r.at = "stat" /\ r.kind = "label" /\ r.id = job[p].id
          \/ /\ p \in Hooks /\ breadcrumb # 0 /\ breadcrumb' = breadcrumb
             /\ r.at = "consume" /\ r.kind = "none" /\ r.id = breadcrumb
          \/ /\ p \in Hooks /\ job[p].at = "consume" /\ breadcrumb' = 0
             /\ r.at = "stat" /\ r.kind = "retrieval" /\ r.id = job[p].id

\* ClearBreadcrumb, ReadBreadcrumb and Consume do one of these.
LEMMA BreadcrumbShape ==
  ASSUME Typed, NEW p \in Processes, BreadcrumbStep(p)
  PROVE  Tended(p)
<1> USE DEF Typed, FeedbackTypeOK, JobsRight, JobRight, Becomes, Jobs, Kinds, Places, Appending,
            logVars, Tended
<1>1. CASE p \in Handlers /\ ClearBreadcrumb(p)
  <2> DEFINE r == [job[p] EXCEPT !.at = "stat", !.kind = "label"]
  <2>1. /\ r \in Jobs /\ Becomes(p, r) /\ r.id \in Ids /\ job[p].at = "clear"
        /\ r.at = "stat" /\ r.kind = "label" /\ r.id = job[p].id
    BY <1>1 DEF ClearBreadcrumb
  <2> HIDE DEF r
  <2> QED
    BY <1>1, <2>1 DEF ClearBreadcrumb
<1>2. CASE p \in Hooks /\ ReadBreadcrumb(p)
  <2> DEFINE r == [NoJob EXCEPT !.at = "consume", !.id = breadcrumb]
  <2>1. breadcrumb \in Ids /\ breadcrumb \in Nat /\ breadcrumb # 0
    BY <1>2 DEF ReadBreadcrumb, Ids
  <2>2. r \in Jobs /\ r.at = "consume" /\ r.kind = "none" /\ r.id = breadcrumb
    BY <2>1 DEF NoJob
  <2>3. job' = [job EXCEPT ![p] = r]
    BY <1>2 DEF ReadBreadcrumb
  <2> HIDE DEF r
  <2> QED
    BY <1>2, <2>1, <2>2, <2>3 DEF ReadBreadcrumb
<1>3. CASE p \in Hooks /\ Consume(p)
  <2> DEFINE r == [job[p] EXCEPT !.at = "stat", !.kind = "retrieval"]
  <2>1. /\ r \in Jobs /\ Becomes(p, r) /\ r.id \in Ids /\ job[p].at = "consume"
        /\ r.at = "stat" /\ r.kind = "retrieval" /\ r.id = job[p].id
    BY <1>3 DEF Consume
  <2> HIDE DEF r
  <2> QED
    BY <1>3, <2>1 DEF Consume
<1> QED
  BY <1>1, <1>2, <1>3 DEF BreadcrumbStep

\* p is done, and its request is counted as lost.
Failed(p) ==
  /\ UNCHANGED <<asked, pending, order, breadcrumb, told, written>>
  /\ UNCHANGED <<files, log, rotated>>
  /\ Becomes(p, NoJob) /\ job[p].id \in Ids /\ aged' = aged \union {job[p].id}

\* AppendFails, wherever the append was.
LEMMA FailShape ==
  ASSUME Typed, NEW p \in Processes, AppendFails(p)
  PROVE  Failed(p)
BY DEF AppendFails, Typed, FeedbackTypeOK, JobsRight, JobRight, Becomes, Jobs, Places, Kinds,
       Appending, NoJob, logVars, Failed

-----------------------------------------------------------------------------
(* The ring.                                                               *)

\* One request more is in the ring, and whoever left it has aged out.
Held ==
  /\ asked' = asked + 1 /\ breadcrumb' = asked + 1
  /\ Ids' = Ids \union {asked + 1} /\ asked + 1 \notin Ids
  /\ pending' \subseteq pending \union {asked + 1} /\ asked + 1 \in pending'
  /\ aged' = aged \union (pending \ pending')
  /\ UNCHANGED <<job, told, written, files, log, rotated>>
  /\ order' \in Seq(Nat) /\ Ring'

\* HoldRetrieval: the oldest goes when there is no room for the new one.
LEMMA HoldShape ==
  ASSUME Typed, Ring, HoldRetrieval
  PROVE  Held
<1> USE DEF Typed, FeedbackTypeOK, Ids, Held
<1> DEFINE ids == Append(order, asked + 1)
<1>1. /\ asked + 1 \notin InOrder(order) /\ asked + 1 \in Nat
      /\ asked' = asked + 1 /\ Ids' = Ids \union {asked + 1}
  BY DEF Ring, HoldRetrieval
<1>2. /\ ids \in Seq(Nat) /\ Distinct(ids) /\ Len(ids) = Len(order) + 1
      /\ InOrder(ids) = pending \union {asked + 1}
  BY <1>1, AppendDistinct DEF Ring
<1>3. CASE Len(ids) <= RingLimit
  <2>1. order' = ids /\ pending' = pending \union {asked + 1}
    BY <1>2, <1>3, FeedbackAssumption DEF HoldRetrieval, Evict
  <2>2. Ring'
    BY <1>2, <1>3, <2>1 DEF Ring
  <2> QED
    BY <1>1, <1>2, <2>1, <2>2 DEF HoldRetrieval, logVars
<1>4. CASE Len(ids) > RingLimit
  <2>1. order' = Tail(ids) /\ pending' = (pending \union {asked + 1}) \ {Head(ids)}
    BY <1>4 DEF HoldRetrieval, Evict
  <2>2. Len(order) >= 1
    BY <1>2, <1>4, FeedbackAssumption
  <2>3. Head(ids) = order[1] /\ Head(ids) # asked + 1 /\ ids # <<>>
    <3>1. order[1] \in InOrder(order)
      BY <2>2 DEF InOrder
    <3>2. Head(ids) = order[1] /\ ids # <<>>
      BY <1>1, <2>2
    <3> QED
      BY <1>1, <3>1, <3>2
  <2> HIDE DEF ids
  <2>4. /\ Tail(ids) \in Seq(Nat) /\ Distinct(Tail(ids)) /\ Len(Tail(ids)) = Len(ids) - 1
        /\ InOrder(Tail(ids)) = InOrder(ids) \ {Head(ids)}
    BY <1>2, <2>3, TailDistinct
  <2>5. Len(Tail(ids)) <= RingLimit
    BY <1>2, <2>4 DEF Ring
  <2>6. Ring'
    BY <1>2, <2>1, <2>4, <2>5 DEF Ring
  <2> QED
    BY <1>1, <2>1, <2>3, <2>4, <2>6 DEF HoldRetrieval, logVars
<1>5. Len(ids) \in Nat /\ RingLimit \in Nat
  BY <1>2, FeedbackAssumption
<1> QED
  BY <1>3, <1>4, <1>5

\* A request is taken out, if it is there.
LEMMA TakeOutShape ==
  ASSUME Typed, Ring, NEW id \in Ids, TakeOut(id)
  PROVE  pending' = pending \ {id} /\ order' \in Seq(Nat) /\ Ring'
<1> USE DEF Typed, FeedbackTypeOK
<1>1. CASE id \notin pending /\ order' = order
  BY <1>1 DEF TakeOut, Ring
<1>2. ASSUME NEW i \in DOMAIN order, order[i] = id,
             order' = SubSeq(order, 1, i - 1) \o SubSeq(order, i + 1, Len(order))
      PROVE  order' \in Seq(Nat) /\ Ring' /\ pending' = pending \ {id}
  <2>1. i \in 1 .. Len(order)
    OBVIOUS
  <2>2. /\ order' \in Seq(Nat) /\ Len(order') = Len(order) - 1
        /\ \A k \in 1 .. i - 1 : order'[k] = order[k]
        /\ \A k \in i + 1 .. Len(order) : order'[k - 1] = order[k]
    BY <1>2, <2>1, CutAt
  <2>3. Distinct(order') /\ InOrder(order') = InOrder(order) \ {id}
    <3>1. PICK t \in Seq(Nat) : t = order'
      BY <2>2
    <3>2. /\ Len(t) = Len(order) - 1 /\ Distinct(order)
          /\ \A k \in 1 .. i - 1 : t[k] = order[k]
          /\ \A k \in i + 1 .. Len(order) : t[k - 1] = order[k]
      BY <2>2, <3>1 DEF Ring
    <3>3. Distinct(t) /\ InOrder(t) = InOrder(order) \ {order[i]}
      BY <2>1, <3>2, CutDistinct
    <3> QED
      BY <1>2, <3>1, <3>3
  <2>4. pending' = pending \ {id}
    BY DEF TakeOut
  <2>5. Len(order') <= RingLimit
    BY <2>2, FeedbackAssumption DEF Ring
  <2> QED
    BY <2>2, <2>3, <2>4, <2>5 DEF Ring
<1> QED
  BY <1>1, <1>2 DEF TakeOut, Ring

-----------------------------------------------------------------------------
(* Types and the ring are inductive.                                       *)

\* The steps there are, as the proofs below take them.
LEMMA NextCases ==
  ASSUME [Next]_vars
  PROVE  \/ HoldRetrieval \/ Restart \/ UNCHANGED vars
         \/ \E h \in Handlers : \E id \in Ids : TakeRetrieval(h, id)
         \/ \E p \in Processes : BreadcrumbStep(p) \/ Advance(p) \/ Write(p) \/ AppendFails(p)
BY DEF Next, AppendSteps, Advance, BreadcrumbStep, Processes, Ids

\* A process that goes on with a job that is right.
LEMMA BecomesTyped ==
  ASSUME Typed, NEW p \in Processes, NEW r \in Jobs, Becomes(p, r), JobRight(r), asked' = asked
  PROVE  job' \in [Processes -> Jobs] /\ JobsRight'
BY DEF Typed, FeedbackTypeOK, JobsRight, JobRight, Becomes, Ids

\* Nothing is held, and handlers are gone; a hook goes on.
Restarting ==
  /\ UNCHANGED <<asked, breadcrumb, told, written, files, log, rotated>>
  /\ pending' = {} /\ order' = <<>> /\ aged' = aged \union pending
  /\ job' \in [Processes -> Jobs]
  /\ \A p \in Processes : job'[p] = NoJob \/ job'[p] = job[p]

\* Restart counts what was held as aged.
LEMMA RestartShape ==
  ASSUME Typed, Restart
  PROVE  Restarting
BY DEF Restart, Restarting, logVars, Typed, FeedbackTypeOK, Jobs, Places, Kinds, Appending, NoJob

\* Whatever happens, jobs, files and records stay right, and the ring one.
LEMMA NextTyped ==
  ASSUME Typed, Ring, [Next]_vars PROVE Typed' /\ Ring'
<1> USE DEF Typed
<1>1. CASE HoldRetrieval
  <2>1. Held
    BY <1>1, HoldShape
  <2> QED
    BY <2>1 DEF Held, FeedbackTypeOK, FilesOK, JobsRight, JobRight, WrittenAsked
<1>2. CASE Restart
  <2>1. Restarting
    BY <1>2, RestartShape
  <2>2. FeedbackTypeOK'
    BY <2>1, EmptySeq DEF Restarting, FeedbackTypeOK, Ids
  <2>3. FilesOK'
    BY <2>1 DEF Restarting, FilesOK, NoJob
  <2>4. JobsRight'
    BY <2>1 DEF Restarting, JobsRight, JobRight, Ids, NoJob, Appending
  <2>5. WrittenAsked'
    BY <2>1 DEF Restarting, WrittenAsked, Ids
  <2>6. Ring'
    BY <2>1, FeedbackAssumption DEF Restarting, Ring, InOrder, Distinct
  <2> QED
    BY <2>2, <2>3, <2>4, <2>5, <2>6
<1>3. CASE UNCHANGED vars
  BY <1>3 DEF vars, logVars, FeedbackTypeOK, FilesOK, JobsRight, JobRight, WrittenAsked, Ring, Ids
<1>4. ASSUME NEW h \in Handlers, NEW id \in Ids, TakeRetrieval(h, id)
      PROVE  Typed' /\ Ring'
  <2>1. Took(h, id)
    BY <1>4, TakeShape
  <2>2. PICK r \in Jobs : Becomes(h, r) /\ r.id = id /\ r.kind = "retrieval" /\ r.at \in {"stat", "clear"}
    BY <2>1 DEF Took
  <2>3. pending' = pending \ {id} /\ order' \in Seq(Nat) /\ Ring'
    BY <2>1, TakeOutShape DEF Took
  <2>4. job' \in [Processes -> Jobs] /\ JobsRight'
    <3>1. JobRight(r) /\ h \in Processes
      BY <2>2 DEF JobRight, Appending, Processes
    <3> QED
      BY <2>1, <2>2, <3>1, BecomesTyped DEF Took
  <2>5. FeedbackTypeOK'
    BY <2>1, <2>3, <2>4 DEF Took, FeedbackTypeOK, Ids
  <2>6. FilesOK' /\ WrittenAsked'
    BY <2>1, <2>2 DEF Took, FeedbackTypeOK, FilesOK, WrittenAsked, Ids, Becomes
  <2> QED
    BY <2>3, <2>4, <2>5, <2>6
<1>5. ASSUME NEW p \in Processes, BreadcrumbStep(p)
      PROVE  Typed' /\ Ring'
  <2>1. Tended(p)
    BY <1>5, BreadcrumbShape
  <2>2. PICK r \in Jobs : /\ Becomes(p, r) /\ r.id \in Ids
                          /\ \/ r.at = "stat" /\ r.kind \in {"label", "retrieval"}
                             \/ r.at = "consume" /\ r.kind = "none"
    BY <2>1 DEF Tended
  <2>3. job' \in [Processes -> Jobs] /\ JobsRight'
    <3>1. JobRight(r)
      BY <2>2 DEF JobRight, Appending
    <3> QED
      BY <2>1, <2>2, <3>1, BecomesTyped DEF Tended
  <2>4. breadcrumb' \in {0, breadcrumb}
    BY <2>1 DEF Tended
  <2>5. FeedbackTypeOK' /\ Ring'
    BY <2>1, <2>3, <2>4 DEF Tended, FeedbackTypeOK, Ids, Ring
  <2>6. FilesOK' /\ WrittenAsked'
    BY <2>1, <2>2 DEF Tended, FeedbackTypeOK, FilesOK, WrittenAsked, Ids, Becomes
  <2> QED
    BY <2>3, <2>5, <2>6
<1>6. ASSUME NEW p \in Processes, Advance(p)
      PROVE  Typed' /\ Ring'
  <2>1. Advanced(p)
    BY <1>6, AdvanceShape
  <2>2. PICK r \in Jobs : Becomes(p, r) /\ r.at \in Appending /\ r.id = job[p].id /\ r.kind = job[p].kind
    BY <2>1 DEF Advanced
  <2>3. job' \in [Processes -> Jobs] /\ JobsRight'
    <3>1. JobRight(r)
      BY <2>1, <2>2 DEF Advanced, JobsRight, JobRight, Appending
    <3> QED
      BY <2>1, <2>2, <3>1, BecomesTyped DEF Advanced
  <2>4. FeedbackTypeOK' /\ WrittenAsked' /\ Ring'
    BY <2>1, <2>3 DEF Advanced, FeedbackTypeOK, WrittenAsked, Ids, Ring
  <2> QED
    BY <2>1, <2>3, <2>4 DEF Advanced
<1>7. ASSUME NEW p \in Processes, Write(p)
      PROVE  Typed' /\ Ring'
  <2>1. Wrote(p)
    BY <1>7, WriteShape
  <2>2. PICK r \in Jobs : /\ Becomes(p, r)
                          /\ \/ r = NoJob
                             \/ r.id = job[p].id /\ r.at \in {"clear", "stat"} /\ r.kind \in {"label", "retrieval"}
    BY <2>1 DEF Wrote
  <2>3. job' \in [Processes -> Jobs] /\ JobsRight'
    <3>1. JobRight(r)
      BY <2>1, <2>2 DEF Wrote, JobRight, NoJob, Appending
    <3> QED
      BY <2>1, <2>2, <3>1, BecomesTyped DEF Wrote
  <2>4. FeedbackTypeOK' /\ Ring'
    BY <2>1, <2>3 DEF Wrote, FeedbackTypeOK, Ids, Ring
  <2>5. WrittenAsked'
    <3> SUFFICES ASSUME NEW i \in 1 .. Len(written) + 1
                 PROVE  written'[i].id \in Ids
      BY <2>1 DEF Wrote, WrittenAsked, Ids, FeedbackTypeOK
    <3>1. CASE i = Len(written) + 1
      BY <2>1, <3>1 DEF Wrote
    <3>2. CASE i \in 1 .. Len(written)
      BY <2>1, <3>2 DEF Wrote, WrittenAsked
    <3> QED
      BY <3>1, <3>2 DEF FeedbackTypeOK
  <2> QED
    BY <2>1, <2>3, <2>4, <2>5 DEF Wrote
<1>8. ASSUME NEW p \in Processes, AppendFails(p)
      PROVE  Typed' /\ Ring'
  <2>1. Failed(p)
    BY <1>8, FailShape
  <2>2. NoJob \in Jobs /\ JobRight(NoJob)
    BY DEF NoJob, Jobs, Places, Kinds, Appending, JobRight
  <2>3. job' \in [Processes -> Jobs] /\ JobsRight'
    BY <2>1, <2>2, BecomesTyped DEF Failed
  <2>4. FeedbackTypeOK' /\ Ring'
    BY <2>1, <2>3 DEF Failed, FeedbackTypeOK, Ids, Ring
  <2>5. FilesOK' /\ WrittenAsked'
    BY <2>1 DEF Failed, FeedbackTypeOK, FilesOK, WrittenAsked, Ids, Becomes, NoJob
  <2> QED
    BY <2>3, <2>4, <2>5
<1> QED
  BY <1>1, <1>2, <1>3, <1>4, <1>5, <1>6, <1>7, <1>8, NextCases

-----------------------------------------------------------------------------
(* No request is forgotten, and a label follows its retrieval.             *)

\* What the order of the records rests on.
Behind == Accounted /\ LabelsBehind /\ CandidatesFirst

\* A retrieval is written, lost or aged before its label can be.
LEMMA BehindKept ==
  ASSUME Typed, Ring, Behind, [Next]_vars PROVE Behind'
<1> USE DEF Typed, Behind
<1>1. CASE HoldRetrieval
  <2>1. Held
    BY <1>1, HoldShape
  <2> QED
    BY <2>1 DEF Held, Accounted, LabelsBehind, PastRetrieval, Logged, CandidatesFirst
<1>2. CASE Restart
  <2>1. Restarting
    BY <1>2, RestartShape
  <2>2. Accounted' /\ CandidatesFirst'
    BY <2>1 DEF Restarting, Accounted, Ids, CandidatesFirst
  <2>3. LabelsBehind'
    BY <2>1 DEF Restarting, LabelsBehind, PastRetrieval, Logged, NoJob
  <2> QED
    BY <2>2, <2>3
<1>3. CASE UNCHANGED vars
  BY <1>3 DEF vars, logVars, Accounted, LabelsBehind, PastRetrieval, Logged, CandidatesFirst, Ids
<1>4. ASSUME NEW h \in Handlers, NEW id \in Ids, TakeRetrieval(h, id)
      PROVE  Behind'
  <2>1. Took(h, id)
    BY <1>4, TakeShape
  <2>2. PICK r \in Jobs : /\ Becomes(h, r) /\ r.id = id /\ r.kind = "retrieval"
                          /\ r.at = "clear" => id \notin pending
    BY <2>1 DEF Took
  <2>3. pending' = pending \ {id}
    BY <2>1, TakeOutShape DEF Took
  <2>4. id \notin pending => id \in aged
    BY <2>1 DEF Took, Accounted
  <2>5. Accounted' /\ CandidatesFirst'
    BY <2>1, <2>3 DEF Took, Accounted, Ids, CandidatesFirst
  <2>6. LabelsBehind'
    BY <2>1, <2>2, <2>4 DEF Took, LabelsBehind, PastRetrieval, Logged, Becomes, FeedbackTypeOK
  <2> QED
    BY <2>5, <2>6
<1>5. ASSUME NEW p \in Processes, BreadcrumbStep(p)
      PROVE  Behind'
  <2>1. Tended(p)
    BY <1>5, BreadcrumbShape
  <2>2. PICK r \in Jobs :
          /\ Becomes(p, r)
          /\ \/ p \in Handlers /\ job[p].at = "clear" /\ r.at = "stat" /\ r.id = job[p].id
             \/ r.kind # "label" /\ r.at # "clear"
    BY <2>1 DEF Tended
  <2>3. Accounted' /\ CandidatesFirst'
    BY <2>1 DEF Tended, Accounted, Ids, CandidatesFirst
  <2>4. LabelsBehind'
    BY <2>1, <2>2 DEF Tended, LabelsBehind, PastRetrieval, Logged, Becomes, FeedbackTypeOK
  <2> QED
    BY <2>3, <2>4
<1>6. ASSUME NEW p \in Processes, Advance(p)
      PROVE  Behind'
  <2>1. Advanced(p)
    BY <1>6, AdvanceShape
  <2>2. PICK r \in Jobs : Becomes(p, r) /\ r.at \in Appending /\ r.id = job[p].id /\ r.kind = job[p].kind
    BY <2>1 DEF Advanced
  <2>3. Accounted' /\ CandidatesFirst'
    BY <2>1 DEF Advanced, Accounted, Ids, CandidatesFirst
  <2>4. LabelsBehind'
    BY <2>1, <2>2 DEF Advanced, LabelsBehind, PastRetrieval, Logged, Becomes, FeedbackTypeOK, Appending
  <2> QED
    BY <2>3, <2>4
<1>7. ASSUME NEW p \in Processes, Write(p)
      PROVE  Behind'
  <2>1. Wrote(p)
    BY <1>7, WriteShape
  <2>2. PICK r \in Jobs : /\ Becomes(p, r)
                          /\ r = NoJob \/ (job[p].kind = "retrieval" /\ r.id = job[p].id)
    BY <2>1 DEF Wrote
  <2> DEFINE n == Len(written)
  <2>3. /\ n \in Nat /\ DOMAIN written = 1 .. n /\ DOMAIN written' = 1 .. n + 1
        /\ \A i \in 1 .. n : written'[i] = written[i]
        /\ written'[n + 1].kind = job[p].kind /\ written'[n + 1].id = job[p].id
    BY <2>1 DEF Wrote, FeedbackTypeOK
  <2> HIDE DEF n
  <2> DEFINE logged(id) == \E k \in DOMAIN written' : written'[k].kind = "retrieval" /\ written'[k].id = id
  <2>4. \A id : Logged(id) => logged(id)
    BY <2>3 DEF Logged
  <2>5. job[p].kind = "retrieval" => logged(job[p].id)
    <3>1. n + 1 \in DOMAIN written'
      BY <2>3
    <3> QED
      BY <2>3, <3>1 DEF Logged
  <2>6. LabelsBehind'
    <3> HIDE DEF logged
    <3> SUFFICES ASSUME NEW q \in Processes, PastRetrieval(q)'
                 PROVE  job'[q].id \in aged \/ logged(job'[q].id)
      BY <2>1 DEF Wrote, LabelsBehind, Logged, logged
    <3>1. CASE q = p
      <4>1. job'[q] = r /\ r # NoJob
        BY <2>2, <3>1 DEF Becomes, FeedbackTypeOK, PastRetrieval, NoJob
      <4> QED
        BY <2>2, <2>5, <4>1
    <3>2. CASE q # p
      <4>1. job'[q] = job[q]
        BY <2>2, <3>2 DEF Becomes, FeedbackTypeOK
      <4> QED
        BY <2>4, <4>1 DEF LabelsBehind, PastRetrieval
    <3> QED
      BY <3>1, <3>2
  <2>7. CandidatesFirst'
    <3> SUFFICES ASSUME NEW i \in 1 .. n + 1, written'[i].kind = "label", written'[i].id \notin aged
                 PROVE  \E k \in 1 .. i - 1 : written'[k].kind = "retrieval" /\ written'[k].id = written'[i].id
      BY <2>1, <2>3 DEF Wrote, CandidatesFirst
    <3>1. CASE i \in 1 .. n
      <4>1. PICK k \in 1 .. i - 1 : written[k].kind = "retrieval" /\ written[k].id = written[i].id
        BY <2>3, <3>1 DEF CandidatesFirst
      <4>2. k \in 1 .. n
        BY <2>3, <3>1
      <4> QED
        BY <2>3, <3>1, <4>1, <4>2
    <3>2. CASE i = n + 1
      <4>1. Logged(job[p].id)
        BY <2>3, <3>2 DEF LabelsBehind, PastRetrieval
      <4>2. PICK k \in 1 .. n : written[k].kind = "retrieval" /\ written[k].id = job[p].id
        BY <2>3, <4>1 DEF Logged
      <4>3. k \in 1 .. i - 1
        BY <2>3, <3>2
      <4> QED
        BY <2>3, <3>2, <4>2, <4>3
    <3> QED
      BY <2>3, <3>1, <3>2
  <2>8. Accounted'
    BY <2>1 DEF Wrote, Accounted, Ids
  <2> QED
    BY <2>6, <2>7, <2>8
<1>8. ASSUME NEW p \in Processes, AppendFails(p)
      PROVE  Behind'
  <2>1. Failed(p)
    BY <1>8, FailShape
  <2>2. Accounted' /\ CandidatesFirst'
    BY <2>1 DEF Failed, Accounted, Ids, CandidatesFirst
  <2>3. LabelsBehind'
    BY <2>1 DEF Failed, LabelsBehind, PastRetrieval, Logged, Becomes, FeedbackTypeOK, NoJob
  <2> QED
    BY <2>2, <2>3
<1> QED
  BY <1>1, <1>2, <1>3, <1>4, <1>5, <1>6, <1>7, <1>8, NextCases

-----------------------------------------------------------------------------
(* A search labels a retrieval once.                                       *)

\* The labels of a request among the records w, and those of hooks.
LabelsIn(w, id) == {i \in DOMAIN w : w[i].kind = "label" /\ w[i].id = id}
HookLabelsIn(w, id) == {i \in LabelsIn(w, id) : w[i].by \in Hooks}

\* A record more is a label more at most, of its own request and by its writer.
LEMMA WroteLabels ==
  ASSUME Typed, NEW p \in Processes, Wrote(p)
  PROVE  \A id :
           /\ (job[p].kind = "label" /\ job[p].id = id) \/ LabelsIn(written', id) = LabelsIn(written, id)
           /\ \/ HookLabelsIn(written', id) = HookLabelsIn(written, id)
              \/ /\ job[p].kind = "label" /\ job[p].id = id /\ p \in Hooks
                 /\ HookLabelsIn(written', id) = HookLabelsIn(written, id) \union {Len(written) + 1}
<1> DEFINE n == Len(written)
<1>1. /\ n \in Nat /\ DOMAIN written = 1 .. n /\ DOMAIN written' = 1 .. n + 1
      /\ \A i \in 1 .. n : written'[i] = written[i]
      /\ written'[n + 1].kind = job[p].kind /\ written'[n + 1].id = job[p].id
      /\ written'[n + 1].by = p
  BY DEF Wrote, Typed, FeedbackTypeOK
<1> HIDE DEF n
<1>2. n + 1 \notin DOMAIN written /\ \A i : i \in DOMAIN written' <=> i \in DOMAIN written \/ i = n + 1
  BY <1>1
<1> TAKE id
<1>3. \A i : i \in LabelsIn(written', id) <=>
          \/ i \in LabelsIn(written, id)
          \/ i = n + 1 /\ job[p].kind = "label" /\ job[p].id = id
  BY <1>1, <1>2 DEF LabelsIn
<1>4. \A i \in LabelsIn(written, id) : written'[i] = written[i]
  BY <1>1 DEF LabelsIn
<1>5. \A i : i \in HookLabelsIn(written', id) <=>
          \/ i \in HookLabelsIn(written, id)
          \/ i = n + 1 /\ job[p].kind = "label" /\ job[p].id = id /\ p \in Hooks
  BY <1>1, <1>2, <1>3, <1>4 DEF HookLabelsIn
<1>6. (job[p].kind = "label" /\ job[p].id = id) \/ LabelsIn(written', id) = LabelsIn(written, id)
  <2>1. SUFFICES ASSUME ~(job[p].kind = "label" /\ job[p].id = id)
                 PROVE  LabelsIn(written', id) = LabelsIn(written, id)
    OBVIOUS
  <2>2. \A i : i \in LabelsIn(written', id) <=> i \in LabelsIn(written, id)
    BY <1>3, <2>1
  <2> QED
    BY <2>2 DEF LabelsIn
<1>7. CASE job[p].kind = "label" /\ job[p].id = id /\ p \in Hooks
  <2>1. \A i : i \in HookLabelsIn(written', id) <=> i \in HookLabelsIn(written, id) \union {n + 1}
    BY <1>5, <1>7
  <2>2. HookLabelsIn(written', id) = HookLabelsIn(written, id) \union {n + 1}
    BY <2>1 DEF HookLabelsIn
  <2> QED
    BY <1>6, <1>7, <2>2 DEF n
<1>8. CASE ~(job[p].kind = "label" /\ job[p].id = id /\ p \in Hooks)
  <2>1. \A i : i \in HookLabelsIn(written', id) <=> i \in HookLabelsIn(written, id)
    BY <1>5, <1>8
  <2>2. HookLabelsIn(written', id) = HookLabelsIn(written, id)
    BY <2>1 DEF HookLabelsIn
  <2> QED
    BY <1>6, <2>2
<1> QED
  BY <1>7, <1>8

\* What the breadcrumb offers has no label, with any number of hooks: whoever
\* writes one has removed it, and what has been put there since is younger.
LEMMA BreadcrumbKept ==
  ASSUME Typed, Ring, BreadcrumbFresh, [Next]_vars PROVE BreadcrumbFresh'
<1> USE DEF Typed, FeedbackTypeOK
<1> SUFFICES /\ breadcrumb' # 0 => LabelsIn(written', breadcrumb') = {}
             /\ \A p \in Processes : PastBreadcrumb(p)' => job'[p].id # breadcrumb'
  BY DEF BreadcrumbFresh, LabelsIn, Labels
<1>0. /\ breadcrumb # 0 => LabelsIn(written, breadcrumb) = {}
      /\ \A p \in Processes : PastBreadcrumb(p) => job[p].id # breadcrumb
      /\ \A p \in Processes : PastBreadcrumb(p) => job[p].id \in Ids
  BY DEF BreadcrumbFresh, LabelsIn, Labels, PastBreadcrumb, JobsRight, JobRight
<1>1. CASE HoldRetrieval
  <2>1. Held
    BY <1>1, HoldShape
  <2>2. LabelsIn(written, asked + 1) = {}
    BY <2>1 DEF Held, WrittenAsked, LabelsIn
  <2> QED
    BY <1>0, <2>1, <2>2 DEF Held, PastBreadcrumb
<1>2. CASE Restart
  <2>1. Restarting
    BY <1>2, RestartShape
  <2> QED
    BY <1>0, <2>1 DEF Restarting, PastBreadcrumb, NoJob
<1>3. CASE UNCHANGED vars
  BY <1>0, <1>3 DEF vars, logVars, PastBreadcrumb
<1>4. ASSUME NEW h \in Handlers, NEW id \in Ids, TakeRetrieval(h, id)
      PROVE  /\ breadcrumb' # 0 => LabelsIn(written', breadcrumb') = {}
             /\ \A p \in Processes : PastBreadcrumb(p)' => job'[p].id # breadcrumb'
  <2>1. Took(h, id)
    BY <1>4, TakeShape
  <2>2. PICK r \in Jobs : Becomes(h, r) /\ r.kind = "retrieval" /\ h \notin Hooks
    BY <2>1, FeedbackAssumption DEF Took
  <2> QED
    BY <1>0, <2>1, <2>2 DEF Took, PastBreadcrumb, Becomes
<1>5. ASSUME NEW p \in Processes, BreadcrumbStep(p)
      PROVE  /\ breadcrumb' # 0 => LabelsIn(written', breadcrumb') = {}
             /\ \A q \in Processes : PastBreadcrumb(q)' => job'[q].id # breadcrumb'
  <2>1. Tended(p)
    BY <1>5, BreadcrumbShape
  <2>2. PICK r \in Jobs : /\ Becomes(p, r) /\ r.id \in Ids
                          /\ breadcrumb' = 0 \/ (breadcrumb' = breadcrumb /\ r.kind = "none")
    BY <2>1 DEF Tended
  <2>3. \A q \in Processes : job'[q] = IF q = p THEN r ELSE job[q]
    BY <2>2 DEF Becomes
  <2>4. CASE breadcrumb' = 0
    BY <1>0, <2>2, <2>3, <2>4 DEF PastBreadcrumb, Ids
  <2>5. CASE breadcrumb' = breadcrumb /\ r.kind = "none"
    BY <1>0, <2>1, <2>3, <2>5 DEF Tended, PastBreadcrumb
  <2> QED
    BY <2>2, <2>4, <2>5
<1>6. ASSUME NEW p \in Processes, Advance(p)
      PROVE  /\ breadcrumb' # 0 => LabelsIn(written', breadcrumb') = {}
             /\ \A q \in Processes : PastBreadcrumb(q)' => job'[q].id # breadcrumb'
  <2>1. Advanced(p)
    BY <1>6, AdvanceShape
  <2> QED
    BY <1>0, <2>1 DEF Advanced, PastBreadcrumb, Becomes
<1>7. ASSUME NEW p \in Processes, Write(p)
      PROVE  /\ breadcrumb' # 0 => LabelsIn(written', breadcrumb') = {}
             /\ \A q \in Processes : PastBreadcrumb(q)' => job'[q].id # breadcrumb'
  <2>1. Wrote(p)
    BY <1>7, WriteShape
  <2>2. PICK r \in Jobs : /\ Becomes(p, r)
                          /\ \/ r = NoJob
                             \/ /\ job[p].kind = "retrieval" /\ r.id = job[p].id
                                /\ PastBreadcrumb(p) \/ (r.kind = "retrieval" /\ p \notin Hooks)
    BY <2>1, FeedbackAssumption DEF Wrote, PastBreadcrumb, Processes
  <2>3. \A q \in Processes : job'[q] = IF q = p THEN r ELSE job[q]
    BY <2>2 DEF Becomes
  <2>4. \A q \in Processes : PastBreadcrumb(q)' => job'[q].id # breadcrumb'
    BY <1>0, <2>1, <2>2, <2>3 DEF Wrote, PastBreadcrumb, NoJob
  <2>5. ASSUME breadcrumb # 0
        PROVE  LabelsIn(written', breadcrumb) = {}
    <3>1. ~(job[p].kind = "label" /\ job[p].id = breadcrumb)
      BY <1>0 DEF PastBreadcrumb
    <3> QED
      BY <1>0, <2>1, <2>5, <3>1, WroteLabels
  <2> QED
    BY <2>1, <2>4, <2>5 DEF Wrote
<1>8. ASSUME NEW p \in Processes, AppendFails(p)
      PROVE  /\ breadcrumb' # 0 => LabelsIn(written', breadcrumb') = {}
             /\ \A q \in Processes : PastBreadcrumb(q)' => job'[q].id # breadcrumb'
  <2>1. Failed(p)
    BY <1>8, FailShape
  <2> QED
    BY <1>0, <2>1 DEF Failed, PastBreadcrumb, Becomes, NoJob
<1> QED
  BY <1>1, <1>2, <1>3, <1>4, <1>5, <1>6, <1>7, <1>8, NextCases

\* One hook gives a request one label: it read the breadcrumb before there was
\* any, and it is the only one to write one since.
LEMMA HooksOnceKept ==
  ASSUME Typed, Ring, BreadcrumbFresh, HooksOnce, \A h, k \in Hooks : h = k, [Next]_vars
  PROVE  HooksOnce'
<1> USE DEF Typed, FeedbackTypeOK
<1> DEFINE once(w, j) ==
             /\ \A k \in Hooks : j[k].at # "idle" => HookLabelsIn(w, j[k].id) = {}
             /\ \A id \in Nat : \A i, k \in HookLabelsIn(w, id) : i = k
<1>a. Hooks \subseteq Processes /\ \A p \in Hooks : p \notin Handlers
  BY FeedbackAssumption DEF Processes
<1>b. once(written, job) /\ (once(written', job') => HooksOnce')
  BY DEF HooksOnce, HookLabels, Labels, HookLabelsIn, LabelsIn
<1>c. /\ \A k \in Hooks : job[k].at # "idle" => HookLabelsIn(written, job[k].id) = {}
      /\ \A id \in Nat : \A i, k \in HookLabelsIn(written, id) : i = k
  BY <1>b
<1> SUFFICES once(written', job')
  BY <1>b
<1>1. CASE HoldRetrieval
  <2>1. Held
    BY <1>1, HoldShape
  <2> QED
    BY <1>b, <2>1 DEF Held
<1>2. CASE Restart
  <2>1. Restarting
    BY <1>2, RestartShape
  <2>2. NoJob.at = "idle"
    BY DEF NoJob
  <2>3. \A k \in Hooks : job'[k].at # "idle" => job'[k] = job[k]
    BY <1>a, <2>1, <2>2 DEF Restarting
  <2> QED
    BY <1>a, <1>c, <2>1, <2>3 DEF Restarting
<1>3. CASE UNCHANGED vars
  BY <1>b, <1>3 DEF vars, logVars
<1>4. ASSUME NEW h \in Handlers, NEW id \in Ids, TakeRetrieval(h, id)
      PROVE  once(written', job')
  <2>1. Took(h, id)
    BY <1>4, TakeShape
  <2>2. \A k \in Hooks : job'[k] = job[k]
    BY <1>a, <2>1 DEF Took, Becomes
  <2> QED
    BY <1>c, <2>1, <2>2 DEF Took
<1>5. ASSUME NEW p \in Processes, BreadcrumbStep(p)
      PROVE  once(written', job')
  <2>1. Tended(p)
    BY <1>5, BreadcrumbShape
  <2>2. PICK r \in Jobs : /\ Becomes(p, r)
                          /\ \/ p \in Handlers
                             \/ p \in Hooks /\ breadcrumb # 0 /\ r.id = breadcrumb
                             \/ p \in Hooks /\ job[p].at # "idle" /\ r.id = job[p].id
    BY <2>1 DEF Tended
  <2>3. \A q \in Processes : job'[q] = IF q = p THEN r ELSE job[q]
    BY <2>2 DEF Becomes
  <2>4. p \in Hooks => HookLabelsIn(written, r.id) = {}
    <3>1. breadcrumb # 0 => HookLabelsIn(written, breadcrumb) = {}
      BY DEF BreadcrumbFresh, Labels, HookLabelsIn, LabelsIn
    <3> QED
      BY <1>a, <1>c, <2>2, <3>1
  <2> QED
    BY <1>a, <1>c, <2>1, <2>3, <2>4 DEF Tended
<1>6. ASSUME NEW p \in Processes, Advance(p)
      PROVE  once(written', job')
  <2>1. Advanced(p)
    BY <1>6, AdvanceShape
  <2>2. \A q \in Processes : job'[q].id = job[q].id /\ (job[q].at = "idle" => job'[q].at = "idle")
    BY <2>1 DEF Advanced, Becomes, Appending
  <2> QED
    BY <1>a, <1>c, <2>1, <2>2 DEF Advanced
<1>7. ASSUME NEW p \in Processes, Write(p)
      PROVE  once(written', job')
  <2>1. Wrote(p)
    BY <1>7, WriteShape
  <2>2. PICK r \in Jobs : /\ Becomes(p, r)
                          /\ \/ job[p].kind = "label" /\ r.at = "idle"
                             \/ job[p].kind = "retrieval" /\ r.id = job[p].id
    BY <2>1 DEF Wrote, NoJob
  <2>3. \A q \in Processes : job'[q] = IF q = p THEN r ELSE job[q]
    BY <2>2 DEF Becomes
  <2>4. job[p].at # "idle"
    BY <2>1 DEF Wrote
  <2>5. \A id : \/ HookLabelsIn(written', id) = HookLabelsIn(written, id)
                \/ /\ job[p].kind = "label" /\ job[p].id = id /\ p \in Hooks
                   /\ HookLabelsIn(written', id) = HookLabelsIn(written, id) \union {Len(written) + 1}
    BY <2>1, WroteLabels
  <2>6. CASE p \notin Hooks \/ job[p].kind = "retrieval"
    <3>1. \A id : HookLabelsIn(written', id) = HookLabelsIn(written, id)
      BY <2>5, <2>6
    <3> QED
      BY <1>a, <1>c, <2>2, <2>3, <2>4, <2>6, <3>1
  <2>7. CASE p \in Hooks /\ job[p].kind = "label"
    <3>1. \A k \in Hooks : job'[k].at = "idle"
      BY <1>a, <2>2, <2>3, <2>7
    <3>2. HookLabelsIn(written, job[p].id) = {}
      BY <1>c, <2>4, <2>7
    <3>3. \A id \in Nat : \A i, k \in HookLabelsIn(written', id) : i = k
      <4> TAKE id \in Nat
      <4>1. CASE HookLabelsIn(written', id) = HookLabelsIn(written, id)
        BY <1>c, <4>1
      <4>2. CASE job[p].id = id /\ HookLabelsIn(written', id) = HookLabelsIn(written, id) \union {Len(written) + 1}
        BY <3>2, <4>2
      <4> QED
        BY <2>5, <4>1, <4>2
    <3> QED
      BY <3>1, <3>3
  <2> QED
    BY <2>1, <2>6, <2>7 DEF Wrote
<1>8. ASSUME NEW p \in Processes, AppendFails(p)
      PROVE  once(written', job')
  <2>1. Failed(p)
    BY <1>8, FailShape
  <2> QED
    BY <1>a, <1>c, <2>1 DEF Failed, Becomes, NoJob
<1> QED
  BY <1>1, <1>2, <1>3, <1>4, <1>5, <1>6, <1>7, <1>8, NextCases

-----------------------------------------------------------------------------
(* The theorems.                                                           *)

\* The inductive invariant, with any number of hooks.
Inv == Typed /\ Ring /\ Behind /\ BreadcrumbFresh

\* Before the first request.
LEMMA InitInv == Init => Inv /\ HooksOnce
<1> SUFFICES ASSUME Init PROVE Inv /\ HooksOnce
  OBVIOUS
<1> USE DEF Init
<1>1. Typed
  <2>1. /\ order \in Seq(Nat) /\ written \in Seq(Records) /\ files \in Seq(Seq(Nat))
        /\ Len(files) = 0 /\ DOMAIN written = {}
    BY EmptySeq
  <2>2. job \in [Processes -> Jobs] /\ \A p \in Processes : job[p].at = "idle" /\ job[p].kind = "none"
    BY DEF NoJob, Jobs, Places, Kinds
  <2> QED
    BY <2>1, <2>2 DEF Typed, FeedbackTypeOK, FilesOK, JobsRight, JobRight, WrittenAsked, Ids, Appending
<1>2. Ring
  BY FeedbackAssumption DEF Ring, InOrder, Distinct
<1>3. Behind
  BY DEF Behind, Accounted, LabelsBehind, PastRetrieval, CandidatesFirst, Ids, NoJob
<1>4. BreadcrumbFresh /\ HooksOnce
  BY FeedbackAssumption DEF BreadcrumbFresh, PastBreadcrumb, HooksOnce, HookLabels, Labels, NoJob, Processes
<1> QED
  BY <1>1, <1>2, <1>3, <1>4 DEF Inv

\* Every job is about a request there was, and writes to a file there is.
THEOREM FeedbackTyped == Spec => [](FeedbackTypeOK /\ FilesOK /\ JobsRight)
<1>1. Inv /\ [Next]_vars => Inv'
  BY NextTyped, BehindKept, BreadcrumbKept DEF Inv
<1>2. Inv => FeedbackTypeOK /\ FilesOK /\ JobsRight
  BY DEF Inv, Typed
<1> QED
  BY InitInv, <1>1, <1>2, PTL DEF Spec

\* holdRetrieval and takeRetrieval keep the map and its order the same
\* requests, each once, within pendingRetrievals.
THEOREM RingHolds == Spec => []RingConsistent
<1>1. Inv /\ [Next]_vars => Inv'
  BY NextTyped, BehindKept, BreadcrumbKept DEF Inv
<1>2. Inv => RingConsistent
  BY DistinctCounts DEF Inv, Typed, FeedbackTypeOK, Ring, RingConsistent
<1> QED
  BY InitInv, <1>1, <1>2, PTL DEF Spec

\* A label in the log has its retrieval in front of it, whoever wrote either,
\* unless that retrieval had aged out of the ring or was lost.
THEOREM LabelsFollow == Spec => []CandidatesFirst
<1>1. Inv /\ [Next]_vars => Inv'
  BY NextTyped, BehindKept, BreadcrumbKept DEF Inv
<1>2. Inv => CandidatesFirst
  BY DEF Inv, Behind
<1> QED
  BY InitInv, <1>1, <1>2, PTL DEF Spec

\* A retrieval is on offer to the next search only while it has no label, with
\* any number of hooks at work.
THEOREM OfferedUnlabelled == Spec => [](breadcrumb # 0 => Labels(breadcrumb) = {})
<1>1. Inv /\ [Next]_vars => Inv'
  BY NextTyped, BehindKept, BreadcrumbKept DEF Inv
<1>2. Inv => (breadcrumb # 0 => Labels(breadcrumb) = {})
  BY DEF Inv, BreadcrumbFresh
<1> QED
  BY InitInv, <1>1, <1>2, PTL DEF Spec

\* Where no two hooks run at a time, searches label a retrieval once.
THEOREM SearchesLabelOnce == (\A h, k \in Hooks : h = k) => (Spec => []SearchLabelsOnce)
<1> SUFFICES ASSUME \A h, k \in Hooks : h = k PROVE Spec => []SearchLabelsOnce
  OBVIOUS
<1> DEFINE inv == Inv /\ HooksOnce
<1>1. Init => inv
  BY InitInv
<1>2. inv /\ [Next]_vars => inv'
  BY NextTyped, BehindKept, BreadcrumbKept, HooksOnceKept DEF Inv
<1>3. inv => SearchLabelsOnce
  <2> SUFFICES ASSUME Inv, HooksOnce PROVE SearchLabelsOnce
    OBVIOUS
  <2>1. ASSUME NEW id \in 1 .. asked
        PROVE  Cardinality(HookLabels(id)) <= 1
    <3>1. \A i, j \in HookLabels(id) : i = j
      BY DEF HooksOnce, Inv, Typed, FeedbackTypeOK
    <3>2. CASE HookLabels(id) = {}
      BY <3>2, FS_EmptySet
    <3>3. ASSUME NEW i \in HookLabels(id)
          PROVE  Cardinality(HookLabels(id)) <= 1
      <4>1. HookLabels(id) = {i}
        BY <3>1
      <4> QED
        BY <4>1, FS_Singleton
    <3> QED
      BY <3>2, <3>3
  <2> QED
    BY <2>1 DEF SearchLabelsOnce, Inv, BreadcrumbFresh
<1> HIDE DEF inv
<1> QED
  BY <1>1, <1>2, <1>3, PTL DEF Spec
=============================================================================
