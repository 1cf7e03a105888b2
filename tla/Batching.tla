----------------------------- MODULE Batching -----------------------------
(***************************************************************************)
(* What goes into the two models, and which answer belongs to which text   *)
(* (embed/onnx.go, rerank/onnx.go).  Texts are embedded in batches of      *)
(* similar length, each row padded to one of a few lengths in one flat     *)
(* tensor; a query and a document are cut and joined into one sequence.    *)
(* The models themselves are external: a row's vector is the row's content *)
(* and the position it is read at.                                         *)
(***************************************************************************)
EXTENDS Integers, Sequences, SequencesExt, FiniteSets, FiniteSetsExt

CONSTANTS
  batchSize,
  MaxTokens,      \* spec.MaxTokens of the embedder
  Shelves,        \* the padded lengths, ascending
  RerankTokens,   \* maxTokens of the reranker
  QueryTokens,    \* maxQueryTokens of the reranker, 0 when it is not set
  QueryDefault    \* defaultRerankerMaxQueryTokens

BatchingAssumption ==
  /\ batchSize \in Nat \ {0} /\ MaxTokens \in Nat \ {0} /\ RerankTokens \in Nat /\ QueryTokens \in Nat
  /\ QueryDefault \in Nat \ {0} /\ Shelves \in Seq(Nat)

\* The markers of both tokenizers, and of padding; words are above.
Pad == 0
CLS == 1
SEP == 2
EOS == 2

-----------------------------------------------------------------------------
(* Batches in order of length (embedAll).                                  *)

\* The indices of the texts, shortest first, equals as they came.
LengthOrder(lens) == SetToSortSeq(DOMAIN lens, LAMBDA i, j : lens[i] < lens[j] \/ (lens[i] = lens[j] /\ i < j))

\* The batches of n texts, as first and last place.
Batches(n) == [k \in 1 .. (n + batchSize - 1) \div batchSize |->
                 <<(k - 1) * batchSize + 1, Min({k * batchSize, n})>>]

\* Each batch puts its vectors where its texts came from.
Place(order, i) == order[i]

\* result[i] is the text whose vector text i is given; the first batch that
\* fails (one of fails) fails the whole.
embedAll(lens, fails) ==
  LET order == LengthOrder(lens)
      batches == Batches(Len(lens))
      Batched(i) == \E k \in DOMAIN batches : batches[k][1] <= i /\ i <= batches[k][2]
  IN IF DOMAIN batches \intersect fails # {} THEN [err |-> TRUE, result |-> <<>>]
     ELSE [err |-> FALSE,
           result |-> [i \in DOMAIN lens |-> order[CHOOSE j \in DOMAIN lens : Batched(j) /\ Place(order, j) = i]]]

-----------------------------------------------------------------------------
(* One batch (runBatch, embedBatch).                                       *)

\* A text's ids, cut, and ending in the token that stands for the whole.
\* Mutant: the end is cut off with the rest.
WithEosCut(ids) == SubSeq(ids, 1, Min({MaxTokens, Len(ids)}))
WithEos(ids) ==
  LET cut == SubSeq(ids, 1, Min({MaxTokens, Len(ids)}))
  IN IF cut # <<>> /\ Last(cut) = EOS THEN cut
     ELSE IF Len(cut) < MaxTokens THEN Append(cut, EOS) ELSE [cut EXCEPT ![Len(cut)] = EOS]

\* The first shelf that is long enough, or else the longest there can be.
Shelf(len) ==
  LET fit == {i \in DOMAIN Shelves : len <= Shelves[i]}
  IN IF fit # {} THEN Shelves[Min(fit)] ELSE MaxTokens

Longest(rows) == Max({1} \union {Len(rows[i]) : i \in DOMAIN rows})

\* Every row is copied to its base in one flat tensor, in their order, with
\* its mask: a row that is too long runs on into the next, which then
\* overwrites it, and off the end nothing is copied.
Flat(rows, seqLen) ==
  [p \in 1 .. Len(rows) * seqLen |->
     LET at == {b \in DOMAIN rows : p > (b - 1) * seqLen /\ p <= (b - 1) * seqLen + Len(rows[b])}
     IN IF at = {} THEN [id |-> Pad, mask |-> 0]
        ELSE [id |-> rows[Max(at)][p - (Max(at) - 1) * seqLen], mask |-> 1]]

runBatch(texts) ==
  LET rows == [i \in DOMAIN texts |-> WithEos(texts[i])]
      seqLen == Shelf(Longest(rows))
  IN [seqLen |-> seqLen, flat |-> Flat(rows, seqLen)]

Row(batch, b) == SubSeq(batch.flat, (b - 1) * batch.seqLen + 1, b * batch.seqLen)

\* The last position that is not padding is the one the vector is read at.
PooledAt(batch, b) == Max({0} \union {s \in 1 .. batch.seqLen : Row(batch, b)[s].mask = 1})

-----------------------------------------------------------------------------
(* A query and a document (encodePair and what builds the pair).           *)

\* A cut sequence keeps its last token.
truncateIDs(ids, max) ==
  IF max <= 0 \/ Len(ids) <= max THEN ids ELSE [SubSeq(ids, 1, max) EXCEPT ![max] = Last(ids)]

QueryRoom ==
  IF QueryTokens <= 0 \/ QueryTokens > RerankTokens - 3 THEN Min({RerankTokens \div 4, QueryDefault})
  ELSE QueryTokens

WithoutFirst(ids) == IF Len(ids) > 1 THEN Tail(ids) ELSE ids

\* The query, sep (another separator, or nothing), and the document without
\* its first token.
Joined(query, sep, doc) ==
  LET q == truncateIDs(query, QueryRoom)
      remaining == RerankTokens - Len(q) - Len(sep)
  IN IF remaining < 1 THEN truncateIDs(q, RerankTokens)
     ELSE q \o sep \o truncateIDs(WithoutFirst(doc), remaining)

buildBERTPairIDs(query, doc) ==
  IF query = <<>> /\ doc = <<>> THEN <<0>> ELSE Joined(query, <<>>, doc)

buildXLMRobertaPairIDs(query, doc) ==
  IF query = <<>> /\ doc = <<>> THEN <<0>>
  ELSE IF query = <<>> THEN truncateIDs(doc, RerankTokens)
  ELSE IF doc = <<>> THEN truncateIDs(query, RerankTokens)
  ELSE Joined(query, <<Last(query)>>, doc)

-----------------------------------------------------------------------------
(* What is promised.                                                       *)

\* Every text is given its own vector, however the texts were batched, or
\* none is.
EachItsOwn(lens, fails) ==
  LET out == embedAll(lens, fails)
  IN IF out.err THEN out.result = <<>> ELSE \A i \in DOMAIN lens : out.result[i] = i

\* No text runs into another's row, and each is read at its own end marker,
\* which stands behind as much of the text as fits.
ReadAtItsEnd(texts) ==
  LET batch == runBatch(texts)
  IN \A b \in DOMAIN texts :
       LET row == Row(batch, b)
           at == PooledAt(batch, b)
           text == SelectSeq(texts[b], LAMBDA id : id # EOS)
           kept == Min({Len(text), MaxTokens - 1})
       IN /\ at > 0 /\ row[at].id = EOS /\ at = kept + 1
          /\ \A s \in 1 .. kept : row[s].id = text[s]

\* A pair fits, both its parts end in their separator, and something of the
\* document is left.
BothHeard(query, doc) ==
  \A pair \in {buildBERTPairIDs(query, doc), buildXLMRobertaPairIDs(query, doc)} :
    query # <<>> /\ doc # <<>> =>
      /\ Len(pair) <= RerankTokens /\ Last(pair) = SEP /\ pair[1] = CLS
      /\ Cardinality({i \in DOMAIN pair : pair[i] = SEP}) >= 2
      /\ (\E i \in DOMAIN doc : doc[i] > SEP) => \E i \in 2 .. Len(pair) :
            pair[i] = doc[2] /\ \E j \in 1 .. i - 1 : pair[j] = SEP
=============================================================================
