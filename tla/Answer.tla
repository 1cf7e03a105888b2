------------------------------- MODULE Answer -------------------------------
(***************************************************************************)
(* From a ranked list to the text an agent reads (retrieve/pipeline.go     *)
(* finishPipeline, packer.go, evidence.go, and find_context in             *)
(* mcp/server.go).  The list is packed into a token budget, long bodies    *)
(* are trimmed to the windows that match the query, or the whole bodies    *)
(* fetched when the caller asks for them, and each line is printed under   *)
(* its number in the file, as the agent cites these numbers.               *)
(*                                                                         *)
(* A pass of the indexer may replace a symbol between the reads of one     *)
(* answer.  Ranking is the business of Ranking; here the list is any.  A   *)
(* line of text knows whose line it is, so that the numbers and spans that *)
(* are claimed can be compared with what is shown.  Tokens are lines.      *)
(***************************************************************************)
EXTENDS Naturals, Sequences, SequencesExt, FiniteSets, FiniteSetsExt, Folds

CONSTANTS
  Ids,           \* symbols.id
  Shapes,        \* what a row may be: see Row
  Budgets,       \* budget_tokens
  FullBodies,    \* defaultFullBodyResults
  CompactAfter,  \* sessionCompactAfter
  MaxBodyLines, WindowLines, WindowStride, ContextLines, MaxWindows,
  WindowsPerResult,  \* the constants of evidence.go
  Calls, Changes     \* bounds on requests and on rows replaced

AnswerAssumption ==
  /\ Budgets \subseteq Nat /\ IsFiniteSet(Ids)
  /\ {FullBodies, CompactAfter, MaxBodyLines, ContextLines, WindowsPerResult, Calls, Changes} \subseteq Nat
  /\ {WindowLines, WindowStride, MaxWindows} \subseteq Nat \ {0}

VARIABLES
  store,      \* store[id]: its row
  at,         \* "idle", "hydrate", "embed", "answered"
  preserve,   \* whether whole bodies are asked for (or a position is looked up)
  next,       \* the result to be hydrated next
  results,    \* the cards: see Card
  expansion,  \* what expand_context will find for each rank
  calls, changes

vars == <<store, at, preserve, next, results, expansion, calls, changes>>

-----------------------------------------------------------------------------
(* Rows, text and cards.                                                   *)

\* A row: the symbol it is of, its first line and number of lines, how many
\* of them fit into the capped excerpt, whether the whole body is kept beside
\* it, whether it has a docstring, and the line that reads "// ..." itself.
Row(is, start, len, cap, lossless, doc, dots) ==
  [is |-> is, start |-> start, len |-> len, cap |-> cap, lossless |-> lossless, doc |-> doc, dots |-> dots]

TextLine(of, n, dots) == [of |-> of, at |-> n, dots |-> dots]
Gap == TextLine("gap", 0, TRUE)
Mark == TextLine("truncated", 0, FALSE)

FullText(s) == [i \in 1 .. s.len |-> TextLine(s.is, s.start + i - 1, i = s.dots)]
\* bodyParts of the extractors.
Excerpt(s) == IF s.len <= s.cap THEN FullText(s) ELSE SubSeq(FullText(s), 1, s.cap) \o <<Mark>>

\* A legacy excerpt is never passed off as the body: that is an error.
NoBody == <<>>
GetSymbolBody(id) ==
  LET s == store[id] IN IF s.lossless \/ s.len <= s.cap THEN FullText(s) ELSE NoBody

\* A result: the row it was ranked by, its text, what is said of it, and
\* whether it is to be windowed.
Card(id) ==
  LET s == store[id]
  IN [id |-> id, is |-> s.is, start |-> s.start, end |-> s.start + s.len - 1, doc |-> s.doc,
      text |-> Excerpt(s), excerpt |-> Excerpt(s), detail |-> "full", first |-> 0, last |-> 0, segs |-> <<>>, job |-> FALSE]

-----------------------------------------------------------------------------
(* Pack.                                                                   *)

compactBody(c) == <<TextLine("signature", 0, FALSE)>> \o (IF c.doc THEN <<TextLine("doc", 0, FALSE)>> ELSE <<>>)

Compact(c) ==
  [c EXCEPT !.text = compactBody(c), !.detail = "compact", !.first = c.start,
            !.last = c.start + Len(compactBody(c)) - 1, !.segs = <<>>]

Tiered(cards, full) == [i \in DOMAIN cards |-> IF i > full THEN Compact(cards[i]) ELSE cards[i]]
Cost(cards) == FoldLeft(LAMBDA sum, c : sum + Max({1, Len(c.text)}), 0, cards)

\* As many as fit, in order; the first that does not fit ends it.
Pack(cards, budget, full) ==
  LET tiered == Tiered(cards, full)
  IN SubSeq(tiered, 1, Max({n \in 0 .. Len(cards) : Cost(SubSeq(tiered, 1, n)) <= budget}))

-----------------------------------------------------------------------------
(* Evidence.                                                               *)

\* A text that carries the mark is an excerpt, however it got here.
markTruncatedAsExcerpt(c) ==
  IF Mark \in ToSet(c.text)
  THEN [c EXCEPT !.detail = "excerpt", !.last = c.start + Len(c.text) - 1] ELSE c

\* The span is set to all of the symbol first; what is compact keeps its own.
ResetSpan(c) ==
  IF c.detail = "compact" THEN c
  ELSE markTruncatedAsExcerpt([c EXCEPT !.first = c.start, !.last = c.end])

Stride(n) == IF n \div WindowStride > MaxWindows THEN n \div MaxWindows + 1 ELSE WindowStride
\* Where windows of a body of n lines begin, the last reaching its end.
WindowStarts(n) ==
  LET starts == {k * Stride(n) : k \in 0 .. n} IN {s \in starts : s < n /\ (s = 0 \/ s - Stride(n) + WindowLines < n)}

\* A result of collectWindows: the whole body, or the excerpt where there is
\* none, becomes a job when it has lines enough, or else the excerpt stays.
Job(c, text) == [c EXCEPT !.text = text, !.job = TRUE]
Collect(c, body) ==
  LET text == IF body = NoBody THEN c.excerpt ELSE body
  IN IF Len(text) > MaxBodyLines THEN Job(c, text) ELSE c

\* Half-open ranges, widened by the context lines.
Span(start, n) ==
  [start |-> IF start < ContextLines THEN 0 ELSE start - ContextLines, end |-> Min({n, start + WindowLines + ContextLines})]

mergeSpans(spans) ==
  FoldLeft(LAMBDA out, s : IF out # <<>> /\ s.start <= Last(out).end
                           THEN Front(out) \o <<[Last(out) EXCEPT !.end = Max({@, s.end})]>>
                           ELSE Append(out, s), <<>>, spans)

topSpans(windows, n) ==
  LET starts == SelectSeq([i \in 1 .. n |-> i - 1], LAMBDA s : s \in windows)
  IN [i \in DOMAIN starts |-> Span(starts[i], n)]

Joined(parts) == FoldLeft(LAMBDA out, p : IF out = <<>> THEN p ELSE out \o <<Gap>> \o p, <<>>, parts)

renderSegments(c, spans) ==
  [c EXCEPT !.text = Joined([i \in DOMAIN spans |-> SubSeq(c.text, spans[i].start + 1, spans[i].end)]),
            !.segs = IF Len(spans) > 1
                     THEN [i \in DOMAIN spans |-> [start |-> c.start + spans[i].start, lines |-> spans[i].end - spans[i].start]]
                     ELSE <<>>,
            !.first = c.start + spans[1].start, !.last = c.start + Last(spans).end - 1, !.detail = "excerpt"]

\* What the two scorers may have kept of result i: the first has more.
Kept(c, i) ==
  IF ~c.job THEN {{}}
  ELSE {w \in SUBSET WindowStarts(Len(c.text)) : w # {} /\ Cardinality(w) <= (IF i = 1 THEN WindowsPerResult ELSE 1)}

-----------------------------------------------------------------------------
Init ==
  /\ store \in [Ids -> Shapes] /\ \A i, j \in Ids : i # j => store[i].is # store[j].is
  /\ at = "idle" /\ preserve = FALSE /\ next = 0 /\ results = <<>> /\ expansion = <<>>
  /\ calls = 0 /\ changes = 0

\* A result that is asked for whole, of which the header says so.  The span of
\* a compact one is set too.
Whole(c, body) ==
  LET r == [c EXCEPT !.first = c.start, !.last = c.end]
  IN IF c.detail = "compact" THEN r
     ELSE markTruncatedAsExcerpt(IF body = NoBody THEN r ELSE [r EXCEPT !.text = body])

\* find_context: the list is read, packed, and remembered for expand_context.
\* Deep into a session only the first result keeps its body.
FindContext(list, budget, whole) ==
  /\ at = "idle" /\ calls < Calls /\ calls' = calls + 1
  /\ LET cards == [i \in DOMAIN list |-> Card(list[i])]
         packed == Pack(cards, budget, IF calls + 1 > CompactAfter THEN 1 ELSE FullBodies)
     IN /\ results' = [i \in DOMAIN packed |-> IF whole THEN packed[i] ELSE ResetSpan(packed[i])]
        /\ expansion' = SubSeq(cards, 1, Len(packed))
  /\ preserve' = whole /\ next' = 1 /\ at' = "hydrate"
  /\ UNCHANGED <<store, changes>>

\* Without the query's vector the packed answer is the answer.
NoVector ==
  /\ at = "hydrate" /\ next = 1 /\ ~preserve
  /\ at' = "answered"
  /\ UNCHANGED <<store, preserve, next, results, expansion, calls, changes>>

Hydrate ==
  /\ at = "hydrate" /\ next <= Len(results)
  /\ LET c == results[next]
         body == GetSymbolBody(c.id)
     IN results' = [results EXCEPT ![next] = IF preserve THEN Whole(c, body)
                                             ELSE IF c.detail = "compact" THEN c ELSE Collect(c, body)]
  /\ next' = next + 1
  /\ UNCHANGED <<store, at, preserve, expansion, calls, changes>>

Hydrated ==
  /\ at = "hydrate" /\ next > Len(results)
  /\ at' = IF preserve \/ ~\E i \in DOMAIN results : results[i].job THEN "answered" ELSE "embed"
  /\ UNCHANGED <<store, preserve, next, results, expansion, calls, changes>>

\* The windows are scored by the embedder and, if there is one, the
\* cross-encoder.
TrimToWindows ==
  /\ at = "embed" /\ at' = "answered"
  /\ \E kept \in FoldLeft(LAMBDA ks, i : {Append(k, w) : k \in ks, w \in Kept(results[i], i)}, {<<>>},
                          [i \in DOMAIN results |-> i]) :
       results' = [i \in DOMAIN results |->
                     IF ~results[i].job THEN results[i]
                     ELSE renderSegments(results[i], mergeSpans(topSpans(kept[i], Len(results[i].text))))]
  /\ UNCHANGED <<store, preserve, next, expansion, calls, changes>>

\* Mutant: what was fetched for the windows is not taken back.
EmbedFailsKeeps ==
  /\ at = "embed" /\ at' = "answered"
  /\ UNCHANGED <<store, preserve, next, results, expansion, calls, changes>>

EmbedFails ==
  /\ at = "embed" /\ at' = "answered"
  /\ results' = [i \in DOMAIN results |->
                   IF results[i].job THEN [results[i] EXCEPT !.text = results[i].excerpt] ELSE results[i]]
  /\ UNCHANGED <<store, preserve, next, expansion, calls, changes>>

\* The answer has been sent.
Sent ==
  /\ at = "answered" /\ at' = "idle"
  /\ results' = <<>> /\ expansion' = <<>> /\ preserve' = FALSE /\ next' = 0
  /\ UNCHANGED <<store, calls, changes>>

\* A pass gives an id to another symbol, or a symbol another body.
Replace(id, row) ==
  /\ changes < Changes /\ changes' = changes + 1
  /\ \A i \in Ids : store[i].is # row.is
  /\ store' = [store EXCEPT ![id] = row]
  /\ UNCHANGED <<at, preserve, next, results, expansion, calls>>

Lists == UNION {{l \in [1 .. n -> Ids] : \A i, j \in 1 .. n : i # j => l[i] # l[j]} : n \in 1 .. Cardinality(Ids)}

Next ==
  \/ \E list \in Lists, budget \in Budgets, whole \in BOOLEAN : FindContext(list, budget, whole)
  \/ NoVector \/ Hydrate \/ Hydrated \/ TrimToWindows \/ EmbedFails \/ Sent
  \/ \E id \in Ids, row \in Shapes : Replace(id, row)

Spec == Init /\ [][Next]_vars

-----------------------------------------------------------------------------
(* What is printed.                                                        *)

\* The numbers numberBody puts before the lines: counting on from the first,
\* and from the next segment after a gap, which has none.
\* Mutant: straight through the gaps.
NumbersThrough(c) ==
  [i \in DOMAIN c.text |-> c.first + Cardinality({j \in 1 .. i - 1 : ~c.text[j].dots})]

Numbers(c) ==
  [i \in DOMAIN c.text |->
     LET gaps == {j \in 1 .. i : c.text[j].dots}
         from == IF gaps = {} THEN 1 ELSE Max(gaps) + 1
         base == IF gaps = {} THEN c.first
                 ELSE IF Cardinality(gaps) < Len(c.segs) THEN c.segs[Cardinality(gaps) + 1].start
                 ELSE c.first + from - 1 - Cardinality(gaps)
     IN base + i - from]

\* The lines printed with a number, but for the mark.
Printed(c) == {i \in DOMAIN c.text : ~c.text[i].dots /\ c.text[i] # Mark}

\* visibleSpanText: the lines an excerpt is said to show.
Visible(c) ==
  IF Len(c.segs) < 2 THEN c.first .. c.last
  ELSE UNION {c.segs[k].start .. c.segs[k].start + c.segs[k].lines - 1 : k \in DOMAIN c.segs}

\* "n of m lines".
visibleLineCount(c) ==
  IF c.segs # <<>> THEN FoldLeft(LAMBDA n, s : n + s.lines, 0, c.segs)
  ELSE IF c.last >= c.first THEN c.last - c.first + 1 ELSE 0

Answered == at = "answered"
Cards == {results[i] : i \in DOMAIN results}
\* Its text is of the symbol the header names.
OfItself(c) == c.detail # "compact" /\ \A i \in DOMAIN c.text : c.text[i].of \in {c.is, "gap", "truncated"}

-----------------------------------------------------------------------------
(* Properties.                                                             *)

\* A line is printed under its own number, over every gap of a trimmed body
\* (numberBody: a confident, wrong number is worse than none).
NumberedTrue ==
  Answered => \A c \in Cards : OfItself(c) => \A i \in Printed(c) : Numbers(c)[i] = c.text[i].at

\* What is said to be visible is what is printed; only the mark of a capped
\* body may be counted as a line.  A card that says nothing shows everything.
ClaimsShown ==
  Answered => \A c \in Cards : OfItself(c) =>
    LET printed == {c.text[i].at : i \in Printed(c)}
        said == IF c.detail = "full" THEN c.start .. c.end ELSE Visible(c)
    IN /\ printed \subseteq said
       /\ Cardinality(said \ printed) <= Cardinality(ToSet(c.text) \intersect {Mark})
       /\ c.detail = "excerpt" => visibleLineCount(c) = Cardinality(said)

\* Whatever fails on the way, a body that is longer than its cap is only shown
\* through the windows ("it fails closed onto the capped excerpt").
FailsClosed ==
  Answered /\ ~preserve => \A i \in DOMAIN results :
    LET c == results[i]
    IN Cardinality(Printed(c)) <=
         Max({Len(c.excerpt), (IF i = 1 THEN WindowsPerResult ELSE 1) * (WindowLines + 2 * ContextLines)})

\* The rank an agent reads is the rank expand_context takes, and nothing that
\* was found better is left out for it.
RankExpands ==
  Answered => /\ Len(expansion) = Len(results)
              /\ \A i \in DOMAIN results : expansion[i].id = results[i].id

-----------------------------------------------------------------------------
(* What the code does not keep.                                            *)

\* A compact result is said to show the lines it shows (packer.go: it
\* "reports the lines it ACTUALLY shows").
CompactSaysSo ==
  Answered => \A c \in Cards : c.detail = "compact" => visibleLineCount(c) = Len(c.text)

\* The text under a header is of the symbol in the header (retriever.go: a
\* caller that holds an id "must check it before using the body behind it").
OwnBody == Answered => \A c \in Cards : c.detail = "compact" \/ OfItself(c)

\* The answer keeps to its budget (server.go: "Max total tokens to return").
WithinBudget == Answered => Cost(results) <= Max(Budgets)

\* An excerpt claims exactly the lines that are printed.
ExactClaims ==
  Answered => \A c \in Cards : c.detail = "excerpt" /\ OfItself(c) =>
    Visible(c) = {c.text[i].at : i \in Printed(c)}

=============================================================================
