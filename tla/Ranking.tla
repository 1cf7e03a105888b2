------------------------------ MODULE Ranking ------------------------------
(***************************************************************************)
(* How find_context chooses its answer: runPipeline (retrieve/pipeline.go) *)
(* from the search channels to the cut at max_results.  The channels' hits *)
(* are fused to seeds; seeds and PageRank together order every symbol of   *)
(* the graph, the first of which form a pool; three rules add to the pool; *)
(* its symbols are read, reranked, and four rules decide which survive the *)
(* cut.  Between two of the calls to the store a pass of the watcher may   *)
(* remove a symbol, or put another one on its id.                          *)
(*                                                                         *)
(* A score is only ever compared, so a scorer (vectors, full text,         *)
(* PageRank, cross-encoder, intent rules) is an order of the ids; only the *)
(* reciprocal ranks are added up, exactly.                                 *)
(***************************************************************************)
EXTENDS Integers, Sequences, FiniteSets, SequencesExt, FiniteSetsExt

CONSTANTS
  Catalog,        \* what can be indexed: records [id, file, trivial, alike]
  TestFiles,      \* the files walkerTestFile takes for tests
  Edges,          \* calls: pairs of ids
  Rankings,       \* the orders of all ids a scorer may give
  Requests,       \* what may be asked: see RequestAssumption
  RRFK,           \* rrfK
  VectorProtect,  \* unconditionalVectorSeedProtect
  PPRProtect,     \* protectPPRCount
  IntentWindow,   \* the window of intent.Ranker.Rank
  AnchorShare,    \* anchorSlotShare
  AnchorAgreement,\* minAnchorAgreement
  Reindexes       \* bound on changes of the index during a request

Ids == {s.id : s \in Catalog}

ASSUME RankingAssumption ==
  Ids \subseteq Nat /\ \A r \in Rankings : IsInjective(r) /\ ToSet(r) = Ids
ASSUME LimitAssumption ==
  {RRFK, VectorProtect, PPRProtect, IntentWindow, AnchorShare, AnchorAgreement} \subseteq Nat \ {0}
ASSUME RequestAssumption == \A q \in Requests :
  /\ {q.seedK, q.maxResults} \subseteq Nat \ {0}
  /\ {q.rerankK, q.anchorExpand, q.literalSlots} \subseteq Nat
  /\ q.testFloor \in Int                                  \* 0: by default, negative: off
  /\ q.alpha \in {"adaptive", "mixed", "seeds", "graph"}   \* AlphaSet unless "adaptive"
  /\ {q.vectorOnly, q.reranker, q.includeTrivial} \subseteq BOOLEAN

VARIABLES
  at,        \* what the pipeline does next
  request,
  rows,      \* the symbols in the store
  vSeeds, fSeeds, bSeeds,  \* hits of the vectors, the heads and the bodies
  seeds,     \* the fused seeds
  ppr,       \* the graph's symbols by PageRank
  topIDs,    \* the pool
  anchors,   \* those in it by anchor expansion only
  scored,    \* the pool's symbols as read from the store, then the answer
  ranked,    \* scored as the rankers left it, for the properties
  reindexes

vars == <<at, request, rows, vSeeds, fSeeds, bSeeds, seeds, ppr, topIDs, anchors, scored, ranked, reindexes>>

RowIds == {s.id : s \in rows}
Row(i) == CHOOSE s \in rows : s.id = i
\* The first n of a sequence, or all of it.
Upto(s, n) == SubSeq(s, 1, Min({n, Len(s)}))
\* A sequence without what is not in S.
Among(s, S) == SelectSeq(s, LAMBDA x : x \in S)
\* What s holds at the places P, in order.
At(s, P) == LET places == Among([i \in DOMAIN s |-> i], P) IN [n \in DOMAIN places |-> s[places[n]]]
IdsOf(s) == [i \in DOMAIN s |-> s[i].id]
FilesOf(s) == {s[i].file : i \in DOMAIN s}
Place(s, x) == CHOOSE i \in DOMAIN s : s[i] = x
Precedes(s, x, y) == {x, y} \subseteq ToSet(s) /\ Place(s, x) < Place(s, y)

Init ==
  /\ at = "search" /\ request \in Requests
  /\ rows \in {R \in SUBSET Catalog : Cardinality(R) = Cardinality(Ids) /\ {s.id : s \in R} = Ids}
  /\ vSeeds = <<>> /\ fSeeds = <<>> /\ bSeeds = <<>> /\ seeds = <<>>
  /\ ppr = <<>> /\ topIDs = <<>> /\ anchors = {} /\ scored = <<>> /\ ranked = <<>>
  /\ reindexes = 0

-----------------------------------------------------------------------------
(* Seeds.                                                                  *)

\* What a channel finds: the k best it knows, or nothing (no match, or for
\* the vectors a query that could not be embedded).
Hits(k) == {<<>>} \union {Upto(Among(r, RowIds), k) : r \in Rankings}

SearchByVectorScored ==
  /\ at = "search"
  /\ vSeeds' \in Hits(request.seedK)
  /\ at' = IF request.vectorOnly THEN "fuse" ELSE "text"
  /\ UNCHANGED <<request, rows, fSeeds, bSeeds, seeds, ppr, topIDs, anchors, scored, ranked, reindexes>>

SearchByText ==
  /\ at = "text"
  /\ fSeeds' \in Hits(request.seedK)
  /\ at' = "body"
  /\ UNCHANGED <<request, rows, vSeeds, bSeeds, seeds, ppr, topIDs, anchors, scored, ranked, reindexes>>

SearchByBodyText ==
  /\ at = "body"
  /\ bSeeds' \in Hits(request.seedK)
  /\ at' = "fuse"
  /\ UNCHANGED <<request, rows, vSeeds, fSeeds, seeds, ppr, topIDs, anchors, scored, ranked, reindexes>>

\* The sum of 1 / (rrfK + rank) over the channels that found i, over a common
\* denominator.
Common == ProductSet({RRFK + n : n \in 1 .. request.seedK})
Vote(hits, i) == IF i \in ToSet(hits) THEN Common \div (RRFK + Place(hits, i)) ELSE 0
RRF(i) == Vote(vSeeds, i) + Vote(fSeeds, i) + Vote(bSeeds, i)

FuseChannels ==
  /\ at = "fuse"
  /\ seeds' = IF request.vectorOnly THEN vSeeds
              ELSE Upto(SetToSortSeq(ToSet(vSeeds) \union ToSet(fSeeds) \union ToSet(bSeeds),
                                     LAMBDA x, y : RRF(x) > RRF(y) \/ (RRF(x) = RRF(y) /\ x < y)),
                        request.seedK)
  /\ at' = "graph"
  /\ UNCHANGED <<request, rows, vSeeds, fSeeds, bSeeds, ppr, topIDs, anchors, scored, ranked, reindexes>>

-----------------------------------------------------------------------------
(* The pool.                                                               *)

\* The place of i among the seeds; those that are none share the last.
SeedPlace(i) == IF i \in ToSet(seeds) THEN Place(seeds, i) ELSE Len(seeds) + 1

\* The sequences of what p holds.
Orders(p) == {[i \in DOMAIN p |-> f[p[i]]] : f \in Permutations(ToSet(p))}

\* The orders alpha * seed + (1 - alpha) * PageRank can put the nodes of p in:
\* by one of the two where alpha is 1 or 0, else any that agrees with both
\* wherever they agree.
FusedOrders(p) ==
  CASE request.alpha = "graph" -> {p}
    [] request.alpha = "seeds" ->
         {SetToSortSeq(ToSet(p), LAMBDA x, y : SeedPlace(x) < SeedPlace(y) \/ (SeedPlace(x) = SeedPlace(y) /\ x < y))}
    [] OTHER -> LET agreed == {e \in ToSet(p) \X ToSet(p) : SeedPlace(e[1]) <= SeedPlace(e[2]) /\ Precedes(p, e[1], e[2])}
                IN {o \in Orders(p) : \A e \in agreed : Precedes(o, e[1], e[2])}

Limit(p) == Min({Len(p), IF request.reranker THEN Max({request.maxResults, request.rerankK})
                                             ELSE request.maxResults})

\* s and then what of t it lacks.
Join(s, t) == s \o SelectSeq(t, LAMBDA x : x \notin ToSet(s))

\* overlapRatio(query, name) >= 0.25.
Alike(i) == \E s \in Catalog : s.id = i /\ s.alike

\* Mutant: the pool is cut back to its limit.
appendTopVectorSeedsCut(pool, limit) == Upto(Join(pool, Upto(vSeeds, VectorProtect)), limit)

appendMissingTopVectorSeeds(pool, limit) ==
  Join(pool, Upto(vSeeds, Min({limit, VectorProtect}))
             \o SelectSeq(SubSeq(vSeeds, VectorProtect + 1, Min({limit, Len(vSeeds)})), Alike))

protectTopVectorSeeds(pool) ==
  IF pool = <<>> \/ vSeeds = <<>> THEN pool
  ELSE Upto(Join(<<vSeeds[1]>>, pool), Max({2, Len(pool)}))

ProtectSeeds(pool, limit) ==
  IF request.alpha # "adaptive" THEN pool
  ELSE IF request.reranker THEN appendMissingTopVectorSeeds(pool, limit)
  ELSE protectTopVectorSeeds(pool)

\* How often the pool's symbols reach i: once for each call, either way.
NeighborHits(pool, p, i) ==
  Cardinality({e \in Edges : i \in {e[1], e[2]} /\ {e[1], e[2]} \subseteq ToSet(p)
                             /\ ({e[1], e[2]} \ {i}) \intersect ToSet(pool) # {}})

\* appendVectorSeedGraphNeighbors, whose anchors are the pool itself.
Neighbors(pool, p) ==
  LET hits(i) == NeighborHits(pool, p, i)
      reached == {i \in ToSet(p) \ ToSet(pool) : hits(i) >= Max({1, AnchorAgreement})}
  IN Upto(SetToSortSeq(reached, LAMBDA x, y : hits(x) > hits(y) \/ (hits(x) = hits(y) /\ Precedes(p, x, y))),
          request.anchorExpand)

appendMissingTopPPR(pool, p) == pool \o Upto(SelectSeq(p, LAMBDA i : i \notin ToSet(pool)), PPRProtect)

FuseSeedAndPPR ==
  /\ at = "graph"
  /\ \E r \in Rankings :
       LET p == Among(r, RowIds) IN
       /\ ppr' = p
       /\ \E o \in FusedOrders(p) :
            LET protected == ProtectSeeds(Upto(o, Limit(p)), Limit(p))
                added == Neighbors(protected, p)
            IN topIDs' = appendMissingTopPPR(protected \o added, p) /\ anchors' = ToSet(added)
  /\ at' = "hydrate"
  /\ UNCHANGED <<request, rows, vSeeds, fSeeds, bSeeds, seeds, scored, ranked, reindexes>>

\* GetSymbolsByIDs, in the pool's order: what is gone or trivial drops out, and
\* what was only needed to form the pool is forgotten.
Hydrate ==
  /\ at = "hydrate"
  /\ LET kept == SelectSeq(topIDs, LAMBDA i : i \in RowIds /\ (request.includeTrivial \/ ~Row(i).trivial))
     IN scored' = [n \in DOMAIN kept |-> Row(kept[n])]
  /\ at' = "rank"
  /\ vSeeds' = <<>> /\ fSeeds' = <<>> /\ bSeeds' = <<>> /\ seeds' = <<>> /\ ppr' = <<>> /\ topIDs' = <<>>
  /\ UNCHANGED <<request, rows, anchors, ranked, reindexes>>

-----------------------------------------------------------------------------
(* The order, and the rules of the cut.                                    *)

ByRanking(s, r) ==
  LET ids == Among(r, ToSet(IdsOf(s))) IN [n \in DOMAIN ids |-> s[Place(IdsOf(s), ids[n])]]

\* The cross-encoder reorders the pool unless it is skipped, fails or is not
\* there; the intent rules then reorder the first IntentWindow.
RerankAndRank ==
  /\ at = "rank"
  /\ \E base \in {scored} \union (IF request.reranker THEN {ByRanking(scored, r) : r \in Rankings} ELSE {}) :
       \E window \in {Upto(base, IntentWindow)} \union {ByRanking(Upto(base, IntentWindow), r) : r \in Rankings} :
         scored' = window \o SubSeq(base, IntentWindow + 1, Len(base))
  /\ ranked' = scored'
  /\ at' = "anchors"
  /\ UNCHANGED <<request, rows, vSeeds, fSeeds, bSeeds, seeds, ppr, topIDs, anchors, reindexes>>

AnchorSlots == Max({1, request.maxResults \div AnchorShare})

\* s with the anchors of tail that open a file not yet in it, up to n symbols.
AddAnchors(s, tail, n) ==
  FoldLeft(LAMBDA head, x : IF Len(head) < n /\ x.id \in anchors /\ x.file \notin FilesOf(head)
                               /\ x.id \notin ToSet(IdsOf(head))
                            THEN Append(head, x) ELSE head, s, tail)

reserveAnchorSlots(s) ==
  LET M == request.maxResults
      promoted == Cardinality({i \in 1 .. Min({M, Len(s)}) : s[i].id \in anchors})
      keep == M - (AnchorSlots - promoted)
      head == AddAnchors(Upto(s, keep), SubSeq(s, keep + 1, Len(s)), M)
      fill == SelectSeq(s, LAMBDA x : x.id \notin ToSet(IdsOf(head)))
  IN IF Len(s) <= M \/ promoted >= AnchorSlots THEN s ELSE Upto(head \o fill, M)

FillAnchors ==
  /\ at = "anchors"
  /\ scored' = IF request.anchorExpand > 0 /\ anchors # {} THEN reserveAnchorSlots(scored) ELSE scored
  /\ at' = "literals" /\ anchors' = {}
  /\ UNCHANGED <<request, rows, vSeeds, fSeeds, bSeeds, seeds, ppr, topIDs, ranked, reindexes>>

\* The first of every file.
OnePerFile(s) == FoldLeft(LAMBDA got, x : IF x.file \in FilesOf(got) THEN got ELSE Append(got, x), <<>>, s)

\* What literalCandidates may find, best first: one symbol of a file.
LiteralCandidates ==
  {<<>>} \union
  {OnePerFile(SelectSeq([n \in DOMAIN r |-> IF r[n] \in RowIds THEN Row(r[n]) ELSE [file |-> "none"]],
                        LAMBDA x : x \in rows /\ x.file \in F)) :
     r \in Rankings, F \in SUBSET {s.file : s \in rows}}

reserveLiteralSlots(s, cands) ==
  LET slots == Min({request.literalSlots, request.maxResults - 1})
      head == Upto(s, request.maxResults - slots)
      promoted == Upto(SelectSeq(cands, LAMBDA c : c.id \notin ToSet(IdsOf(head)) /\ c.file \notin FilesOf(head)), slots)
      tail == SubSeq(s, Len(head) + 1, Len(s))
  IN IF slots = 0 \/ promoted = <<>> THEN s
     ELSE head \o promoted \o SelectSeq(tail, LAMBDA x : x.id \notin ToSet(IdsOf(head)))

FillLiterals ==
  /\ at = "literals"
  /\ IF request.literalSlots = 0 THEN scored' = scored
     ELSE \E cands \in LiteralCandidates : scored' = reserveLiteralSlots(scored, cands)
  /\ at' = "cut"
  /\ UNCHANGED <<request, rows, vSeeds, fSeeds, bSeeds, seeds, ppr, topIDs, anchors, ranked, reindexes>>

TestFloor ==
  IF request.testFloor # 0 THEN Max({request.testFloor, 0})
  ELSE IF request.maxResults <= 3 THEN 0 ELSE request.maxResults \div 4

\* The places of the first n symbols of s that are of no test.
FloorPlaces(s, n) ==
  {i \in DOMAIN s : s[i].file \notin TestFiles
                    /\ Cardinality({j \in 1 .. i : s[j].file \notin TestFiles}) <= n}

\* Mutant: behind the floor the tests come first.
applyTestFloorTestsNext(s, n) ==
  LET head == FloorPlaces(s, n)
      tests == {i \in DOMAIN s : s[i].file \in TestFiles}
  IN At(s, head) \o At(s, tests) \o At(s, DOMAIN s \ (head \union tests))

applyTestFloor(s, n) ==
  LET head == FloorPlaces(s, n) IN At(s, head) \o At(s, DOMAIN s \ head)

Cut ==
  /\ at = "cut"
  /\ scored' = Upto(applyTestFloor(scored, TestFloor), request.maxResults)
  /\ at' = "answered"
  /\ UNCHANGED <<request, rows, vSeeds, fSeeds, bSeeds, seeds, ppr, topIDs, anchors, ranked, reindexes>>

-----------------------------------------------------------------------------
(* Failure and the watcher.                                                *)

\* A call to the store fails, and with it the request; or a query that only
\* the vectors could answer cannot be embedded.
StoreFails ==
  /\ at \in {"search", "text", "body", "graph", "hydrate"}
  /\ at' = "failed"
  /\ UNCHANGED <<request, rows, vSeeds, fSeeds, bSeeds, seeds, ppr, topIDs, anchors, scored, ranked, reindexes>>

\* A pass removes a symbol or puts another one on its id.
Reindex ==
  /\ at \notin {"answered", "failed"} /\ reindexes < Reindexes
  /\ \E i \in RowIds :
       rows' \in {rows \ {Row(i)}} \union {(rows \ {Row(i)}) \union {s} : s \in {c \in Catalog \ rows : c.id = i}}
  /\ reindexes' = reindexes + 1
  /\ UNCHANGED <<at, request, vSeeds, fSeeds, bSeeds, seeds, ppr, topIDs, anchors, scored, ranked>>

Next ==
  \/ SearchByVectorScored \/ SearchByText \/ SearchByBodyText \/ FuseChannels \/ FuseSeedAndPPR \/ Hydrate
  \/ RerankAndRank \/ FillAnchors \/ FillLiterals \/ Cut
  \/ StoreFails \/ Reindex

Spec == Init /\ [][Next]_vars
-----------------------------------------------------------------------------
(* Properties.                                                             *)

Test(s) == s.file \in TestFiles

\* What search is surest of reaches the reranker however the scores were
\* combined (fusion.go: "strong PPR candidates always reach the reranker
\* pool"): the first symbols by PageRank, and, unless the caller set alpha, the
\* first vector hits, or with no reranker the best of them at the top.
StrongReachReranker ==
  at = "hydrate" =>
    /\ ToSet(Upto(ppr, PPRProtect)) \subseteq ToSet(topIDs)
    /\ IsInjective(topIDs)
    /\ request.alpha = "adaptive" /\ ppr # <<>> /\ vSeeds # <<>> =>
         IF request.reranker THEN ToSet(Upto(vSeeds, Min({Limit(ppr), VectorProtect}))) \subseteq ToSet(topIDs)
                             ELSE topIDs[1] = vSeeds[1]

\* The fused seeds never contradict all channels: what every channel that
\* found y puts before y is a seed, and before y, when y is.
AgreedFirst ==
  at = "graph" /\ ~request.vectorOnly =>
    \A y \in ToSet(seeds), x \in Ids :
      (\A h \in {vSeeds, fSeeds, bSeeds} : y \in ToSet(h) => Precedes(h, x, y)) => Precedes(seeds, x, y)

\* What the rankers put first is answered: behind the slots that anchors and
\* literals may take, no symbol that is of no test is displaced by the three
\* rules that follow (the harm testfloor.go names: "pushing implementation
\* files off the end").
FirstStay ==
  at = "answered" =>
    LET taken == Max({IF request.anchorExpand > 0 THEN AnchorSlots ELSE 0,
                      Min({request.literalSlots, request.maxResults - 1})})
    IN \A i \in 1 .. Min({request.maxResults - taken, Len(ranked)}) :
         Test(ranked[i]) \/ ranked[i] \in ToSet(scored)

\* An answer is as long as max_results and the pool allow and, as long as no
\* literals are asked for, names no symbol twice: no rule loses or repeats one
\* ("Nothing is dropped").
AnswerFull ==
  at = "answered" =>
    /\ Len(scored) >= Min({request.maxResults, Len(ranked)}) /\ Len(scored) <= request.maxResults
    /\ request.literalSlots = 0 => IsInjective(IdsOf(scored)) /\ ToSet(scored) \subseteq ToSet(ranked)

\* A symbol overtakes a better ranked one for an anchor slot only if it is an
\* anchor, and opens a file nothing before it is in ("a neighbour in a file
\* that is already represented widens nothing").
AnchorsOpenFiles ==
  [][at = "anchors" /\ at' = "literals" =>
       \A i \in DOMAIN scored' :
         (\E y \in ToSet(scored) \ ToSet(Upto(scored', i)) : Precedes(scored, y, scored'[i])) =>
           scored'[i].id \in anchors /\ \A k \in 1 .. i - 1 : scored'[k].file # scored'[i].file]_vars

\* A test holds one of the first places the floor reserves only when all that
\* is no test is before it, and tests apart, the floor changes no order ("this
\* never invents a ranking of its own").
FloorInOrder ==
  [][at = "cut" /\ at' = "answered" =>
       /\ \A i \in 1 .. Min({TestFloor, Len(scored')}) : Test(scored'[i]) =>
            \A j \in DOMAIN scored : Test(scored[j]) \/ scored[j] \in ToSet(Upto(scored', i))
       /\ IsPrefix(SelectSeq(scored', LAMBDA x : ~Test(x)), SelectSeq(scored, LAMBDA x : ~Test(x)))]_vars

-----------------------------------------------------------------------------
(* What the code's comments say and the code does not do.                  *)

\* literal.go:207: the slots go to candidates "the ranking did not already
\* reach", so no symbol is answered twice.
NoSymbolTwice == at = "answered" => IsInjective(IdsOf(scored))

\* testfloor.go:21,35: only "a floor at or above max_results does change
\* membership"; a lower one answers the symbols the cut would have kept.
FloorKeepsMembers ==
  [][at = "cut" /\ at' = "answered" /\ TestFloor < request.maxResults =>
       ToSet(scored') = ToSet(Upto(scored, request.maxResults))]_vars

=============================================================================
