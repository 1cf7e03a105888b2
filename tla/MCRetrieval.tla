---------------------------- MODULE MCRetrieval ----------------------------
(***************************************************************************)
(* A request for context: how its results are chosen (Ranking), and how    *)
(* those that were chosen are shown (Answer), one or the other looked at.  *)
(***************************************************************************)
EXTENDS MCRanking, TLC

CONSTANTS Stages, Shown, Budgets, FullBodies, CompactAfter, MaxBodyLines, WindowLines, WindowStride,
          ContextLines, MaxWindows, WindowsPerResult, Calls, Changes

VARIABLES
  stage,  \* the one looked at
  store, answerAt, preserve, next, results, expansion, calls, changes

answerVars == <<store, answerAt, preserve, next, results, expansion, calls, changes>>

\* The rows MCAnswer defines, and the component on them.
OfAnswer == INSTANCE MCAnswer WITH Ids <- Shown, Shapes <- {}, at <- answerAt
Shapes == OfAnswer!MCShapes
A == INSTANCE Answer WITH Ids <- Shown, at <- answerAt

ASSUME AnswerGiven == A!AnswerAssumption

\* Of the stage not looked at only one initial state is taken.
MCInit ==
  /\ stage \in Stages
  /\ Init /\ (stage # "ranking" => rows = CHOOSE R \in SUBSET Catalog : {s.id : s \in R} = Ids /\ Cardinality(R) = Cardinality(Ids))
  /\ stage # "ranking" => request = CHOOSE q \in Requests : TRUE
  /\ A!Init /\ (stage # "answer" => store = CHOOSE f \in [Shown -> Shapes] : \A i, j \in Shown : i # j => f[i] # f[j])

MCNext ==
  \/ stage = "ranking" /\ Next /\ UNCHANGED <<stage, answerVars>>
  \/ stage = "answer" /\ A!Next /\ UNCHANGED <<stage, vars>>

MCSpec == MCInit /\ [][MCNext]_<<stage, vars, answerVars>>

Renamed == Permutations(Shown)

-----------------------------------------------------------------------------
\* appendMissingTopVectorSeeds, fusion: what the vectors or the graph are surest
\* of reaches the reranker, and no symbol that a channel ranks lower
\* everywhere overtakes one.
PoolRight == StrongReachReranker /\ AgreedFirst

\* reserveAnchorSlots, the literals, applyTestFloor: together the rules of the
\* cut displace nothing the rankers put first, lose and repeat no result, open
\* new files with anchors only, and reorder none but tests.
CutRight == [](FirstStay /\ AnswerFull) /\ AnchorsOpenFiles /\ FloorInOrder

\* numberBody, mergeSpans, visibleLineCount: a line is printed under its own
\* number, over every gap of a trimmed body, and what is said to be visible is
\* what is printed ("a confident, wrong number is worse than none").
LinesTrue == A!NumberedTrue /\ A!ClaimsShown

\* pack, attachEvidence: whatever fails on the way, a body longer than its cap
\* is shown through windows ("it fails closed onto the capped excerpt"), and
\* the rank an agent reads is the one expand_context takes.
ShownWithinCap == A!FailsClosed /\ A!RankExpands
=============================================================================
