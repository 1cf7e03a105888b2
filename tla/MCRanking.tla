----------------------------- MODULE MCRanking -----------------------------
(* Instances of Ranking: five ids in four files, one of them a test, and   *)
(* two of which may come back as another symbol.                           *)
EXTENDS Ranking

Symbol(i, f) == [id |-> i, file |-> f, trivial |-> FALSE, alike |-> FALSE]
MCCatalog == {Symbol(1, "a"), Symbol(2, "t"), Symbol(3, "b"), [Symbol(4, "c") EXCEPT !.trivial = TRUE],
              [Symbol(5, "t") EXCEPT !.alike = TRUE], Symbol(3, "t")}
MCTests == {"t"}
MCEdges == {<<1, 4>>, <<2, 4>>, <<1, 5>>, <<5, 1>>, <<3, 5>>}
MCRankings == {<<1, 2, 3, 4, 5>>, <<5, 2, 4, 3, 1>>, <<3, 5, 1, 4, 2>>}

Plain == [seedK |-> 2, maxResults |-> 2, rerankK |-> 3, anchorExpand |-> 0, literalSlots |-> 0,
          testFloor |-> 0, alpha |-> "adaptive", vectorOnly |-> FALSE, reranker |-> TRUE,
          includeTrivial |-> TRUE]
MCRequests ==
  {[Plain EXCEPT !.seedK = 3, !.includeTrivial = FALSE, !.testFloor = 1],
   [Plain EXCEPT !.reranker = FALSE, !.maxResults = 1],
   [Plain EXCEPT !.reranker = FALSE, !.maxResults = 4],
   [Plain EXCEPT !.anchorExpand = 1, !.alpha = "seeds", !.testFloor = 3],
   [Plain EXCEPT !.literalSlots = 1, !.maxResults = 3, !.testFloor = 1],
   [Plain EXCEPT !.literalSlots = 3, !.anchorExpand = 2, !.alpha = "mixed", !.maxResults = 3],
   [Plain EXCEPT !.vectorOnly = TRUE, !.alpha = "graph", !.testFloor = -1]}
=============================================================================
