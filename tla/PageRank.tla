------------------------------ MODULE PageRank ------------------------------
(***************************************************************************)
(* The personalized PageRank that spreads the weight of the seeds over the *)
(* call graph (retrieve/pagerank.go): in each iteration every symbol hands *)
(* its rank to its neighbours, callers and callees alike, and a share of   *)
(* it goes back to the seeds.                                              *)
(*                                                                         *)
(* Nodes are 1 .. n, edges a sequence of pairs.  The ranks of one          *)
(* iteration are integers over a common denominator, exact where the code  *)
(* has float32; the early end at a difference below 1e-6 is left out.      *)
(***************************************************************************)
EXTENDS Integers, Sequences, SequencesExt, FiniteSets, FiniteSetsExt

CONSTANTS DampingNum, DampingDen  \* damping

PageRankAssumption == DampingDen \in Nat \ {0} /\ DampingNum \in 0 .. DampingDen

\* Both ends of an edge are neighbours of each other, once per edge; edges
\* with an end that is no symbol are left out.
BuildGraph(n, edges) ==
  LET Ends(i, e) == IF ~({e[1], e[2]} \subseteq 1 .. n) THEN <<>>
                    ELSE (IF i = e[1] THEN <<e[2]>> ELSE <<>>) \o (IF i = e[2] THEN <<e[1]>> ELSE <<>>)
  IN [i \in 1 .. n |-> FlattenSeq([k \in DOMAIN edges |-> Ends(i, edges[k])])]

Total(f) == MapThenSumSet(LAMBDA i : f[i], DOMAIN f)

\* The seeds among the symbols, as shares of their sum; all alike without any.
Seeds(n, weights) ==
  LET p == [i \in 1 .. n |-> IF i \in DOMAIN weights THEN weights[i] ELSE 0]
  IN IF Total(p) > 0 THEN p ELSE [i \in 1 .. n |-> 1]

\* A common multiple of the numbers of neighbours.
Multiple(out) == FoldLeft(LAMBDA m, i : IF Len(out[i]) = 0 \/ m % Len(out[i]) = 0 THEN m ELSE m * Len(out[i]),
                          1, [i \in DOMAIN out |-> i])

\* One iteration.  What symbols without a neighbour hold (danglingMass) goes
\* back to the seeds, divided by the number of symbols.
Iterate(out, p, rank) ==
  LET n == Len(out)
      m == Multiple(out)
      sum == Total(p)
      danglingMass == Total([i \in {k \in 1 .. n : out[k] = <<>>} |-> rank.r[i]])
      Received(i) == MapThenSumSet(LAMBDA k : (rank.r[k] * (m \div Max({1, Len(out[k])})))
                                              * Cardinality({e \in DOMAIN out[k] : out[k][e] = i}), 1 .. n)
  IN [r |-> [i \in 1 .. n |-> (DampingDen - DampingNum) * p[i] * rank.den * m * n
                              + DampingNum * (Received(i) * sum * n + danglingMass * m * p[i])],
      den |-> DampingDen * sum * rank.den * m * n]

PersonalizedPageRank(n, edges, weights, maxIter) ==
  LET out == BuildGraph(n, edges)
      p == Seeds(n, weights)
      rank[k \in 0 .. maxIter] == IF k = 0 THEN [r |-> p, den |-> Total(p)] ELSE Iterate(out, p, rank[k - 1])
  IN rank[maxIter]

-----------------------------------------------------------------------------
(* What is promised.                                                       *)

Linked(edges, a, b) == \E k \in DOMAIN edges : {edges[k][1], edges[k][2]} = {a, b}

\* Not kept: "scores sum ~ 1.0" (pagerank.go).
ScoresSumToOne(n, edges, weights, maxIter) ==
  LET rank == PersonalizedPageRank(n, edges, weights, maxIter) IN Total(rank.r) = rank.den

\* It holds when every symbol that holds weight has a neighbour.
MassKept(n, edges, weights, maxIter) ==
  (\A i \in 1 .. n : Seeds(n, weights)[i] > 0 => \E j \in 1 .. n : Linked(edges, i, j))
    => ScoresSumToOne(n, edges, weights, maxIter)

\* What is one call away from a seed is ranked, whichever of them calls, and
\* what no calls lead to is not.
BothWays(n, edges, weights, maxIter) ==
  LET rank == PersonalizedPageRank(n, edges, weights, maxIter)
      p == Seeds(n, weights)
      near[k \in 0 .. maxIter] ==
        IF k = 0 THEN {i \in 1 .. n : p[i] > 0}
        ELSE near[k - 1] \union {i \in 1 .. n : \E j \in near[k - 1] : Linked(edges, i, j)}
  IN {i \in 1 .. n : rank.r[i] > 0} = near[maxIter]
=============================================================================
