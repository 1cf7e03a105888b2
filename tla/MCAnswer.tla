------------------------------ MODULE MCAnswer ------------------------------
(* Instances of Answer: a symbol that fits, a long one, two capped ones,   *)
(* with and without the whole body beside them, and one of few long lines. *)
EXTENDS Answer, TLC
Fits == Row("fits", 10, 2, 9, TRUE, FALSE, 0)
Tall == Row("tall", 20, 13, 99, TRUE, TRUE, 0)
Capped == Row("capped", 40, 12, 5, TRUE, TRUE, 0)
Legacy == Row("legacy", 60, 12, 6, FALSE, FALSE, 0)
Wide == Row("wide", 80, 3, 1, TRUE, TRUE, 0)
Dotted == Row("dotted", 90, 3, 9, TRUE, FALSE, 2)
MCShapes == {Fits, Tall, Capped, Legacy, Wide}
Renamed == Permutations(Ids)
DotShapes == {Fits, Dotted}
=============================================================================
