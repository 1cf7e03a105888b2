------------------------------ MODULE MCStore ------------------------------
(* Instances of Store for TLC. *)
EXTENDS Store, TLC

CONSTANTS indexer, reader, reader2, backfill

Sym(n, l) == [name |-> n, text |-> n, long |-> l]

\* A file with a long symbol, one with a short one, one with both.
SomeBatches == {<<Sym("f", TRUE)>>, <<Sym("g", FALSE)>>, <<Sym("g", FALSE), Sym("f", TRUE)>>}
=============================================================================
