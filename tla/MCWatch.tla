------------------------------ MODULE MCWatch ------------------------------
(* Instances of Watch for TLC. *)
EXTENDS Watch, TLC

\* Every file sits in the root.
FlatDirOf == [f \in Files |-> Root]

\* Every file sits in a directory made while the server runs.
NewDirOf == [f \in Files |-> CHOOSE d \in SubDirs : TRUE]

CONSTANTS top, nested

\* One file in the root, one in a new directory.
MixedDirOf == (top :> Root) @@ (nested :> CHOOSE d \in SubDirs : TRUE)
=============================================================================
