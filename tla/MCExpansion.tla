---------------------------- MODULE MCExpansion ----------------------------
(* Instances of Expansion for TLC. *)
EXTENDS Expansion, TLC

CONSTANTS agent, agent2

Bytes == {"plain", "newline", "lead", "tail"}

\* Every valid body of up to five bytes, of one symbol.
AllBodies == {b \in UNION {[1 .. n -> Bytes] : n \in 0 .. 5} : ValidUTF8(b)}
EveryBody == {[file |-> "a.go", name |-> "p.F", body |-> b] : b \in AllBodies}

\* Two symbols of different names, one of them in two versions.
OneName == {[file |-> "a.go", name |-> "p.F", body |-> <<"plain", "newline", "lead", "tail", "plain">>],
            [file |-> "a.go", name |-> "p.F", body |-> <<"lead", "tail", "lead", "tail", "plain", "newline", "plain">>],
            [file |-> "a.go", name |-> "p.G", body |-> <<"plain", "plain", "plain", "plain">>]}

\* main.main of two commands.
TwoFiles == {[file |-> "cmd/a/main.go", name |-> "main.main", body |-> <<"plain", "newline">>],
             [file |-> "cmd/b/main.go", name |-> "main.main", body |-> <<"plain", "plain">>]}

\* A long line in Latin-1.
Latin1 == {[file |-> "a.js", name |-> "f",
            body |-> <<"plain", "bad", "plain", "plain", "plain", "plain", "plain">>]}

-----------------------------------------------------------------------------
\* One symbol that is read by agents while it changes, or any body that does
\* not change any more.
MCInit ==
  \/ Init
  \/ /\ indexed \in EveryBody /\ reindexes = Reindexes
     /\ expansionCache = <<>> /\ continuations = [c \in {} |-> Missing] /\ order = <<>>
     /\ call = [a \in Agents |-> NoCall]

MCSpec ==
  /\ MCInit /\ [][Next]_vars
  /\ \A a \in Agents : WF_vars(CheckIdentity(a)) /\ WF_vars(Hydrate(a)) /\ WF_vars(ContinueContext(a))
=============================================================================
