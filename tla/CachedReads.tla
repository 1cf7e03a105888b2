---------------------------- MODULE CachedReads ----------------------------
(***************************************************************************)
(* What a cache in front of tables that change promises its readers        *)
(* (store/sqlite/veccache.go, graphcache.go): a reader may be answered     *)
(* from memory, but with what a table held at some time since the last     *)
(* mutation that had returned when the reader began.                       *)
(*                                                                         *)
(* VecCache and GraphCache are shown to implement it.                      *)
(***************************************************************************)
EXTENDS Integers

CONSTANTS Readers, Tables

VARIABLES
  version,   \* version[t]: how often what t holds has changed
  returned,  \* the versions when a mutator last returned
  floor,     \* floor[r]: returned when r began
  got        \* got[r]: what r was given of each table, or Unread; or NotReading

vars == <<version, returned, floor, got>>

Unread == -1
NotReading == [t \in Tables |-> -2]
None == [t \in Tables |-> 0]

Init ==
  /\ version = None /\ returned = None
  /\ floor = [r \in Readers |-> None] /\ got = [r \in Readers |-> NotReading]

\* A mutation commits, of one or several tables.
Commit ==
  /\ \E ts \in SUBSET Tables :
       version' = [t \in Tables |-> IF t \in ts THEN version[t] + 1 ELSE version[t]]
  /\ UNCHANGED <<returned, floor, got>>

\* What was committed is promised to whoever begins from now on.
Return ==
  /\ returned' = version
  /\ UNCHANGED <<version, floor, got>>

Begin(r) ==
  /\ got[r] = NotReading
  /\ got' = [got EXCEPT ![r] = [t \in Tables |-> Unread]]
  /\ floor' = [floor EXCEPT ![r] = returned]
  /\ UNCHANGED <<version, returned>>

Read(r) ==
  /\ \E t \in Tables :
       /\ got[r][t] = Unread
       /\ \E v \in floor[r][t] .. version[t] : got' = [got EXCEPT ![r][t] = v]
  /\ UNCHANGED <<version, returned, floor>>

End(r) ==
  /\ got' = [got EXCEPT ![r] = NotReading]
  /\ UNCHANGED <<version, returned, floor>>

\* The process dies, and whoever was reading with it.
Restart ==
  /\ got' = [r \in Readers |-> NotReading]
  /\ UNCHANGED <<version, returned, floor>>

Next == Commit \/ Return \/ Restart \/ \E r \in Readers : Begin(r) \/ Read(r) \/ End(r)

Spec == Init /\ [][Next]_vars
=============================================================================
