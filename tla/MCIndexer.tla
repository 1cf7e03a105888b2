----------------------------- MODULE MCIndexer -----------------------------
(* Instances of Indexer for TLC: one of the files a, y, z calls g, which    *)
(* another one defines.                                                    *)
EXTENDS Indexer, TLC

CONSTANTS a, y, z, Absent, caller, caller2, caller3, callee, callee2, callee3, other, twice, both

AllFiles == <<a, y, z>>
AllContents == {caller, caller2, caller3, callee, callee2, callee3, other, twice, both}

\* callee2 has another symbol before g, so that g gets another id; it calls g
\* itself.  callee3 is callee in other words.  other defines neither f nor g.
TheDefs == (caller :> <<"f">>) @@ (caller2 :> <<"h", "f">>) @@ (callee :> <<"g">>)
             @@ (callee2 :> <<"h", "g">>) @@ (other :> <<"h">>)
             @@ (caller3 :> <<"h">>) @@ (callee3 :> <<"g">>)
             @@ (twice :> <<"f", "k", "k">>) @@ (both :> <<"m">>)
TheCalls == (caller :> {<<1, "g">>}) @@ (caller2 :> {<<2, "g">>}) @@ (callee :> {})
              @@ (callee2 :> {<<1, "g">>}) @@ (other :> {})
              @@ (caller3 :> {<<1, "g">>}) @@ (callee3 :> {})
              @@ (twice :> {<<1, "g">>}) @@ (both :> {<<1, "g">>, <<1, "k">>})

History(ofA, ofY, ofZ) == (a :> ofA) @@ (y :> ofY) @@ (z :> ofZ)

\* The callee edited, and removed; caller and a third file edited meanwhile.
Edits == {History(<<caller, caller2>>, <<Absent, other>>, <<callee, callee2, other>>),
          History(<<caller>>, <<other, callee>>, <<callee, Absent>>),
          History(<<caller>>, <<Absent>>, <<other, callee, callee2>>),
          History(<<callee2, other>>, <<Absent>>, <<caller, caller2>>)}

\* The file of g renamed.
Rename == {History(<<caller>>, <<Absent, callee>>, <<callee, Absent>>)}

\* The caller edited, and edited back.
Back == {History(<<caller, caller2, caller>>, <<Absent>>, <<callee>>)}

\* The caller renamed to what another file defines, while the callee is edited.
Foreign == {History(<<caller, caller3>>, <<other>>, <<callee, callee3>>)}

\* One of two callers has a name twice that the other one calls.
Overloaded == {History(<<twice>>, <<both>>, <<callee, callee3>>)}

\* The callee edited once.
OneEdit == {History(<<caller>>, <<Absent>>, <<callee, callee2>>)}

AtRisk == {"read", "names", "callers", "savefile", "symbols",
           "embedder", "embed", "edges", "deletefile", "version"}
=============================================================================
