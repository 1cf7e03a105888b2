------------------------------- MODULE Chunks -------------------------------
(***************************************************************************)
(* The windows of a long body that are embedded on their own               *)
(* (index/chunk.go): chunkLines lines each, the last chunkOverlap of them  *)
(* again in the next, at most chunkMaxPerSymbol, empty ones left out, and  *)
(* each cut to chunkMaxBytes.  A body is the sequence of the lengths of    *)
(* its lines; those of length 0 are blank, and the others have no white    *)
(* space at their ends.                                                    *)
(***************************************************************************)
EXTENDS Integers, Sequences, SequencesExt, FiniteSets, FiniteSetsExt

CONSTANTS chunkLines, chunkOverlap, chunkMaxPerSymbol, chunkMaxBytes

ChunksAssumption ==
  /\ chunkLines \in Nat /\ chunkOverlap \in 0 .. chunkLines - 1
  /\ {chunkMaxPerSymbol, chunkMaxBytes} \subseteq Nat \ {0}

stride == chunkLines - chunkOverlap

\* The windows in order, up to the one that reaches the end of the body.
Windows(n) ==
  LET last == Min({k \in 1 .. n : (k - 1) * stride + chunkLines >= n})
  IN [k \in 1 .. last |-> <<(k - 1) * stride + 1, Min({(k - 1) * stride + chunkLines, n})>>]

\* The lines from..to, joined by line breaks.
Bytes(lines, from, to) == MapThenSumSet(LAMBDA i : lines[i], from .. to) + to - from

Said(lines, w) == {i \in w[1] .. w[2] : lines[i] > 0}

\* The lines of window w that are in its text whole, once the blank lines around
\* it are trimmed and it is cut (truncateField).
Cut(lines, w) ==
  LET first == Min(Said(lines, w))
      whole == {i \in first .. w[2] : Bytes(lines, first, i) <= chunkMaxBytes}
  IN <<w[1], Max(whole \union {first - 1})>>

ChunkSymbol(lines) ==
  IF Len(lines) < 2 THEN <<>>
  ELSE LET full == SelectSeq(Windows(Len(lines)), LAMBDA w : Said(lines, w) # {})
       IN [k \in 1 .. Min({chunkMaxPerSymbol, Len(full)}) |-> Cut(lines, full[k])]

-----------------------------------------------------------------------------
\* Statements no longer than the overlap, up to the last window when there are
\* as many windows as there may be.
Statements(lines) ==
  LET full == SelectSeq(Windows(Len(lines)), LAMBDA w : Said(lines, w) # {})
      end == IF Len(full) >= chunkMaxPerSymbol THEN full[chunkMaxPerSymbol][2] ELSE Len(lines)
  IN {s \in (1 .. end) \X (1 .. end) : /\ s[1] <= s[2] /\ s[2] - s[1] < Max({chunkOverlap, 1})
                                       /\ Said(lines, s) = s[1] .. s[2]}

InOneChunk(lines, s) ==
  \E k \in DOMAIN ChunkSymbol(lines) : ChunkSymbol(lines)[k][1] <= s[1] /\ s[2] <= ChunkSymbol(lines)[k][2]

\* Every line of a body that says something is in a chunk, and a statement that
\* is no longer than the overlap is whole in one of them, where the chunkLines
\* lines that end with it are no more than chunkMaxBytes.
WholeInOne(lines) ==
  Len(lines) >= 2 =>
    \A s \in Statements(lines) :
      Bytes(lines, Max({1, s[2] - chunkLines + 1}), s[2]) <= chunkMaxBytes => InOneChunk(lines, s)

\* Not kept: chunkOverlap "keeps a statement that straddles a boundary whole in
\* one of the two chunks", however long the lines are.
WideWholeToo(lines) == Len(lines) >= 2 => \A s \in Statements(lines) : InOneChunk(lines, s)
=============================================================================
