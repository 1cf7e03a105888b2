------------------------------ MODULE Locator ------------------------------
(***************************************************************************)
(* A query that names a position (retrieve/locator.go) is answered by      *)
(* looking it up: "src/a.go:142" is split into a path and a line, the path *)
(* is resolved against the files of the index, and the symbols around the  *)
(* line are picked.  Anything else must fall through to the search.  Also  *)
(* here: preferNestedSymbols (retrieve/nesting.go), which is written and   *)
(* tested but not called.                                                  *)
(*                                                                         *)
(* A path is a sequence of its segments.  A query is what is before its    *)
(* first colon, whether that looks like a path, and what is before the     *)
(* second: "" when there is none, "n" for a number, "text" otherwise.      *)
(***************************************************************************)
EXTENDS Integers, Sequences, SequencesExt, FiniteSets, FiniteSetsExt

Query(path, pathlike, field, n) == [path |-> path, pathlike |-> pathlike, field |-> field, n |-> n]
NoLocator == [path |-> <<>>, line |-> -1]

\* A second field that is not a number means prose, 0 and less too.
parseLocator(q) ==
  IF ~q.pathlike \/ q.field = "text" \/ (q.field = "n" /\ q.n <= 0) THEN NoLocator
  ELSE [path |-> q.path, line |-> IF q.field = "n" THEN q.n ELSE 0]

\* The files of that very path, or else those whose path ends with it, at a
\* boundary of segments.  They are sorted, shortest first, but the one caller
\* (selectLocatorSymbols) only asks which they are: a set.
resolveLocator(loc, files) ==
  LET exact == {f \in DOMAIN files : files[f] = loc.path}
  IN IF exact # {} THEN exact ELSE {f \in DOMAIN files : IsStrictSuffix(loc.path, files[f])}

Encloses(s, line) == s.start <= line /\ line <= s.end
Extent(s) == s.end - s.start
Distance(s, line) == IF line < s.start THEN s.start - line ELSE line - s.end

Sorted(syms, Before(_, _)) ==
  SetToSortSeq(syms, LAMBDA a, b : Before(a, b) \/ (~Before(b, a) /\ a.id < b.id))
UpTo(s, n) == SubSeq(s, 1, Min({n, Len(s)}))

\* Mutant: in order of distance alone, whatever encloses the line.
selectLocatorSymbolsByDistance(syms, files, line, max) ==
  UpTo(Sorted({s \in syms : s.file \in files}, LAMBDA a, b : Distance(a, line) < Distance(b, line)), max)

\* Of a whole file the symbols in order; around a line those that enclose it,
\* innermost first, and then the nearest.
selectLocatorSymbols(syms, files, line, max) ==
  LET cands == {s \in syms : s.file \in files}
      around == {s \in cands : Encloses(s, line)}
  IN UpTo(IF line = 0
          THEN Sorted(cands, LAMBDA a, b : a.file < b.file \/ (a.file = b.file /\ a.start < b.start))
          ELSE Sorted(around, LAMBDA a, b : Extent(a) < Extent(b))
               \o Sorted(cands \ around, LAMBDA a, b : Distance(a, line) < Distance(b, line)), max)

\* What is too small to be an answer is left out then, but for what encloses
\* the line.  No answer (FALSE) is the signal to search.
NotTrivial(s, line) == ~s.micro \/ (line > 0 /\ Encloses(s, line))

locatorResults(q, syms, files, max) ==
  LET loc == parseLocator(q)
      in == resolveLocator(loc, files)
      picked == selectLocatorSymbols(syms, in, loc.line, max)
  IN IF loc = NoLocator \/ in = {} \/ picked = <<>> THEN [found |-> FALSE, list |-> <<>>]
     ELSE [found |-> TRUE, list |-> SelectSeq(picked, LAMBDA s : NotTrivial(s, loc.line))]

-----------------------------------------------------------------------------
(* What is promised of an answer a to query q.                             *)

\* Only a query that names an indexed file, and a number if anything, is
\* taken from the search.
NotHijacked(q, syms, files, a) ==
  a.found => q.pathlike /\ (q.field = "" \/ (q.field = "n" /\ q.n > 0))
             /\ \E f \in DOMAIN files : IsSuffix(q.path, files[f])

\* With an enclosing symbol the innermost one comes first, however small.
InnermostFirst(q, syms, files, a) ==
  LET in == {s \in syms : IsSuffix(q.path, files[s.file]) /\ Encloses(s, q.n)
                          /\ (files[s.file] = q.path \/ q.path \notin {files[f] : f \in DOMAIN files})}
  IN a.found /\ q.field = "n" /\ in # {} =>
       /\ a.list # <<>> /\ a.list[1] \in in
       /\ \A s \in in : Extent(a.list[1]) <= Extent(s)

\* A path in full is not answered with files it is only the end of.
ExactPathOnly(q, syms, files, a) ==
  a.found /\ (\E f \in DOMAIN files : files[f] = q.path) =>
    \A i \in DOMAIN a.list : files[a.list[i].file] = q.path

\* Not kept: a position in an indexed file never gets an empty answer (what is
\* small is left out after the list has been cut to its size).
NeverEmpty(q, syms, files, a) == a.found => a.list # <<>>

-----------------------------------------------------------------------------
(* preferNestedSymbols.                                                    *)

Inside(b, a) == a.file = b.file /\ a.start <= b.start /\ b.end <= a.end /\ Extent(a) > Extent(b)

\* For each pair in turn the ranks are swapped when the member is behind.
preferNestedSymbols(list) ==
  LET n == Len(list)
      Swap(rank, k) ==
        LET i == (k \div n) + 1
            j == (k % n) + 1
        IN IF i # j /\ Inside(list[j], list[i]) /\ rank[j] > rank[i]
           THEN [rank EXCEPT ![i] = rank[j], ![j] = rank[i]] ELSE rank
      ranks == FoldLeft(Swap, [i \in 1 .. n |-> i], [k \in 1 .. n * n |-> k - 1])
  IN [r \in 1 .. n |-> list[CHOOSE i \in 1 .. n : ranks[i] = r]]

\* Not kept: every other pair stays in its ranked order (nesting.go).
OthersStay(list) ==
  LET out == preferNestedSymbols(list)
      At(l, s) == CHOOSE i \in DOMAIN l : l[i] = s
  IN \A i, j \in DOMAIN list :
       i < j /\ ~Inside(list[j], list[i]) => At(out, list[i]) < At(out, list[j])

=============================================================================
