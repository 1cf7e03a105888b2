------------------------------ MODULE Related ------------------------------
(***************************************************************************)
(* Where else do the names of an edit live (retrieve/related.go).  Every   *)
(* name of the edit is looked up in the bodies; the fewer symbols match,   *)
(* the more each match says, and a name that matches as many as are asked  *)
(* for says nothing.  Files are ordered by what their matches add up to,   *)
(* tests behind the others, those already edited left out.                 *)
(*                                                                         *)
(* A name's hits are the files of the matching symbols, one entry each.    *)
(* Scores are in units of 1 / Unit, so that 1 / n is exact for every n     *)
(* below the cap.                                                          *)
(***************************************************************************)
EXTENDS Integers, Sequences, SequencesExt, FiniteSets, FiniteSetsExt

CONSTANTS
  ProbeK,  \* relatedProbeK: as many symbols are asked for
  Unit     \* a common multiple of 1 .. ProbeK - 1

RelatedAssumption == ProbeK \in Nat \ {0} /\ \A n \in 1 .. ProbeK - 1 : Unit % n = 0

-----------------------------------------------------------------------------
(* The names of an edit: a blob is a sequence of lines, each a mark        *)
(* ("+", "-", "head" for "+++" and "---", "git", "" for others), a token.  *)

\* One changed line, but for the first, makes a diff of all that was sent.
looksLikeDiff(blobs) ==
  \E b \in DOMAIN blobs : \E i \in DOMAIN blobs[b] :
    IF i = 1 THEN blobs[b][i].mark = "git" ELSE blobs[b][i].mark \in {"+", "-", "head"}

\* Context lines and headers are dropped; each token counts once.
extractRelatedNames(blobs) ==
  {line.token : line \in {l \in UNION {ToSet(blobs[b]) : b \in DOMAIN blobs} :
                            looksLikeDiff(blobs) => l.mark \in {"+", "-"}}}

-----------------------------------------------------------------------------
(* FindRelatedEdits: hits[name] is a sequence of files.                    *)

\* As many as are asked for, or none: no evidence.
Telling(found) == Len(found) > 0 /\ Len(found) < ProbeK

weight(found) == Unit \div Len(found)

\* What the store gives for a name.
SearchByBodyText(hits, name) == SubSeq(hits[name], 1, Min({ProbeK, Len(hits[name])}))

Score(hits, names, file) ==
  LET Add(name) == LET found == SearchByBodyText(hits, name)
                   IN IF Telling(found) THEN weight(found) * Cardinality({i \in DOMAIN found : found[i] = file}) ELSE 0
  IN MapThenSumSet(Add, names)

\* Files whose row is gone have no path, and those to skip are not answered.
\* Mutant: the edited files are answered like the others.
AnswerableAny(file, paths, skip) == file \in DOMAIN paths
Answerable(file, paths, skip) == file \in DOMAIN paths /\ paths[file].path \notin skip

\* By score; tests behind, by the same order; equals by path.
Ahead(hits, names, paths, f, g) ==
  LET a == Score(hits, names, f)
      b == Score(hits, names, g)
  IN IF paths[f].test # paths[g].test THEN paths[g].test
     ELSE a > b \/ (a = b /\ paths[f].path < paths[g].path)

FindRelatedEdits(blobs, hits, paths, exclude, limit) ==
  LET names == extractRelatedNames(blobs) \intersect DOMAIN hits
      files == {f \in UNION {ToSet(hits[n]) : n \in names} :
                  Score(hits, names, f) > 0 /\ Answerable(f, paths, exclude)}
      out == SetToSortSeq(files, LAMBDA f, g : Ahead(hits, names, paths, f, g))
  IN SubSeq(out, 1, Min({limit, Len(out)}))

-----------------------------------------------------------------------------
(* What is promised of an answer.                                          *)

\* A file that is not a test is never passed over for one that has fewer or
\* commoner names of the edit, tests never come before it, and no file that
\* was edited is answered.
RarestAhead(blobs, hits, paths, exclude, limit) ==
  LET out == FindRelatedEdits(blobs, hits, paths, exclude, limit)
      names == extractRelatedNames(blobs) \intersect DOMAIN hits
      Share(f) == Score(hits, names, f)
  IN /\ \A i \in DOMAIN out : paths[out[i]].path \notin exclude /\ Share(out[i]) > 0
     /\ \A f \in DOMAIN paths : f \notin ToSet(out) /\ Share(f) > 0 /\ paths[f].path \notin exclude =>
          Len(out) = limit /\ \A i \in DOMAIN out : paths[out[i]].test \/ paths[f].test \/ Share(out[i]) >= Share(f)
     /\ \A i, j \in DOMAIN out : i < j /\ paths[out[i]].test => paths[out[j]].test

\* A file that shares only names every file has is no answer, and neither is
\* one that shares only what the diff left as it was.
CommonPointsNowhere(blobs, hits, paths, exclude, limit) ==
  LET edited == {l.token : l \in {k \in UNION {ToSet(blobs[b]) : b \in DOMAIN blobs} :
                                    looksLikeDiff(blobs) => k.mark \in {"+", "-"}}}
  IN \A f \in ToSet(FindRelatedEdits(blobs, hits, paths, exclude, limit)) :
       \E n \in edited \intersect DOMAIN hits : f \in ToSet(hits[n]) /\ Len(hits[n]) < ProbeK

\* Not kept: a list of names sent beside a diff counts (one diff makes the
\* lines of the list context, which is dropped).
EveryBlobHeard(blobs) ==
  \A b \in DOMAIN blobs : (\A i \in DOMAIN blobs[b] : blobs[b][i].mark = "") =>
    \A i \in DOMAIN blobs[b] : blobs[b][i].token \in extractRelatedNames(blobs)
=============================================================================
