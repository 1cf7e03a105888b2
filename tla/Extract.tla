------------------------------ MODULE Extract ------------------------------
(***************************************************************************)
(* The two walks over a syntax tree (index/languages): Symbols collects    *)
(* what a file defines, Edges goes over the tree again, looks every        *)
(* caller up by its name and attributes to it the calls inside.  The two   *)
(* are written apart for each language, and a caller the second does not   *)
(* reach, or names otherwise, loses its calls without a word.              *)
(*                                                                         *)
(* A file is a sequence of nodes in the order of the source, each with its *)
(* kind, its name and the node it is in (up, 0 for the root).  Kinds:      *)
(*   "function", "class", "method", "call";                                *)
(*   "namespace": a TypeScript namespace, or the function a CommonJS or    *)
(*     AMD module is wrapped in; a scope without a symbol of its own       *)
(*     (scopeOnly) in the generic languages;                               *)
(*   "wrapper": an export or a decorator around a definition;              *)
(*   "assigned": a function assigned to a name;                            *)
(*   "block": any other statement with statements inside.                  *)
(***************************************************************************)
EXTENDS Integers, Sequences, SequencesExt, FiniteSets, FiniteSetsExt

Kind(file, i) == IF i = 0 THEN "root" ELSE file[i].kind
Up(file, i) == file[i].up

\* Whether i is somewhere inside of a.
Inside(file, i, a) ==
  LET in[k \in 0 .. Len(file)] == k # 0 /\ (file[k].up = a \/ in[file[k].up])
  IN in[i]

\* The nearest node around i that is of one of the kinds, 0 when none is.
Around(file, i, kinds) == Max({0} \union {a \in DOMAIN file : Inside(file, i, a) /\ file[a].kind \in kinds})

\* The name of the class that node is in, as far as the walk can tell.
ClassOf(file, i, kinds) == LET c == Around(file, i, kinds) IN IF c = 0 THEN <<>> ELSE <<file[c].name>>

-----------------------------------------------------------------------------
(* Python.                                                                 *)

\* Definitions in a class or at the top, decorated or not; what is in a
\* function or another statement is not looked for.
pyWalked(file) ==
  LET walked[i \in 0 .. Len(file)] ==
        i = 0 \/ (walked[Up(file, i)] /\ file[i].kind \in {"function", "class", "wrapper"}
                  /\ Kind(file, Up(file, i)) \in {"root", "class", "wrapper"})
  IN {i \in DOMAIN file : walked[i]}

pyWalkBlock(file) == {i \in pyWalked(file) : file[i].kind # "wrapper"}
pyName(file, i) ==
  IF file[i].kind = "class" THEN <<file[i].name>> ELSE Append(ClassOf(file, i, {"class"}), file[i].name)

pyExtractEdgesFromBlock(file) == {i \in pyWalked(file) : file[i].kind = "function"}

-----------------------------------------------------------------------------
(* TypeScript.                                                             *)

\* The top level, with namespaces, module wrappers and exports unwrapped, and
\* the methods of the classes there.
tsWalked(file) ==
  LET walked[i \in 0 .. Len(file)] ==
        i = 0 \/ (walked[Up(file, i)]
                  /\ CASE Kind(file, Up(file, i)) \in {"root", "namespace"} ->
                            file[i].kind \in {"function", "class", "assigned", "namespace", "wrapper"}
                       [] Kind(file, Up(file, i)) = "wrapper" -> file[i].kind \in {"function", "class", "assigned", "namespace"}
                       [] Kind(file, Up(file, i)) = "class" -> file[i].kind = "method"
                       [] OTHER -> FALSE)
  IN {i \in DOMAIN file : walked[i]}

tsWalkTopLevel(file) == {i \in tsWalked(file) : file[i].kind \in {"function", "class", "assigned", "method"}}
tsName(file, i) ==
  IF file[i].kind = "method" THEN Append(ClassOf(file, i, {"class"}), file[i].name) ELSE <<file[i].name>>

\* Functions and methods of classes, at the top or exported.
tsExtractEdgesFromBlock(file) ==
  LET Top(i) == Up(file, i) = 0 \/ (Kind(file, Up(file, i)) = "wrapper" /\ Up(file, Up(file, i)) = 0)
  IN {i \in DOMAIN file : (file[i].kind = "function" /\ Top(i))
                          \/ (file[i].kind = "method" /\ Kind(file, Up(file, i)) = "class" /\ Top(Up(file, i)))}

\* The name a caller is looked up by: the bare one first.
tsSource(file, i, names) == IF <<file[i].name>> \in names THEN <<file[i].name>> ELSE tsName(file, i)

-----------------------------------------------------------------------------
(* The generic languages.                                                  *)

Scope(file, i) ==
  LET scope[k \in 0 .. Len(file)] ==
        IF k = 0 THEN <<>>
        ELSE scope[file[k].up] \o (IF file[k].kind \in {"class", "namespace"} THEN <<file[k].name>> ELSE <<>>)
  IN scope[file[i].up]

\* Everything that has a name, wherever it is.
walk(file) == {i \in DOMAIN file : file[i].kind \in {"function", "class"}}

\* Mutant: the scopes that are no symbols are forgotten here.
ScopeOfContainers(file, i) ==
  LET scope[k \in 0 .. Len(file)] ==
        IF k = 0 THEN <<>> ELSE scope[file[k].up] \o (IF file[k].kind = "class" THEN <<file[k].name>> ELSE <<>>)
  IN scope[file[i].up]
edgeScopeContainers(file, i) == ScopeOfContainers(file, i)
edgeScope(file, i) == Scope(file, i)

\* The outermost callables: what is inside one counts as its own.
edgeWalk(file) == {i \in DOMAIN file : file[i].kind = "function" /\ Around(file, i, {"function"}) = 0}

-----------------------------------------------------------------------------
(* Both walks together.  A language has the symbols of a file, their       *)
(* names, the callers of the second walk and the names it looks them up    *)
(* by; a later symbol takes the place of an earlier one of its name.       *)

Walks(lang, file) ==
  CASE lang = "python" -> [symbols |-> pyWalkBlock(file), callers |-> pyExtractEdgesFromBlock(file)]
    [] lang = "typescript" -> [symbols |-> tsWalkTopLevel(file), callers |-> tsExtractEdgesFromBlock(file)]
    [] lang = "generic" -> [symbols |-> walk(file), callers |-> edgeWalk(file)]

QualifiedName(lang, file, i) ==
  CASE lang = "python" -> pyName(file, i)
    [] lang = "typescript" -> tsName(file, i)
    [] lang = "generic" -> Append(Scope(file, i), file[i].name)

SourceName(lang, file, i, names) ==
  CASE lang = "python" -> pyName(file, i)
    [] lang = "typescript" -> tsSource(file, i, names)
    [] lang = "generic" -> Append(edgeScope(file, i), file[i].name)

\* The pairs of a symbol and a call that is attributed to it.
Attributed(lang, file) ==
  LET symbols == Walks(lang, file).symbols
      names == {QualifiedName(lang, file, i) : i \in symbols}
      Named(qn) == Max({i \in symbols : QualifiedName(lang, file, i) = qn})
      Source(i) == SourceName(lang, file, i, names)
  IN UNION {{<<Named(Source(i)), c>> : c \in {k \in DOMAIN file : file[k].kind = "call" /\ Inside(file, k, i)}} :
            i \in {k \in Walks(lang, file).callers : Source(k) \in names}}

-----------------------------------------------------------------------------
(* What is promised.                                                       *)

NamedApart(lang, file) ==
  LET symbols == Walks(lang, file).symbols
  IN \A i, j \in symbols : QualifiedName(lang, file, i) = QualifiedName(lang, file, j) => i = j

\* A call is only ever attributed to a symbol it is written in, when no two
\* symbols of the file share a name (nor, in TypeScript, a method the bare
\* name of another symbol).
OwnCalls(lang, file) ==
  /\ NamedApart(lang, file)
  /\ lang = "typescript" => \A i, j \in Walks(lang, file).symbols :
       file[i].kind = "method" /\ file[j].kind # "method" => file[i].name # file[j].name
  => \A pair \in Attributed(lang, file) : Inside(file, pair[2], pair[1])

\* A call in a function or method that is a symbol is attributed to one; in
\* TypeScript only those outside of namespaces and module wrappers, in
\* functions that are not assigned.
NoCallLost(lang, file) ==
  \A i \in Walks(lang, file).symbols : \A c \in DOMAIN file :
    /\ file[i].kind \in {"function", "method", "assigned"} /\ file[c].kind = "call" /\ Inside(file, c, i)
    /\ lang = "typescript" => Around(file, i, {"namespace"}) = 0 /\ file[i].kind # "assigned"
    => \E pair \in Attributed(lang, file) : pair[2] = c

\* Not kept by TypeScript: the same without the exceptions.
EveryCallOwned(lang, file) ==
  NamedApart(lang, file) =>
  /\ \A pair \in Attributed(lang, file) : Inside(file, pair[2], pair[1])
  /\ \A i \in Walks(lang, file).symbols : \A c \in DOMAIN file :
       file[i].kind \in {"function", "method", "assigned"} /\ file[c].kind = "call" /\ Inside(file, c, i)
       => \E pair \in Attributed(lang, file) : pair[2] = c
=============================================================================
