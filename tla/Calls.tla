------------------------------- MODULE Calls -------------------------------
(***************************************************************************)
(* Which symbol a call refers to, and which symbol it is made in           *)
(* (index/languages).  There is no type checker: a call is bound to the    *)
(* method of a receiver whose type the source writes down, else to a       *)
(* symbol of exactly that name, else to the one symbol whose name ends     *)
(* with it, else to nothing.                                               *)
(*                                                                         *)
(* A qualified name is the sequence of its segments; names maps the        *)
(* qualified names that are unambiguous to ids.  A call is its callee, and *)
(* what it is selected from: None, the name of an identifier, or "expr".   *)
(***************************************************************************)
EXTENDS Integers, Sequences, SequencesExt, FiniteSets, FiniteSetsExt, Folds

None == "none"
Nothing == 0  \* no id

\* nameToID[qn], but never the caller itself.
At(names, qn, src) == IF qn \in DOMAIN names /\ names[qn] # src THEN names[qn] ELSE Nothing

\* The first of several ways that leads somewhere.
FirstOf(ids) == LET hits == SelectSeq(ids, LAMBDA id : id # Nothing) IN IF hits = <<>> THEN Nothing ELSE hits[1]

\* The only other symbol of that last segment among those that fit, if there
\* is just one.
UniqueSuffix(names, callee, src, fits) ==
  LET matches == {qn \in fits : names[qn] # src /\ Last(qn) = callee}
  IN IF Cardinality(matches) = 1 THEN names[CHOOSE qn \in matches : TRUE] ELSE Nothing

-----------------------------------------------------------------------------
(* Go.  fn is the calling function: its id, package, receiver and that     *)
(* one's type, the types of its parameters, the names it binds (shadowed), *)
(* and the prefixes of each import of its file.                            *)

goResolveCallee(call, fn, names) ==
  LET plain == call.on = None
      callable == {qn \in DOMAIN names : plain => Len(qn) = 2}
  IN FirstOf(<<At(names, <<call.callee>>, fn.id),
               IF plain THEN At(names, <<fn.pkg, call.callee>>, fn.id) ELSE Nothing,
               IF plain /\ call.callee \in fn.builtins THEN Nothing
               ELSE UniqueSuffix(names, call.callee, fn.id, callable)>>)

\* An import the function does not hide behind a name of its own.
goImported(call, fn) == call.on \in DOMAIN fn.imports /\ call.on \notin fn.shadowed

\* Mutant: what the receiver and the parameters are is not looked at.
goTypedNot(call, fn, names) == Nothing
goTyped(call, fn, names) ==
  FirstOf(<<IF fn.recv # None /\ call.on = fn.recv THEN At(names, <<fn.pkg, fn.recvType, call.callee>>, fn.id) ELSE Nothing,
            IF call.on \in DOMAIN fn.params THEN At(names, Append(fn.params[call.on], call.callee), fn.id) ELSE Nothing>>)

goCallee(call, fn, names) ==
  LET prefixes == fn.imports[call.on]
  IN FirstOf(<<IF goImported(call, fn)
               THEN FirstOf([i \in DOMAIN prefixes |-> At(names, <<prefixes[i], call.callee>>, fn.id)]) ELSE Nothing,
               goTyped(call, fn, names),
               goResolveCallee(call, fn, names)>>)

-----------------------------------------------------------------------------
(* Python.  fn has its id and class; bases lists those of each class.      *)

\* The classes self may get a method from, nearest first, each once.
pyChain(class, bases) ==
  LET Widen(queue, k) ==
        IF k > Len(queue) \/ queue[k] \notin DOMAIN bases THEN queue
        ELSE queue \o SelectSeq(bases[queue[k]], LAMBDA b : b \notin ToSet(queue))
      classes == {class} \union DOMAIN bases \union UNION {ToSet(bases[c]) : c \in DOMAIN bases}
  IN FoldLeft(Widen, <<class>>, [k \in 1 .. Cardinality(classes) |-> k])

pyResolveSelfCall(class, callee, bases, names, src) ==
  LET chain == pyChain(class, bases)
  IN FirstOf([i \in DOMAIN chain |-> At(names, <<chain[i], callee>>, src)])

pyCallee(call, fn, bases, names) ==
  FirstOf(<<IF call.on = "self" /\ fn.class # None THEN pyResolveSelfCall(fn.class, call.callee, bases, names, fn.id) ELSE Nothing,
            At(names, <<call.callee>>, fn.id),
            UniqueSuffix(names, call.callee, fn.id, DOMAIN names)>>)

-----------------------------------------------------------------------------
(* TypeScript: this, and the fields of this whose type is declared.  The   *)
(* other languages know nothing of receivers.                              *)

tsCallee(call, fn, names) ==
  LET type == IF call.on = "self" THEN fn.class ELSE IF call.on \in DOMAIN fn.fields THEN fn.fields[call.on] ELSE None
  IN FirstOf(<<IF type # None THEN At(names, <<type, call.callee>>, fn.id) ELSE Nothing,
               At(names, <<call.callee>>, fn.id),
               UniqueSuffix(names, call.callee, fn.id, DOMAIN names)>>)

emitEdge(call, fn, names) ==
  FirstOf(<<At(names, <<call.callee>>, fn.id), UniqueSuffix(names, call.callee, fn.id, DOMAIN names)>>)

-----------------------------------------------------------------------------
(* What is promised of the callee of a call.                               *)

NameOf(names, id) == CHOOSE qn \in DOMAIN names : names[qn] = id

\* A call whose receiver's declared type has that method is bound to it,
\* however many others share its name.
DeclaredTypeWins(callee, own, fn, names) ==
  own \in DOMAIN names /\ names[own] # fn.id => callee = names[own]

\* What is bound carries the name that is called, and unless it is near (a
\* declared type's, of just that name, of the caller's package) it is the only
\* one of those that can be called like this, the caller apart.
NoHairball(call, callee, near, callable, fn, names) ==
  callee # Nothing =>
    LET qn == NameOf(names, callee)
    IN /\ callee # fn.id /\ Last(qn) = call.callee
       /\ qn \in near \/ {q \in callable \intersect DOMAIN names : Last(q) = call.callee /\ names[q] # fn.id} = {qn}

\* Not kept: a function that calls itself is not taken to call another one
\* (the caller is left out of the candidates, so the only other is "unique").
RecursionStays(call, callee, own, fn, names) ==
  own \in DOMAIN names /\ names[own] = fn.id => callee = Nothing
=============================================================================
