---------------------------- MODULE MCFunctions ----------------------------
(***************************************************************************)
(* The pure functions of the program over bounded inputs: each step calls  *)
(* one of them with one input, and the properties are about its result.    *)
(***************************************************************************)
EXTENDS Integers, Sequences, SequencesExt, FiniteSets

VARIABLES fn, in

vars == <<fn, in>>

CONSTANTS MaxEdges, MaxLines, MaxTexts  \* how long the inputs are

L == INSTANCE Locator
G == INSTANCE GraphContext WITH MaxCallers <- 2, MaxCallees <- 2, MaxCalleesRest <- 1, MaxCallsites <- 1, MaxFlow <- 2
R == INSTANCE Related WITH ProbeK <- 3, Unit <- 6
B == INSTANCE Batching WITH batchSize <- 2, MaxTokens <- 4, Shelves <- <<2, 3>>,
                            RerankTokens <- 7, QueryTokens <- 4, QueryDefault <- 3
\* More of the query is asked for than there is room for.
Full == INSTANCE Batching WITH batchSize <- 3, MaxTokens <- 5, Shelves <- <<2, 6>>,
                               RerankTokens <- 12, QueryTokens <- 10, QueryDefault <- 3
C == INSTANCE Chunks WITH chunkLines <- 4, chunkOverlap <- 2, chunkMaxPerSymbol <- 3, chunkMaxBytes <- 8
K == INSTANCE Calls
E == INSTANCE Extract
P == INSTANCE PageRank WITH DampingNum <- 17, DampingDen <- 20

ASSUME FunctionsGiven ==
  /\ G!GraphContextAssumption /\ R!RelatedAssumption /\ B!BatchingAssumption /\ Full!BatchingAssumption
  /\ C!ChunksAssumption /\ P!PageRankAssumption

Init == fn = "none" /\ in = <<>>

Call(name, input) == fn' = name /\ in' = input

-----------------------------------------------------------------------------
(* A position: two files, one path the end of the other, three symbols.    *)

Files == << <<"b">>, <<"a", "b">> >>
Extents == {<<1, 4>>, <<2, 3>>, <<3, 3>>, <<5, 6>>}
Symbol(id, file, extent, micro) == [id |-> id, file |-> file, start |-> extent[1], end |-> extent[2], micro |-> micro]

LocatorQuery ==
  \E path \in {<<"b">>, <<"a", "b">>, <<"c">>}, pathlike \in BOOLEAN, field \in {"", "n", "text"}, n \in 0 .. 3 :
  \E f1, f3 \in 1 .. 2, e1, e2, e3 \in Extents, m1, m2 \in BOOLEAN, max \in 1 .. 2 :
    /\ field # "n" => n = 0
    /\ ~pathlike => field = "" /\ max = 1
    /\ Call("locator", [q |-> L!Query(path, pathlike, field, n), max |-> max,
                        syms |-> {Symbol(1, f1, e1, m1), Symbol(2, 1, e2, m2), Symbol(3, f3, e3, FALSE)}])

-----------------------------------------------------------------------------
(* The graph around one of four symbols, two of which may share a name.    *)

GraphAround ==
  \E k \in 1 .. MaxEdges : \E edges \in [1 .. k -> {<<1, 2>>, <<2, 1>>, <<3, 1>>, <<4, 1>>, <<2, 3>>, <<1, 4>>, <<3, 3>>}],
     id \in {1, 2} :
  \E score \in [1 .. 4 -> 0 .. 1] :
    Call("graph", [id |-> id,
                   g |-> [name |-> <<"n1", "n2", "n3", "n4">>, score |-> score, callable |-> [i \in 1 .. 4 |-> i # 3],
                          edges |-> [i \in 1 .. k |-> [src |-> edges[i][1], dst |-> edges[i][2]]]]])

CallSite ==
  \E k \in 1 .. MaxLines : \E branch \in [1 .. k -> BOOLEAN], line \in 1 .. MaxLines + 3 :
    Call("callsite", [branch |-> branch, start |-> 2, line |-> line])

Confidence ==
  \E k \in 1 .. 6 : \E files \in [1 .. k -> {"a", "b"}], weak \in BOOLEAN :
    Call("confidence", [files |-> files, weak |-> weak])

-----------------------------------------------------------------------------
(* Names of an edit in three files, one of them a test.                    *)

Line(mark, token) == [mark |-> mark, token |-> token]
Blobs == {<<<<Line("git", "d"), Line("+", "x"), Line("", "y")>>>>,
          <<<<Line("", "y"), Line("-", "x"), Line("+", "y")>>>>,
          <<<<Line("", "x"), Line("", "y")>>>>,
          <<<<Line("head", "z"), Line("+", "x")>>, <<Line("", "y")>>>>}
Hits == {<<>>, <<1>>, <<2>>, <<3>>, <<1, 2>>, <<1, 3>>, <<2, 3>>, <<1, 1>>, <<1, 2, 3>>, <<2, 2, 3>>, <<1, 1, 2, 2>>}

RelatedEdits ==
  \E blobs \in Blobs, x, y, z \in Hits, exclude \in SUBSET {10, 20}, limit \in 1 .. 2 :
    Call("related", [blobs |-> blobs, hits |-> [x |-> x, y |-> y, z |-> z], exclude |-> exclude, limit |-> limit,
                     paths |-> <<[path |-> 10, test |-> FALSE], [path |-> 20, test |-> TRUE], [path |-> 30, test |-> FALSE]>>])

-----------------------------------------------------------------------------
(* Texts for the models; words are the numbers from 5.                     *)

Words(k) == [i \in 1 .. k |-> 4 + i]

EmbedAll ==
  \E k \in 1 .. MaxTexts : \E lens \in [1 .. k -> 1 .. 3], fails \in SUBSET {1, 2} :
    Call("embed", [lens |-> lens, fails |-> fails])

RunBatch ==
  \E k \in 1 .. 3 : \E lens \in [1 .. k -> 0 .. 6], eos \in [1 .. k -> BOOLEAN] :
    Call("batch", [texts |-> [i \in 1 .. k |-> Words(lens[i]) \o IF eos[i] THEN <<B!EOS>> ELSE <<>>]])

EncodePair ==
  \E q, d \in 0 .. 10 :
    Call("pair", [query |-> <<B!CLS>> \o Words(q) \o <<B!SEP>>, doc |-> <<B!CLS>> \o Words(d) \o <<B!SEP>>])

-----------------------------------------------------------------------------
ChunkBody ==
  \E k \in 1 .. MaxLines + 5 : \E blank \in [1 .. k -> BOOLEAN], wide \in 0 .. k, width \in {4, 9} :
    Call("chunk", [lines |-> [i \in 1 .. k |-> IF i = wide THEN width ELSE IF blank[i] THEN 0 ELSE 1]])

Spread ==
  \E k \in 0 .. 3 : \E edges \in [1 .. k -> {<<1, 2>>, <<2, 1>>, <<2, 3>>, <<3, 3>>, <<1, 4>>}],
     weights \in [{1, 3} -> 0 .. 1], iters \in 0 .. 2 :
    Call("rank", [edges |-> edges, weights |-> weights, iters |-> iters])

-----------------------------------------------------------------------------
(* A call of "f" in an index of some of these names, from any of them.     *)

Known == {<<"f">>, <<"p", "f">>, <<"q", "f">>, <<"p", "A", "f">>, <<"q", "A", "f">>, <<"p", "B", "g">>}
Ids(qns) == [qn \in qns |-> CHOOSE i \in 1 .. 6 : qn = <<<<"f">>, <<"p", "f">>, <<"q", "f">>, <<"p", "A", "f">>,
                                                        <<"q", "A", "f">>, <<"p", "B", "g">>>>[i]]
Builtins == {"len"}

GoCall ==
  \E qns \in SUBSET Known : \E caller \in qns, on \in {"none", "recv", "q", "x", "expr"} :
  \E hidden \in SUBSET {"q"}, params \in {[n \in {} |-> <<>>], [x |-> <<"p", "A">>], [x |-> <<"q", "A">>]} :
    /\ Len(caller) > 1 /\ caller[1] = "p" /\ (on = "recv" => Len(caller) = 3)
    /\ Call("go", [call |-> [callee |-> "f", on |-> on], names |-> Ids(qns),
                   fn |-> [id |-> Ids(qns)[caller], pkg |-> "p", recv |-> IF Len(caller) = 3 THEN "recv" ELSE "none",
                           recvType |-> IF Len(caller) = 3 THEN caller[2] ELSE "none", params |-> params,
                           shadowed |-> hidden \union DOMAIN params, imports |-> [q |-> <<"q">>], builtins |-> Builtins]])

Classes == {<<"f">>, <<"A", "f">>, <<"B", "f">>, <<"C", "f">>, <<"C", "g">>}
ClassIds(qns) == [qn \in qns |-> CHOOSE i \in 1 .. 5 : qn = <<<<"f">>, <<"A", "f">>, <<"B", "f">>, <<"C", "f">>, <<"C", "g">>>>[i]]

MethodCall ==
  \E lang \in {"python", "typescript", "generic"}, qns \in SUBSET Classes :
  \E caller \in qns, on \in {"none", "self", "field", "expr"}, bases \in {<<>>, <<"B">>, <<"A", "B">>, <<"B", "C">>} :
    /\ on \in {"self", "field"} => Len(caller) = 2
    /\ lang # "python" => bases = <<>>
    /\ Call("method", [lang |-> lang, call |-> [callee |-> "f", on |-> on], names |-> ClassIds(qns),
                       bases |-> [C |-> bases, B |-> <<"A">>],
                       fn |-> [id |-> ClassIds(qns)[caller], class |-> IF Len(caller) = 2 THEN caller[1] ELSE "none",
                               fields |-> [field |-> "B"]]])

-----------------------------------------------------------------------------
(* Files of three nodes and a call.                                        *)

Kinds == [python |-> {"function", "class", "wrapper", "block"},
          typescript |-> {"function", "class", "method", "namespace", "wrapper", "assigned", "block"},
          generic |-> {"function", "class", "namespace", "block"}]
NamesOf(kind) == CASE kind = "class" -> {"C"} [] kind = "namespace" -> {"n"}
                   [] kind \in {"wrapper", "block", "call"} -> {"-"} [] OTHER -> {"f", "g"}

\* The nodes come in the order of the source, and what is in each other is
\* what the grammar allows.
WellFormed(lang, file) ==
  \A i \in DOMAIN file :
    LET up == E!Kind(file, file[i].up)
    IN /\ i > 1 => file[i].up = i - 1 \/ E!Inside(file, i - 1, file[i].up) \/ file[i].up = 0
       /\ up # "call"
       /\ lang = "typescript" => (file[i].kind = "method" <=> up = "class")
       /\ up = "wrapper" => /\ file[i].kind \in {"function", "class", "assigned", "namespace"}
                            /\ \A k \in DOMAIN file : file[k].up = file[i].up => k = i
       /\ file[i].kind = "wrapper" => i < Len(file) /\ file[i + 1].up = i
       /\ file[i].kind = "call" => up \in {"function", "method", "assigned", "block"}

SourceFile ==
  \E lang \in DOMAIN Kinds : \E kinds \in [1 .. 3 -> Kinds[lang]] :
  \E n1 \in NamesOf(kinds[1]), n2 \in NamesOf(kinds[2]), n3 \in NamesOf(kinds[3]), u2 \in 0 .. 1, u3 \in 0 .. 2, u4 \in 1 .. 3 :
    LET Node(k, n, u) == [kind |-> k, name |-> n, up |-> u]
        file == <<Node(kinds[1], n1, 0), Node(kinds[2], n2, u2), Node(kinds[3], n3, u3), Node("call", "-", u4)>>
    IN WellFormed(lang, file) /\ Call("file", [lang |-> lang, file |-> file])

Next ==
  \/ LocatorQuery \/ GraphAround \/ CallSite \/ Confidence \/ RelatedEdits
  \/ EmbedAll \/ RunBatch \/ EncodePair \/ ChunkBody \/ Spread
  \/ GoCall \/ MethodCall \/ SourceFile

Once == fn = "none" /\ Next
Spec == Init /\ [][Once]_vars

-----------------------------------------------------------------------------
(* What the results are to be, part by part.                               *)

LocatorAnswer == L!locatorResults(in.q, in.syms, Files, in.max)

\* locatorResults: only a position in an indexed file is answered by lookup,
\* and a path in full only with symbols of that file; the rest is searched.
NotHijacked == fn = "locator" =>
  L!NotHijacked(in.q, in.syms, Files, LocatorAnswer) /\ L!ExactPathOnly(in.q, in.syms, Files, LocatorAnswer)

\* locatorResults: the innermost symbol around the line comes first, however
\* small it is and however few are asked for.
InnermostFirst == fn = "locator" => L!InnermostFirst(in.q, in.syms, Files, LocatorAnswer)

\* enrichGraphContext: no caller that is cut off matches the query better
\* than one that is shown.
BestCallersKept == fn = "graph" => G!BestCallersKept(in.g, in.id)

\* enrichGraphContext: what flows is two calls away, in one direction, is no
\* neighbour, and is left out only for want of room.
FlowTwoHops == fn = "graph" => G!FlowTwoHops(in.g, in.id)

\* callSiteEvidence: an excerpt shows the call and a branch before it, and
\* nothing outside of the body.
CallSiteShows == fn = "callsite" => G!CallSiteShows(in.branch, in.start, in.line)

\* buildRetrievalHealth: an answer that is all of one file is not unsure.
AgreedNotLow == fn = "confidence" => G!AgreedNotLow(in.files, in.weak)

\* FindRelatedEdits: by rarity, tests last, none of the edited files.
RarestAhead == fn = "related" => R!RarestAhead(in.blobs, in.hits, in.paths, in.exclude, in.limit)

\* FindRelatedEdits: no file is answered for a name that is everywhere, or
\* that the edit did not touch.
CommonPointsNowhere == fn = "related" => R!CommonPointsNowhere(in.blobs, in.hits, in.paths, in.exclude, in.limit)

\* embedAll: each text is given its own vector, or none is given one.
EachItsOwn == fn = "embed" => B!EachItsOwn(in.lens, in.fails) /\ Full!EachItsOwn(in.lens, in.fails)

\* runBatch, embedBatch: rows do not run into each other, and each is read at
\* its own end marker, behind as much of the text as fits.
ReadAtItsEnd == fn = "batch" => B!ReadAtItsEnd(in.texts) /\ Full!ReadAtItsEnd(in.texts)

\* encodePair: the pair fits, and a long query leaves room for the document.
BothHeard == fn = "pair" => B!BothHeard(in.query, in.doc) /\ Full!BothHeard(in.query, in.doc)

\* ChunkSymbol: a statement as long as the overlap is whole in some chunk, unless
\* the lines before it fill one.
WholeInOne == fn = "chunk" => C!WholeInOne(in.lines)

\* PersonalizedPageRank: the scores sum to one when what holds weight has a
\* neighbour.
MassKept == fn = "rank" => P!MassKept(3, in.edges, in.weights, in.iters)

\* PersonalizedPageRank: callers and callees of the seeds are reached alike.
BothWays == fn = "rank" => P!BothWays(3, in.edges, in.weights, in.iters)

Callee ==
  CASE fn = "go" -> K!goCallee(in.call, in.fn, in.names)
    [] fn = "method" /\ in.lang = "python" -> K!pyCallee(in.call, in.fn, in.bases, in.names)
    [] fn = "method" /\ in.lang = "typescript" -> K!tsCallee(in.call, in.fn, in.names)
    [] fn = "method" /\ in.lang = "generic" -> K!emitEdge(in.call, in.fn, in.names)

\* The method that the declared type of the receiver has, if it is declared.
OwnMethod ==
  CASE fn = "go" -> IF in.call.on = in.fn.recv /\ in.call.on # "none" THEN <<"p", in.fn.recvType, "f">>
                    ELSE IF in.call.on \in DOMAIN in.fn.params THEN Append(in.fn.params[in.call.on], "f") ELSE <<>>
    [] fn = "method" -> IF in.lang # "generic" /\ in.call.on = "self" THEN <<in.fn.class, "f">>
                        ELSE IF in.lang = "typescript" /\ in.call.on = "field" THEN <<in.fn.fields["field"], "f">> ELSE <<>>

\* goCallee, pyResolveSelfCall, tsExtractCallsInFunc: a receiver of declared
\* type is bound to that type's method, whatever else has the name.
DeclaredTypeWins == fn \in {"go", "method"} => K!DeclaredTypeWins(Callee, OwnMethod, in.fn, in.names)

\* goResolveCallee, emitEdge: a name that several symbols share leads nowhere;
\* an import that is hidden by a local name is not followed.
NoHairball ==
  fn \in {"go", "method"} =>
    K!NoHairball(in.call, Callee,
                 {<<"f">>, OwnMethod} \union
                   (IF fn = "go" THEN {<<"p", "f">>} \union (IF in.call.on = "q" /\ "q" \notin in.fn.shadowed THEN {<<"q", "f">>} ELSE {})
                    ELSE IF in.lang = "python" /\ in.call.on = "self" THEN {<<"A", "f">>, <<"B", "f">>, <<"C", "f">>} ELSE {}),
                 {qn \in DOMAIN in.names : fn = "go" /\ in.call.on = "none" => Len(qn) = 2}, in.fn, in.names)

\* pyExtractEdgesFromBlock, tsExtractCallsInFunc, edgeWalk: a call is
\* attributed to a symbol it is written in.
OwnCalls == fn = "file" => E!OwnCalls(in.lang, in.file)

\* Symbols and Edges reach the same callers, under the same names.
NoCallLost == fn = "file" => E!NoCallLost(in.lang, in.file)

-----------------------------------------------------------------------------
(* The same, function by function, as the run checks it.                   *)

\* locatorResults: a position is answered with the innermost symbol first and
\* only from the file it names; all else is searched.
PositionAnswered == NotHijacked /\ InnermostFirst

\* enrichGraphContext, callSiteEvidence, PersonalizedPageRank,
\* buildRetrievalHealth: no neighbour that is left out was better than one that
\* is shown, its excerpt shows the call, both directions of a call carry
\* weight, and an answer all of one file is not called unsure.
NeighboursTold == BestCallersKept /\ FlowTwoHops /\ CallSiteShows /\ MassKept /\ BothWays /\ AgreedNotLow

\* FindRelatedEdits: files are answered by the rarest name of the edit they
\* share, and for no name that is everywhere.
RelatedTold == RarestAhead /\ CommonPointsNowhere

\* embedAll, runBatch, encodePair, ChunkSymbol: each text has its own vector,
\* read at its own end, a long query leaves room for the document, and a
\* statement as long as the overlap, its lines of ordinary length, is whole in
\* some chunk.
TextsHeard == EachItsOwn /\ ReadAtItsEnd /\ BothHeard /\ WholeInOne

\* goResolveCallee, pyResolveSelfCall, tsExtractCallsInFunc, emitEdge: a call
\* is bound to the method of the declared type, and an ambiguous name to none.
CalleeTold == DeclaredTypeWins /\ NoHairball

\* Symbols and Edges of the three extractors: the caller of a call is a symbol
\* that is indexed and that the call is written in.
CallerTold == OwnCalls /\ NoCallLost

-----------------------------------------------------------------------------
(* What comments say and the code does not keep.                           *)

\* Not kept: a call of oneself is not taken for a call of another symbol.
RecursionStays ==
  fn \in {"go", "method"} =>
    K!RecursionStays(in.call, Callee, IF fn = "go" /\ in.call.on = "none" THEN <<"p", "f">> ELSE OwnMethod, in.fn, in.names)

\* Not kept: chunk.go has the overlap keep "a statement that straddles a boundary
\* whole in one of the two chunks".
WideWholeToo == fn = "chunk" => C!WideWholeToo(in.lines)

\* Not kept: every caller that is indexed has its calls.
EveryCallOwned == fn = "file" => E!EveryCallOwned(in.lang, in.file)

\* Not kept: pagerank.go says "scores sum ~ 1.0" of every result.
ScoresSumToOne == fn = "rank" => P!ScoresSumToOne(3, in.edges, in.weights, in.iters)

\* Not kept: the comment at selectLocatorSymbols has a position never get an
\* empty answer.
NeverEmpty == fn = "locator" => L!NeverEmpty(in.q, in.syms, Files, LocatorAnswer)
=============================================================================
