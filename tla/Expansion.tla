----------------------------- MODULE Expansion -----------------------------
(***************************************************************************)
(* Expanding a search result page by page: the tools expand_context and    *)
(* continue_context of the MCP server (mcp/server.go).  find_context       *)
(* remembers under its request id which symbols it returned; an expansion  *)
(* looks whether the remembered id still names that symbol, reads the body *)
(* behind the id, and hands it out in pages; a cursor stands for the rest  *)
(* of a body, and the server keeps the most recent cursors only.           *)
(*                                                                         *)
(* Meanwhile a pass of the watcher may put another symbol on the id.  A    *)
(* body is a sequence of bytes, of which only what a page boundary depends *)
(* on is kept: the line break, and the two bytes of a longer UTF-8         *)
(* character.  A page's text is the sequence of its bytes.                 *)
(***************************************************************************)
EXTENDS Naturals, Sequences, FiniteSets

CONSTANTS
  Agents,        \* agents, each with one expansion at a time
  Symbols,       \* what can be indexed: records [file, name, body]
  PageBytes,     \* expansionPageBytes
  CursorLimit,   \* continuationCacheLimit
  Overlap,       \* whether a pass runs during the two reads of an expansion
  Reindexes,     \* bound on changes of the index
  Searches       \* bound on searches

\* What a page boundary tells apart: "bad" is a byte of no character.
Byte == {"plain", "newline", "lead", "tail", "bad"}

ASSUME PageAssumption == PageBytes \in Nat \ {0} /\ CursorLimit \in Nat \ {0}
ASSUME AgentAssumption == IsFiniteSet(Agents)
ASSUME SymbolAssumption == \A s \in Symbols : s.body \in Seq(Byte)
ASSUME BoundAssumption == Overlap \in BOOLEAN /\ Reindexes \in Nat /\ Searches \in Nat

Missing == [file |-> "none", name |-> "none", body |-> <<>>]

\* A cursor no agent has been given before, as a UUID is; those that neither
\* the server nor an agent holds any more may come again.
Cursors == 1 .. CursorLimit + Cardinality(Agents) + 1
NoCursor == 0

VARIABLES
  indexed,        \* the symbol behind the id the searches return, or Missing
  expansionCache, \* expansionCache[r]: the symbol request r returned
  continuations,  \* continuations[c]: a continuationState, for the cursors in order
  order,          \* continuationOrder
  call,           \* call[a]: the tool call of a, and what a has read
  reindexes

vars == <<indexed, expansionCache, continuations, order, call, reindexes>>

Requests == DOMAIN expansionCache
NoCall == [at |-> "idle", target |-> Missing, owner |-> Missing, got |-> <<>>, cursor |-> NoCursor]

Init ==
  /\ indexed \in Symbols
  /\ expansionCache = <<>>
  /\ continuations = [c \in {} |-> Missing] /\ order = <<>>
  /\ call = [a \in Agents |-> NoCall]
  /\ reindexes = 0

-----------------------------------------------------------------------------
(* Pages.                                                                  *)

\* utf8.ValidString.
ValidUTF8(s) ==
  \A i \in DOMAIN s :
     /\ s[i] # "bad"
     /\ s[i] = "lead" => i < Len(s) /\ s[i + 1] = "tail"
     /\ s[i] = "tail" => i > 1 /\ s[i - 1] = "lead"

Largest(set) == CHOOSE m \in set : \A n \in set : n <= m

\* The bytes of the page from start on that ends at end.
Slice(body, start, end) == SubSeq(body, start + 1, end)

LineBreaks(body, start, end) == {i \in start + 1 .. end : body[i] = "newline"}

\* Mutant: the page ends before its last line break.
PageEndBeforeBreak(body, start) ==
  IF start + PageBytes >= Len(body) THEN Len(body)
  ELSE LET breaks == LineBreaks(body, start, start + PageBytes)
       IN IF breaks # {} THEN Largest(breaks) - 1 ELSE start + PageBytes

\* expansionPageEnd: behind the last line break if that is in the second half
\* of the page, else as far back from its full size as the text is valid.
expansionPageEnd(body, start) ==
  IF start + PageBytes >= Len(body) THEN Len(body)
  ELSE LET breaks == LineBreaks(body, start, start + PageBytes)
       IN IF breaks # {} /\ Largest(breaks) - 1 - start >= PageBytes \div 2
          THEN Largest(breaks)
          ELSE Largest({e \in start .. start + PageBytes : ValidUTF8(Slice(body, start, e))})

-----------------------------------------------------------------------------
(* The caches of the server, each call of them under expansionMu.          *)

Held == {call[a].cursor : a \in Agents}

FreshCursor == CHOOSE c \in Cursors : c \notin DOMAIN continuations /\ c \notin Held

Restricted(f, keys) == [k \in DOMAIN f \cap keys |-> f[k]]

\* Mutant: no cursor is ever dropped.
CacheContinuationAll(cursor, state) ==
  /\ order' = Append(order, cursor)
  /\ continuations' = [c \in DOMAIN continuations \cup {cursor} |->
                         IF c = cursor THEN state ELSE continuations[c]]

\* cacheContinuation: the oldest cursor goes when there are too many.
CacheContinuation(cursor, state) ==
  /\ order' = IF Len(order) < CursorLimit THEN Append(order, cursor)
              ELSE Append(Tail(order), cursor)
  /\ continuations' =
       Restricted([c \in DOMAIN continuations \cup {cursor} |->
                     IF c = cursor THEN state ELSE continuations[c]],
                  {order'[i] : i \in DOMAIN order'})

\* Mutant: the cursor stands for the page just given.
PageFromStateAgain(a, state) ==
  LET end == expansionPageEnd(state.body, state.offset)
      got == call[a].got \o Slice(state.body, state.offset, end)
      c == FreshCursor
  IN IF end = Len(state.body)
     THEN /\ call' = [call EXCEPT ![a].at = "complete", ![a].got = got, ![a].owner = state.owner,
                                  ![a].cursor = NoCursor]
          /\ UNCHANGED <<continuations, order>>
     ELSE /\ CacheContinuation(c, state)
          /\ call' = [call EXCEPT ![a].at = "more", ![a].got = got, ![a].owner = state.owner,
                                  ![a].cursor = c]

\* pageFromState: agent a is given the page, with a cursor if it is not the last.
PageFromState(a, state) ==
  LET end == expansionPageEnd(state.body, state.offset)
      got == call[a].got \o Slice(state.body, state.offset, end)
  IN \/ /\ end = Len(state.body)
        /\ call' = [call EXCEPT ![a].at = "complete", ![a].got = got, ![a].owner = state.owner,
                                ![a].cursor = NoCursor]
        /\ UNCHANGED <<continuations, order>>
     \/ /\ end < Len(state.body)
        /\ LET c == FreshCursor
           IN /\ CacheContinuation(c, [state EXCEPT !.offset = end])
              /\ call' = [call EXCEPT ![a].at = "more", ![a].got = got, ![a].owner = state.owner,
                                      ![a].cursor = c]

-----------------------------------------------------------------------------
(* The calls of an agent.                                                  *)

\* find_context: the symbol that is indexed is found, and remembered.
FindContext ==
  /\ Len(expansionCache) < Searches /\ indexed # Missing
  /\ expansionCache' = Append(expansionCache, indexed)
  /\ UNCHANGED <<indexed, continuations, order, call, reindexes>>

\* expand_context: cachedRank.
ExpandContext(a, r) ==
  /\ call[a].at = "idle"
  /\ call' = [call EXCEPT ![a].at = "check", ![a].target = expansionCache[r]]
  /\ UNCHANGED <<indexed, expansionCache, continuations, order, reindexes>>

\* Mutant: any symbol behind the id will do.
CheckIdentityPresent(a) ==
  /\ call[a].at = "check"
  /\ call' = [call EXCEPT ![a].at = IF indexed = Missing THEN "refused" ELSE "hydrate"]
  /\ UNCHANGED <<indexed, expansionCache, continuations, order, reindexes>>

\* SymbolIdentity, compared by name and kind.
CheckIdentity(a) ==
  /\ call[a].at = "check"
  /\ call' = [call EXCEPT ![a].at = IF indexed # Missing /\ indexed.name = call[a].target.name
                                    THEN "hydrate" ELSE "refused"]
  /\ UNCHANGED <<indexed, expansionCache, continuations, order, reindexes>>

\* GetSymbolBody, in a read of its own, and the first page.
Hydrate(a) ==
  /\ call[a].at = "hydrate"
  /\ \/ indexed = Missing /\ call' = [call EXCEPT ![a].at = "refused"]
          /\ UNCHANGED <<continuations, order>>
     \/ indexed # Missing /\ PageFromState(a, [owner |-> indexed, body |-> indexed.body, offset |-> 0])
  /\ UNCHANGED <<indexed, expansionCache, reindexes>>

\* continue_context with the cursor of the last page.
ContinueContext(a) ==
  /\ call[a].at = "more"
  /\ \/ /\ call[a].cursor \in DOMAIN continuations
        /\ PageFromState(a, continuations[call[a].cursor])
     \/ /\ call[a].cursor \notin DOMAIN continuations
        /\ call' = [call EXCEPT ![a].at = "refused"]
        /\ UNCHANGED <<continuations, order>>
  /\ UNCHANGED <<indexed, expansionCache, reindexes>>

\* The agent has what it wanted, or an error; it may ask again.
Leave(a) ==
  /\ call[a].at \in {"complete", "refused"}
  /\ call' = [call EXCEPT ![a] = NoCall]
  /\ UNCHANGED <<indexed, expansionCache, continuations, order, reindexes>>

\* A pass deletes the symbol, and the id goes to the next one it saves.
Reindex ==
  /\ reindexes < Reindexes
  /\ Overlap \/ \A a \in Agents : call[a].at # "hydrate"
  /\ indexed' \in (Symbols \cup {Missing}) \ {indexed}
  /\ reindexes' = reindexes + 1
  /\ UNCHANGED <<expansionCache, continuations, order, call>>

Call(a) ==
  \/ \E r \in Requests : ExpandContext(a, r)
  \/ CheckIdentity(a) \/ Hydrate(a) \/ ContinueContext(a) \/ Leave(a)

Next == FindContext \/ Reindex \/ \E a \in Agents : Call(a)

Spec == Init /\ [][Next]_vars

\* The server answers, and an agent that was told "more" calls again ("call
\* continue_context with next_cursor until status:complete").
FairSpec ==
  /\ Spec
  /\ \A a \in Agents : WF_vars(CheckIdentity(a)) /\ WF_vars(Hydrate(a)) /\ WF_vars(ContinueContext(a))

-----------------------------------------------------------------------------
Reading(a) == call[a].at \in {"more", "complete"}

\* "returning one symbol's body under the name of another" (CHANGELOG.md) does
\* not happen: what an agent reads belongs to a symbol of the name it expanded.
NameKept == \A a \in Agents : Reading(a) => call[a].owner.name = call[a].target.name

\* The same for the symbol itself, by file and name: "the id still names the
\* symbol the search returned" (CHANGELOG.md).
SymbolKept ==
  \A a \in Agents : Reading(a) =>
    call[a].owner.name = call[a].target.name /\ call[a].owner.file = call[a].target.file

\* "Lossless" (continue_context): the pages put together are the body of one
\* version of one symbol, from its first byte on, whatever is reindexed and
\* however many expansions share the cursors.
Lossless ==
  \A a \in Agents :
    /\ Reading(a) => /\ Len(call[a].got) <= Len(call[a].owner.body)
                     /\ call[a].got = SubSeq(call[a].owner.body, 1, Len(call[a].got))
    /\ call[a].at = "complete" => call[a].got = call[a].owner.body

\* No page of a valid body ends within a character.
WholeCharacters == \A a \in Agents : ValidUTF8(call[a].owner.body) => ValidUTF8(call[a].got)

\* Both, of the pages an agent puts together.
PagesJoin == Lossless /\ WholeCharacters

\* The cursors the server keeps are those in order, each once, and never more
\* than the limit.
CursorsBounded ==
  /\ DOMAIN continuations = {order[i] : i \in DOMAIN order}
  /\ Cardinality(DOMAIN continuations) = Len(order) /\ Len(order) <= CursorLimit

\* "until status:complete" (expand_context): an expansion that has begun is
\* answered in full, or refused.
ExpansionEnds ==
  \A a \in Agents : call[a].at \in {"check", "hydrate", "more"}
                      ~> call[a].at \in {"complete", "refused"}
=============================================================================
