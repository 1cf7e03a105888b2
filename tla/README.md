# Formal model of contextmaxxer

contextmaxxer indexes a repository into `.contextmaxxer/index.db` (SQLite), keeps
that index fresh while the developer edits, and answers an agent's questions about
the code over MCP. This directory holds TLA+ modules for the parts of it whose
correctness depends on order: who writes which table when, what is read before it
is used, what is lost when a process dies, and which of several processes gets to
a file first. TLC checks the modules on small instances; TLAPS proves theorems
about eight of them for every value of their constants.

## 1. The system

| part | code | state it keeps | operations |
|---|---|---|---|
| watcher | `index/watch.go`, `cli/mcp.go` `startWatcher` | watched directories, debounce timer, `running`, `dirty`, the `done` channel | catch-up pass, register directories, take an event, fire, finish a pass, stop |
| indexer | `index/indexer.go`, `index/walker.go` | locals of a pass: known files, names of the run, edge work, dependents, `seen` | walk, skip by hash, replace a file, resolve edges, repair dependents, delete the unseen |
| extractors | `index/languages/*`, `index/parser.go` | none | tree to symbols, tree to edges, callee to symbol |
| chunks | `index/chunk.go` | none | body to windows |
| tables | `store/sqlite/sqlite.go`, `chunks.go`, `schema.sql` | files, symbols, edges, bodies, chunks, vectors, full-text rows; a pool of connections | the mutators, the list and search queries |
| backfill | `index/backfill.go` | symbols listed and not yet embedded | list, embed, upsert |
| vector cache | `store/sqlite/veccache.go` | matrix in memory, sidecar file, token in `_meta` | invalidate, load, materialize, rebuild |
| graph cache | `store/sqlite/graphcache.go`, `retrieve/graphmemo.go` | symbol list and edge list in memory | invalidate, list |
| ranking | `retrieve/pipeline.go`, `fusion.go`, `pagerank.go`, `intent/*`, `literal.go`, `testfloor.go` | locals of a request: hits, seeds, pool, answer | search, fuse, protect, read, rerank, fill slots, cut |
| answer | `retrieve/pipeline.go`, `packer.go`, `evidence.go`, `locator.go`, `related.go`, `mcp/server.go` `find_context` | calls of the session, results of the last answer | look up a position, pack, window, number, claim, remember |
| expansion | `mcp/server.go` | symbols returned per request, continuation cursors in order | find, expand, continue |
| feedback | `feedback/recorder.go` | ring of unlabelled retrievals, breadcrumb file, log and its previous generation | hold, label, observe, append, rotate |
| discovery gate | `cli/hook.go` | marker, counter and `.nudged` file of a session | pre-search, post-find, post-search |
| models | `embed/onnx.go`, `rerank/onnx.go` | ONNX sessions under a mutex | batch, pad, truncate, join a pair |
| installation | `embed/model.go`, `embed/onnx.go`, `cli/warmup.go` | the cache directory of the user | download, verify, unpack, open a session |
| host setup | `cli/init.go`, `cli/hostsetup.go` | configuration files of the hosts, which are the user's | load, merge, write |
| enrichment | `cli/enrich.go`, `enrich/enrich.go` | `synthetic-docs.json`, the map of a run under its mutex | dispatch, ask, save, cancel |
| adoption telemetry | `feedback/adoptionlog.go`, `cli/adoption.go` | an append-only file | append, report |
| evaluation | `cmd/*`, `goldensuite`, `benchdata`, ... | none | offline tools |

How they interact. `contextmaxxer index` runs one pass, then the backfill, then the
vector cache rebuild, in one goroutine. `contextmaxxer mcp --watch` runs the watcher
(with its passes), the backfill with its rebuild, and every query of the agent beside
each other, all over one `Store`; mutators invalidate the caches after they commit.
The agent's host runs the hooks as processes of their own, which share only files
with the server. Every process that embeds first sees to it that runtime and models are
in one directory they all share. `init` and `enrich` are run by a person, again and again, over
files that others write too.

What is hard, and what would be correct:

* watcher: changes that come while a pass runs, or before their directory is watched.
  One pass at a time; no announced change is forgotten.
* indexer: ids that SQLite hands out again while a pass still maps names to the old
  ones; a pass that is cut short anywhere. The index agrees with the disk, the call
  graph holds calls that exist and loses none it had, and only files that are gone leave.
* tables: deletions that span seven tables, on connections that may not enforce
  foreign keys. No row refers to, or is found for, what no longer exists.
* caches: a fill that overlaps a write, and the sidecar outliving its process. A query
  is not answered from anything older than the last write that returned before it began.
* expansion: an id that means another symbol by now; a boundary inside a character; a
  cursor evicted meanwhile. Pages join to one body of the symbol that was asked for.
* ranking: a dozen rules, each of which moves symbols past others, over a store that changes
  between their reads. What a channel or a ranker is sure of survives the rules meant for
  other candidates, and no rule loses or repeats a symbol.
* answer: a line passes through the trim of the indexer, the windows, the packer and the
  numbering, each of which counts anew, while the store changes. A line is printed under its
  own number, and what is claimed to be visible is what is printed.
* pure functions: boundaries, ties and ambiguous names. A position is answered by its
  innermost symbol, a text by its own vector, a call by the symbol it can only mean.
* commands: a download, a run or a write that ends anywhere, and is begun again. What is
  there is whole, what is the user's stays, and a later run ends well.
* feedback and gate: processes that look at a file and then act on it. A retrieval is
  labelled once and for its own search; the gate blocks a bounded number of times, as long as
  it can count them.

## 2. Modules

| module | models | composition |
|---|---|---|
| `Watch` | the event loop, passes as goroutines, editors, fsnotify | – |
| `StoreTables` | each mutator of the store as a function from tables to `[db, ...]` | used by `Store` and `Indexer` |
| `Store` | callers of the store over the connection pool of database/sql | tables + pool + indexer + readers + backfill |
| `Indexer` | `Indexer.Index` with the walker goroutine, over the same tables | tables + walker + consumer + developer |
| `VecCache` | matrix, sidecar, token, lock | writer + rebuild + searches |
| `GraphCache` | two cached lists and their generation | pass + queries |
| `CachedReads` | abstract: what a cache in front of changing tables promises a reader | implemented by `VecCache` and `GraphCache` |
| `Ranking` | `runPipeline` from the search channels to the cut at `max_results` | request + store + pass |
| `Answer` | `finishPipeline` and `find_context`: hydration, windows, packing, numbers, claims | request + store + pass |
| `Expansion` | `expand_context`, `continue_context` and a reindexing watcher | agents + server + pass |
| `Feedback` | ring, breadcrumb, log | server handlers + hook processes |
| `Gate` | the three hooks over files of the session | sessions + hooks + breadcrumb |
| `Install` | downloads, archives, the runtime and its providers per platform | processes over one directory |
| `HostSetup` | `init` for three hosts | runs + user + upgrades |
| `Enrich` | `enrich` | dispatcher + workers + the host's agent |
| `Setup` | these three commands, one of them at work | composes `Install`, `HostSetup`, `Enrich` |
| `Locator`, `GraphContext`, `Related`, `PageRank`, `Batching`, `Chunks`, `Calls`, `Extract` | pure functions, with what each promises about its result as operators | called by `MCFunctions` |
| `WatchProofs`, `StoreProofs`, `IndexerProofs`, `ExpansionProofs`, `FeedbackProofs`, `GateProofs` | theorems | extend the module of that name |
| `CachesProofs`, `SetupProofs` | theorems | extend `MCCaches` and `Setup`, about the components these hold |
| `MC*` | constants of the instances | extend the module of that name; `MCCaches`, `MCRetrieval` hold several components, of which one is at work, `MCFunctions` the pure functions |

How state and actions correspond to the code:

* **Watch.** `loop` is where the watcher goroutine is (catch-up, registering, `select`,
  stopped); `timer`, `running`, `dirty`, `done` are the locals of `Watch`; each element of
  `scans` is the goroutine of a pass, as the set of files it has still to visit. One
  action per case of the `select`. `disk[f]` counts writes of `f`, `indexed[f]` is the one
  the index holds. `owed` and `due` are history: the last write announced to the loop, and
  the last one made while the loop ran.
* **StoreTables.** A table is a set of records; the `fk` argument says whether the
  connection enforces foreign keys, which decides about cascades and refusals. `NextId` is
  `max(rowid)+1`, so an id is given again after the last row is deleted. A body is kept
  in `bodies` only when it is long, as in the code.
* **Store.** `idle` is database/sql's list of free connections; only the first
  connection got `PRAGMA foreign_keys`. A call takes a connection, runs its transaction and
  gives it back; `Overlap` says whether calls of several callers may be under way at a
  time (`mcp`) or not (`index`).
* **Indexer.** `pass.at` is the place in `Index`; the steps between two store calls are one
  action. The calls of a step that fail are a set `bad`, and each error path does what the
  code does: most log and go on. `existing`, `seen`, `names`, `work`, `deps` are the
  locals of the same purpose. A content gives the names it defines and the calls it makes,
  which is what an extractor would return.
* **Setup.** `command` is the one at work (`App.Run`); each component keeps its variables, and of
  one that is not at work a single initial state is taken.
* **VecCache.** A generation of `symbol_vec` stands for its rows. The write path is two
  steps (commit, then invalidate); the load takes the write lock and then reads the sidecar
  or the rows, and writes and renames a sidecar before it lets go.
* **GraphCache.** A version stands for a table. The pass deletes, invalidates, saves
  symbols, upserts (which invalidates) and saves edges (which does not).
* **Expansion.** `call[a]` is the tool call of an agent and what it has read so far. A body
  is a sequence of `plain`, `newline`, `lead`, `tail` and `bad` bytes, so `expansionPageEnd`
  is the function of the code.
* **Feedback.** A process appends by stat, unlink, rename, open and write; `files[k]` is an
  inode, so a process may write to a log that was renamed or unlinked since it was opened.
* **Gate.** `counter[s]` is the number in the file, or `Truncated` between the truncation
  and the write of `os.WriteFile`, which reads as zero. `parallel` are the sessions that have
  several tool calls at a time, chosen at the start. Every write of these files may fail, which
  the code ignores (`PostFindLost`, `CountLost`, `NudgeLost`), also after it has emptied the
  file; `lost[s]` counts them. A file that is there can be read.
* **Ranking.** `at` is the next step of `runPipeline`, one action between two calls of the
  store, so that a pass may come between any two. A score is only compared: a scorer gives
  one of the orders in `Rankings`, and what two scores are blended to is any order that
  agrees with both where they agree. Reciprocal ranks are summed exactly, over a common
  denominator; the code adds floats, which may break a tie of equal sums otherwise. `Test`,
  `trivial` and `alike` (the overlap of name and query) are attributes of a symbol. Left out:
  the chunk and identifier channels, which are off by default, and the blend's weights.

* **Answer.** A line of text knows whose line it is and which, so that numbers and claims can
  be compared with what is shown. A row has a body, a capped excerpt of it, and may be from an
  index before whole bodies were kept. A token is a line. `at` is between reads of the store,
  where a pass may `Replace` a row; the embedder of the windows may fail or answer short.
* **Install.** `files[f]` is an inode and `data` what is written to it, so that a process goes
  on writing to a file another has renamed. `job[p]` is the list of what a process has still to
  fetch, unpack, rename, open. A download may be corrupted, fail, or die with its process; a
  rename that fails (`RenameFails`) leaves its `.tmp` file, which is `stranded`. To remove and to
  close a file always succeed.
* **HostSetup.** A file is absent, JSON (servers, hooks in order), lines, or cut off. `at` is
  between loading a file, opening it for writing and having written it; `mine` is history, what
  in the files is the user's. A line of TOML is a header (spelled as ours is or not), a key,
  a key with the `rest` of its value on the lines after it, or a key that does not begin
  with `key =`, since that is how `upsertSectionLine` finds it; headers begin their line. `odd` is a
  JSON file with a value of another type where servers, hooks or the hooks of an event of ours
  should be, which every writer replaces.
* **Enrich.** `file` and `tmp` are the sidecar and its temporary file, `sidecar` the map of the
  run, `unsaved` the answers that are in neither file. A worker holds the mutex while it saves.
  A file that cannot be read is taken for one that is not there; such a run is `blind`.
* **Pure functions.** A body is a sequence of lines, a text one of token numbers, a path one of
  segments, a syntax tree one of nodes that know their parent. `PageRank` and `Related` are exact
  over a common denominator where the code has floats.

## 3. Runs

Each passing run names the properties it checks; the violation runs check one statement
of the repository which the code does not keep.

| run | question | bounds | distinct states |
|---|---|---|---|
| `watch_loop` | are changes coalesced without being lost? | a file in the root and one in a directory made later, 3 edits, 1 failing pass, shutdown | 8,800 |
| `store_turns` | do the mutators keep the tables sound? | 2 paths, bodies long and short, 6 mutating calls, 2 calls of a reader or the backfill | 1.8 M |
| `indexer_passes` | is the index right after any history of passes? | 3 files, 5 contents, 4 histories of edits, 1 forced pass, 1 failure, cancellation or crash | 2.2 M |
| `caches` | is a reader answered as new as the last write? | 2 searches, 2 writes, 2 rebuilds, 1 crash; 2 queries, 2 versions | 314,000 |
| `retrieval` | do the rules of the ranking respect each other, and is what is shown what it is said to be? | 5 ids in 4 files (one of tests), one id that may change hands, 3 orders, 7 requests; 3 of 5 kinds of rows, 2 budgets, 2 calls; 1 reindex | 380,000 |
| `expansion` | is paging right for every body, and for agents that share a reindexing server? | all valid bodies of up to 5 bytes; 2 agents, 3 symbols of 2 names, 2 reindexes, 2 cursors, pages of 3 | 155,000 |
| `feedback_labels` | is the log consistent? | 1 handler, 1 hook, ring of 2, log of 5 records, 3 retrievals, 1 loss | 4.6 M |
| `gate_turns` | does the gate let go? | a session in turn or in parallel, 2 searches, budget 3, at most 7 blocks, 1 write that fails | 183,000 |
| `functions` | does each pure function keep its promise? | every input of `MCFunctions`, one per state | 131,000 |
| `setup` | do the commands survive what ends them? | 6 machines, 1 corrupted and 1 failed download, 1 death; 5 symbols, 2 workers, a save every 2 answers; 3 hosts, each file as found in 1 to 3 ways, 2 runs, 1 edit, 1 failure | 736,000 |
| `store_pool` | violation of `ReferencesHold` | a reader and an indexer at a time | |
| `indexer_crash` | violation of `IndexMatchesDisk` | one edit, one crash | |

What the properties say:

* `SingleFlight`, `NoLostChange`, `AnnouncedReachesIndex`: at most one pass is in flight and
  `running` says so; an announced change always has an event, the timer, the dirty flag or
  an unfinished pass that brings it, and arrives.
* `ReferencesHold`, `SearchableExactly`, `NoOrphanVectors`, `OwnContent`: rows refer to rows
  that exist, the full-text index covers exactly the symbols, no vector outlives its
  symbol or chunk, and what is stored under an id that is given again belongs to the
  new symbol.
* `UnfailedIndexMatches`: as long as nothing failed, after a pass during which nothing
  changed the index holds the files on disk with their symbols, once each.
  `CallGraphRight`: after such a pass, whatever earlier ones went through, edges are calls
  (`EdgesAreCalls`) and none is missing (`CallsKept`). `OnlyGoneFilesLeave` is about every
  step. `OwnVectors`: a reused vector is that of the text.
* `FreshReads` is `CachedReads` under the mapping of `MCCaches`; `ReadYourWrites` and
  `SidecarCurrent` are what it rests on, and what lasts beyond a process.
* `PoolRight`: the pool has the best of PageRank and of the vectors whatever the fusion did
  (`StrongReachReranker`), and the fusion does not contradict channels that agree
  (`AgreedFirst`). `CutRight`: what the rankers put first is answered, nothing is lost or
  named twice, a slot goes only to whom it is for, and the test floor reorders only tests
  (`FirstStay`, `AnswerFull`, `AnchorsOpenFiles`, `FloorInOrder`).
* `LinesTrue`: true numbers, and claims that match (`NumberedTrue`, `ClaimsShown`).
  `ShownWithinCap`: when the windows cannot be had, the capped excerpt is shown and not the
  whole body (`FailsClosed`), and rank k expands to card k (`RankExpands`).
* `PagesJoin`: pages join to one body without loss (`Lossless`) and no character is cut
  (`WholeCharacters`). `NameKept`, `CursorsBounded`, `ExpansionEnds`: the body is of the name
  that was asked for, the cursors and their order agree within the limit, paging ends.
* `RingConsistent`, `CandidatesFirst`, `SearchLabelsOnce`: the log.
* `BlocksWithinBudget`, `OpenStaysOpen`, `SearchGetsThrough`: a session that searches in turn is
  turned away as often as the budget says, and as often again for a write that failed; an open
  gate stays open; a session in turn is let through, unless no count can ever be written.
* `PositionAnswered`, `NeighboursTold`, `RelatedTold`, `TextsHeard`, `CalleeTold`, `CallerTold`:
  each joins what the functions of one concern promise; `MCFunctions` names the parts.
* `RuntimeWhole`, `HostsKept`, `EnrichmentKept`: a file that is there is whole, and failures
  clean up, but one of the rename; the user's entries stay, the TOML they are in stays valid, a
  second `init` changes nothing, and a host that is done starts this program; no summary is undone
  by a run that could read the file, and a death loses a bounded number of answers.
  `CommandsEnd`: a later run ends with an embedder, and an enrichment ends.

Deadlock is not checked: every model stops when its bounds are used up, and the server
itself may be idle for ever.

**Bounds.** Two processes and two objects are what each hazard needs: one that reads, one
that changes what was read. Ids are given again from the first deletion on, so six store
calls cover delete, insert and the use of an id. Three files are a caller, a callee and
one that changes the ids. Pages of 3 bytes have a second half, a character
that straddles the end and a line break on both sides of the middle. A budget of 3 is the
constant of the code. In `retrieval` the shares and protections are smaller than in the code
(`VectorProtect` 2, `PPRProtect` 1, `IntentWindow` 2) so that five symbols overflow each of
them; the requests cover a pool above and below the limit, every slot rule alone and
together, and a floor that is off, by default and at `max_results`; windows of 3 lines with a
stride of 2 overlap, touch and leave gaps in rows of 12, and a budget of 9 forces compaction
where one of 30 does not. The inputs of `functions` are bounded so that every rule has an input
on each side of it: windows of 4 lines over bodies of up to 10, of which one may be too wide for
a chunk, batches of 2 over up to 5 texts, graphs
of 4 symbols and 3 edges, trees of 3 nodes and a call. A file of two chunks can be
half written; 2 runs of each command are one that goes wrong and one that makes good.

**Fairness.** Watcher: goroutines that are ready run, a timer that is set fires, and
`select`, which picks among its ready cases at random, takes each one sooner or later; each
case that stays enabled is therefore weakly fair. Failures, edits and cancellation are not.
Expansion: the server finishes a tool call it has begun, and an agent that was told `more`
calls again, as the tool description tells it to. Gate: a hook runs to its end; the agent
that wants to search tries again whenever it can (strong fairness, because other tool calls of
the session interrupt the wanting); writes of the counter fail a bounded number of times. Nothing is
assumed of `find_context`. Installation: a process
that has begun runs on, and another is started some time, as any command and every start of the
server does; that failures, deaths and corruptions are bounded stands for a network that works
some time. Enrichment: the dispatcher closes its queue, the goroutines run, the last save is
tried; requests come back because the HTTP client has a timeout.

### Where the code and its documentation disagree

Each line ends in a counterexample. The first two are runs; for the others, take the
constants of the passing run that has the module and change what the line says (`Spec` of the
module, the property alone).

| module | property | instance | what it shows |
|---|---|---|---|
| `MCStore` | `ReferencesHold` | `MCStore_pool` | `PRAGMA foreign_keys` runs on one connection; a deletion on another, opened when calls overlap, does not cascade |
| `MCIndexer` | `IndexMatchesDisk` | `MCIndexer_crash` | the new hash is stored before the new symbols, so a process that dies in between leaves a file that every later pass skips |
| `MCStore` | `NoOrphanVectors` | `Readers = {}`, `Overlap = TRUE`, `MaxCalls = 5` | the backfill upserts under ids a pass has deleted meanwhile |
| `MCIndexer` | `CallsFollowMoves` | `Rename`, no failure | a definition moved to another file loses its incoming edges |
| `MCWatch` | `WrittenReachesIndex` | one file `nested` (`NewDirOf`), no failure | files written before their new directory is watched |
| `MCWatch` | `WrittenReachesIndex` | one file in the root (`FlatDirOf`), in `OddCase` | extensions in capitals |
| `MCWatch` | `ServedStaysFresh` | `FlatDirOf`, no failure | an edit between the catch-up visit and the registration |
| `MCIndexer` | `UnfailedIndexMatches` | `Back`, no failure | a file that is edited after it was hashed and before it is read, and then edited back, is skipped with the symbols of the other content |
| `MCIndexer` | `EdgesAreCalls` | `Foreign`, no failure | a caller is edited to define a name of another file, after it was hashed and before the repair reads it: the repair resolves the caller among the names of all files, and the other file's symbol gets the call ("safer than false edges") |
| `MCIndexer` | `EdgesUnambiguous` | `Overloaded`, no failure | of a name that a repaired file has twice, the first symbol stays in the map, and the next repaired file gets an edge to it ("the same rule the main pass applies") |
| `MCIndexer` | `OnlyGoneFilesLeave` | `Tests = {z}`, `OneEdit` | the watcher deletes the tests of an index built with `--include-tests` |
| `MCIndexer` | `IndexMatchesDisk` | `SameSecond = TRUE`, `OneEdit` | an edit within the second that keeps the size is never read |
| `MCCaches` | `ReadYourWrites` | `Caches = {"vec"}`, `Concurrent = TRUE` | the rebuild after the backfill publishes rows it read before a write |
| `MCCaches` | `ReadYourWrites` | `Caches = {"vec"}`, `RemoveFails = TRUE` | a sidecar whose removal failed is recorded as removed, and loaded |
| `MCCaches` | `SidecarBelievable` | `Caches = {"vec"}` | a crash between commit and invalidation leaves a believable sidecar |
| `MCCaches` | `GraphCurrent` | `Caches = {"graph"}`, `MaxVersion = 3` | edges are saved after the last invalidation |
| `MCRanking` | `NoSymbolTwice` | | a literal candidate that is in the tail already is answered a second time (`literal.go` says the slots go to what the ranking did not reach) |
| `MCRanking` | `FloorKeepsMembers` | | a floor below `max_results` changes which symbols are answered (`testfloor.go` says only one at or above it does) |
| `MCAnswer` | `WithinBudget` | `Budgets = {9}` | the budget is kept when packing; windows and whole bodies are put in afterwards |
| `MCAnswer` | `NumberedTrue` | `DotShapes` | a source line that is `...` is taken for a gap, and the numbers after it are wrong |
| `MCAnswer` | `CompactSaysSo`, `ExactClaims` | | a compact card that is asked for whole claims every line and shows the signature; the mark of a capped body is claimed as a line |
| `MCAnswer` | `OwnBody` | | a body read by id may be another symbol's by then, under the first one's header |
| `MCExpansion` | `NameKept` | `Overlap = TRUE` | the identity and the body are two reads |
| `MCExpansion` | `SymbolKept` | `TwoFiles` | the identity is the name and the kind, not the file |
| `MCExpansion` | `ExpansionEnds` | `Latin1`, pages of 4 | a byte that is no UTF-8 leaves the page empty at the same offset |
| `MCFeedback` | `SearchLabelsOnce` | two hooks | two hooks label one breadcrumb |
| `MCFeedback` | `LastQueryLabellable` | no hook, no loss | a label for an older request removes the last breadcrumb |
| `MCFeedback` | `RecentRetained` | `LogCap = 2` | two processes rotate, and a generation is lost |
| `MCGate` | `BlocksBounded` | `Searches = {grep}`, `MaxLost = 4` | an error of writing the counter is ignored and the search is turned away all the same, for ever where no write succeeds ("it fails open") |
| `MCGate` | `BlocksBounded` | `MaxLost = 0` | searches of a parallel session read one count and both write it |
| `MCGate` | `BlocksAtMostOnce` | | a comment says once, the budget says three |
| `MCGate` | `JudgedByOwnSearch` | one search each | sessions of a project share the breadcrumb |
| `MCFunctions` | `NeverEmpty` | | small symbols are left out after the list was cut to its size, which may leave none (the comment in `locator.go` says it never does) |
| `MCFunctions` | `ScoresSumToOne` | | a seed without neighbours hands its rank to nobody (`pagerank.go` says they sum to one) |
| `MCFunctions` | `WideWholeToo` | | what is past `chunkMaxBytes` in its window is cut and may be in no chunk (`chunk.go` says the overlap keeps a statement whole) |
| `MCFunctions` | `EveryCallOwned` | | in TypeScript, callers in a namespace and assigned functions are indexed, and their calls are not |
| `MCFunctions` | `RecursionStays` | | the caller is no candidate, so a call of oneself may be bound to the one other symbol of that name |
| `MCHostSetup` | `KeptEvenWhenCut` | `PlainStart` | files are written in place, and a cut one is lost |
| `MCHostSetup` | `ExtraKept` | `ExtraStart` | the user's keys in our entry are overwritten |
| `MCHostSetup` | `Idempotent` | `PlainStart`, `HookInPath = TRUE` | a path that contains ` hook ` is not recognized, and hooks pile up |
| `MCHostSetup` | `UsersKept` | `OddStart`, `OddHooksStart` | a `mcpServers`, `hooks` or event of hooks of another type is replaced |
| `MCHostSetup` | `UsersKept`, `Wired` | `SpelledStart` | `command="x"` gets a second key beside it, and TOML does not allow that |
| `MCHostSetup` | `UsersKept`, `Wired` | `LongStart` | of an `args` array over several lines the first line is replaced and the rest stays |
| `MCHostSetup` | `UsersKept`, `Wired` | `HeaderStart` | our table with its header spelled otherwise is added again |
| `MCSetup` | `AgentKept` | `AgentBeside = TRUE` | a run writes its map over what the agent wrote meanwhile |
| `MCSetup` | `OwnSummary` | `Overloads` | symbols of one name share one summary |
| `MCSetup` | `EvenWhenCut` | `Commands = {"install"}` | a library that was unpacked in part counts as there |
| `MCSetup` | `OverlapWhole` | `Commands = {"install"}`, two processes, `OneMachine`, `Overlap = TRUE` | two downloads write to one `.tmp` file |
| `MCSetup` | `RenameLeavesNothing` | `Commands = {"install"}` | a rename that fails leaves the `.tmp` file |
| `MCSetup` | `KeptThoughUnread` | `Commands = {"enrich"}` | a sidecar that cannot be read is taken for none, and written over |

## 4. Proofs

**Watcher (`WatchProofs`).** From `DirAssumption`, `OddAssumption` and `BoundAssumption`
alone, for any directories, files and bounds. `Invariance` proves `IInv`, which adds to
`TypeOK`, `SingleFlight` and `NoLostChange` what makes them inductive: that before the
`select` loop begins neither flag is set and the timer is not armed, that `dirty` is up
only while a pass runs, and that what was announced is never ahead of the disk. Without the
first a timer could start a second pass beside the catch-up; without the last a pass that
visits a file, and so brings it to the version on disk, might still not bring it to the
version that was announced. One step per action, and under it one per conjunct it can disturb.
`TypeCorrect`, `OnePassAtATime` and `NothingForgotten` are its corollaries.

**Tables (`StoreProofs`).** From `StoreAssumption`, `CallersAssumption` and `BatchAssumption`,
under `~Overlap`. `TakingTurns` proves `TableInv`: there is one connection, it enforces
foreign keys, what the backfill has listed still exists, and the tables are `Sound`. One
lemma per mutator of `StoreTables` says that it maps sound tables to sound tables; the
connection part is what makes the lemmas applicable, since each needs `fk`. `References`,
`SearchRows`, `NoOrphans` and `ReuseIsHarmless` follow: references hold, the search rows are
exact, no vector is left of what is gone, and ids that are given again are harmless. That the
hypothesis `~Overlap` is needed, the lines of `MCStore` above show: for `NoOrphans` it says that
nothing is deleted between the listing of the backfill and its upsert.

**Indexer (`IndexerProofs`).** From `IndexerAssumption`, for any files, contents, histories of
edits, and failures, cancellations and crashes at any step. `IndexHolds` proves `IndexInv`:
types, and

* `Sound`: ids and paths are keys of their tables, rows refer to rows that exist, and a vector
  is that of its symbol's text. One lemma per store call maps sound tables to sound tables;
  `Reuse`, that the vectors a pass keeps for reuse are of their own texts, makes the one about
  embeddings applicable. `OwnVectorsHeld` follows.
* `FilesInv`: until it ends, a file that the pass found in the table is seen, being worked on, in the
  channel, ahead of the walker, or excused, and its id still means that path.
  `OnlyGoneLeave` follows, if `Tests = {}`: a pass that does not walk the tests deletes them.
* `Faithful`, whatever fails: a recorded hash is one the file has or had, its stamp is that of
  the disk exactly if its content is; what the pass has not come to is as it was when the pass
  began; and if nothing has changed or failed since then, what the pass has seen is as on disk,
  and nothing present is missed. Without the part about hashes, a file could be skipped with the
  symbols of something else; without the one about what is not yet come to, the end of a pass
  would say nothing of the files it skipped.
* `Unfailed`, until a call fails: a file whose row is of the present content has its symbols.

`UnfailedIndexRight` follows under `Simple`, whose three parts are each needed, as lines of `MCIndexer`
above show: all files are walked, an edit shows in mtime or size, and no content comes back to a
file that had left it. The last was found by the proof. `Index` hashes a file in the walker
and reads it again to parse it; an edit in between stores the hash of one content with the
symbols of another. The next pass repairs that, unless the file has been edited back meanwhile. `Back`
has TLC show it; the histories of `indexer_passes` satisfy `Simple`.

*The call graph.* `CallGraphHeld` proves `CallGraphRight` under `Orderly`, whatever failed, was
cancelled or died in earlier passes: only the last one has to be clean. The invariant has three parts.

* `GraphTables`: edges lead to symbols; a file has all symbols of one content or none, and of
  the present one if its row says so; an edge from a symbol of the present content is one of
  its calls. The last alone is not inductive: ids are given again, so it takes that an edge
  goes with its symbols, and that a content which was parsed once does not come back.
* `GraphPass`: the names a pass has loaded lead to symbols of those names, the edges it has put off
  are of files it will not replace again, and a caller to repair has its symbols.
  `EdgesAreCalls` needs these two parts only.
* `GraphClean`: in a clean pass, a call that was resolved when it began still has its callee, the
  only symbol of that name (unless its file is without symbols at this moment), and has its edge or has
  it to come: with the edges put off, in a caller's file that is to be repaired, or in the file
  that is being replaced. `CallsKept` is this for a pass that has ended. One lemma per action follows such a
  call: `PendingReplace`, in which the edge goes and the caller becomes one to repair, and
  `PendingRepair`, in which it comes back, are the heart of it.

`Orderly` adds to `Simple` that old symbols are listed and deleted without failure, which the runs
assume too, and `CallersAtHome`: the name of a caller is defined in no other file, or in
every content of its own, and then no row fails to be saved. Both halves are needed: `Foreign`
shows the first, and a file whose row cannot be saved, which leaves it without symbols while
its calls are repaired, the second. The proof found them, and with them the two lines of
`MCIndexer` about repairs. `OneEdit` and the second and third history of `Edits` satisfy
`Orderly`; the first and fourth go beyond it. All parts of the invariant were checked
by TLC on the instance of `indexer_passes` before they were proved.

**Symbol and edge cache (`CachesProofs`).** From `GraphAssumption`, without a premise.
The invariant puts versions in order: what is cached is no older than the last invalidation and
no newer than its table, a query began no later than the last invalidation, and what it took
lies between its beginning and the table. `GraphObeys` follows.

**Vector cache (`CachesProofs`).** From `VecAssumption`, under `Sequential`: no rebuild beside
a writer, and `os.Remove` does not fail. Both premises are needed, as the list above shows. The
invariant follows every copy of the rows (the matrix, the sidecar, the file about to be renamed,
what a thread holds) and says that each that may still be published is as new as the last
acknowledged write. `VecReadYourWrites` and `VecSidecarCurrent` are its corollaries.

**The promise of the caches (`CachesProofs`).** `ReadsFresh` proves `FreshReads`: both caches
implement `CachedReads` under the mapping of `MCCaches`, from the two invariants above and under
`Sequential`, which only the vector cache needs. Each step of a search, a query, a writer, a pass
or the rebuild is a step of one reader, a mutation, or a stutter. A search and a query are told
apart by name (`ReadersApart`), and whichever cache is not at work stays as it began.

**Runtime and models (`SetupProofs`).** From `InstallAssumption`, for any models, any number of
chunks, corrupted downloads, failures and deaths, and any processes, under `~Overlap`: a process
begins when none is at work. `RuntimeHeld` proves `RuntimeWhole`. That a file is whole
when it is there is not inductive, since files are written under their own names, or
their `.tmp` names, chunk by chunk. The invariant says

* who writes: a process at work is the only one, what it writes to is a file of its own that
  no other name has, of which it has written a beginning that is as good as the stream was;
* what is left to do: each step of a plan finds its archive (held already, or fetched by an
  earlier step), the main library is unpacked before its providers, an archive is dropped after
  its last use, and each provider that is not there yet has a step;
* what may be left over: archives and `.tmp` files belong to a process that is at work, or to one that
  died, and then what was cut off while it was unpacked is named (`cut`); a `.tmp` file may also be
  one whose rename failed (`stranded`).

`~Overlap` is needed (`MCSetup` above): two processes write to one `.tmp` file.

**Enrichment (`SetupProofs`).** From `EnrichAssumption`, for any symbols, workers, interval of
saves, failures, cancellations and deaths. `EnrichmentHeld` proves `EnrichmentKept` under
`~AgentBeside`, which is needed (`MCSetup` above). Its invariant, `EnrichInv`:

* who holds the mutex has written the map of now to the temporary file, since nobody answers
  while it is held; so has a run that is about to rename it for the last time (`SavesInv`);
* the map of a run that could read the file has every name the file has a summary for (`MapInv`), so
  that a rename takes none away;
* the answers not yet saved are at most `SaveEvery` for each worker that is about to save and
  the remainder of the count (`AnswersInv`). The bound alone is not inductive: it would let an answer
  more in when all workers save. It holds because the last of them was sent to save by an
  answer that made the count a multiple of `SaveEvery`.

**Hosts (`SetupProofs`).** From `HostSetupAssumption`, for any files the hosts may have, any number
of runs, failures, upgrades and edits (those of `Changed`). `HostsHeld` proves `HostsKept` under `~HookInPath` and
`TidyStarts`: a JSON file has no value of another type where servers, hooks or the hooks of our
events should be; a TOML file has our table and each of our keys once, spelled as `init` writes them,
key and value on one line; between the marks of `AGENTS.md` there is nothing but the rule. Each is
needed: for the files they exclude see `MCHostSetup` above, and a user who writes between the marks
has it replaced. The three parts are not inductive by themselves:
what is about to be written was decided from a file at an earlier step, and `Idempotent` speaks of all
files of a host while a run is at one of them. `HostInv` adds

* that every file stays tidy (`FilesFine`), since the writers merge into what they find; that TOML stays
  valid is a part of it;
* that what is about to be written is what the file becomes: tidy, not changed by the same
  writer, with all that is the user's in it, and no file of a host that is done (`OutInv`);
* that each file of the hosts asked for is still to come, or is one its writer would not change
  (`DoneInv`, `AskedInv`).

The lemmas below it say of each writer that what it makes is tidy, is not changed by the same writer,
starts what is installed and has the user's items (`MergedWell`). Those of
`appendCodexServer` and `appendMarkedBlock`, which find their place in the lines and rewrite it,
are most of the module.

**Cursors and pages (`ExpansionProofs`).** From the assumptions of `Expansion`, for any
agents, symbols, page size and limit. `CursorsRight`: the order lists each cursor once and only
those in the map, within the limit. The hard part is that a cursor that is handed out is
one nobody holds, for which it is counted that the cursors outnumber those kept and those held.
`NamesKept`, under `~Overlap`: the name is the same at the check, at the read and in
each cursor; this needs that two agents never read on from the same cursor. `PagesJoined`, without
a premise: what an agent has been given is a beginning of one body, all of it once
complete, and no character of a valid body is cut. Its invariant says that the cursor of an agent
lies where its text ends, and that this is between characters; the lemmas below it,
that `expansionPageEnd` ends a page of a valid body between characters and never before it began.

**Feedback (`FeedbackProofs`).** From `FeedbackAssumption`, for any handlers, hooks, ring and
log, with appends that fail and servers that are restarted at any step. `RingHolds`: the order
lists each held retrieval once and only those, within the limit. `LabelsFollow`: a label is
behind its retrieval in the log, unless that was aged out or lost. The ring alone does not say so; it
takes that no request is forgotten (told, held, or aged), and that whoever is past writing the
retrieval has it in the log. `SearchesLabelOnce`, for one hook at a time: what the
breadcrumb names has no label and nobody is about to give it one, because a hook removes it
before it appends. Two hooks may both read it first, as the list above shows.

**Gate (`GateProofs`).** From `GateAssumption`, for any sessions, searches and budget.
`OpenGateStays`, without a premise: the marker is never taken away. `BudgetHolds` and
`SuggestedOnce` are about the sessions not in `parallel`, with any number of writes that fail: such a
session has one call at a time (`OneAtATime`), so that nobody writes the counter between the
reading and the writing of another; the searches turned away are at most the number in the file,
or the one a search is about to write, and a budget for each write that failed (`CounterTrue`),
because the file of a lost write reads as zero at worst; and a session that was suggested to has
its note, or lost it (`NudgeLeft`). In parallel neither holds (list above).

**Model-checked only.** Liveness (`AnnouncedReachesIndex`, `ExpansionEnds`, `SearchGetsThrough`,
`CommandsEnd`), which the prover does not reach under fairness. The pure functions, which are
checked for every input within their bounds: most are recursive, and what they compute needs
induction over data. Everything about `Ranking` and `Answer`,
which nothing but work stands in the way of.

## 5. What is not modelled

* What the scores of retrieval are: they are floating point, and `Ranking` takes their
  orders. The graph memo, which is rebuilt when the cached lists are other slices. The chunk
  and identifier channels, which are off by default.
* The grammars and the queries of the extractors: `Calls` and `Extract` begin at trees of a
  few kinds of nodes. `Indexer` takes what extractors return as constants. The
  text that is embedded, and the normalization of comments.
* SQLite itself: a transaction is one step, a failed one leaves the tables alone, and
  `SQLITE_BUSY` is one of the failures a store call may have. `.gitignore` matching and
  `embedChunks` of the indexer, the `_meta` rows besides `content_version` and `vec_token`.
* What the models compute, ONNX Runtime, and how long a call waits for the mutex
  (`embed/synchronized.go`), which is held for one call and never while another is taken.
* The wording of an answer, resources and prompts, the protocol; what `query`, `watch` and
  `warmup` print.
* `CONTEXTMAXXER_FEEDBACK_ALL`, adoption telemetry and the reports over it: one append per
  call, which no decision depends on. The evaluation tools, which are offline.

Hazards of the code that no run reaches, besides those of the list in section 3:

* a directory that cannot be read is skipped with everything in it, and the pass deletes
  what it did not see (`index/walker.go:186`);
* fsnotify reports an overflow as an error that is logged, and the events are gone (`index/watch.go:81`);
* on shutdown `Watch` returns without its pass, and the store is closed under it (`cli/mcp.go:204`);
* a pass that failed is not tried again until another file changes (`index/watch.go:97`);
* stale names stay in the map of a pass when the old symbols of a file cannot be listed, and symbols are
  doubled when they cannot be deleted (`index/indexer.go:242`, `:257`);
* a rebuild and a search that materializes write to one temporary file (`store/sqlite/veccache.go:239`);
* `index` beside a running server: neither invalidates the memory of the other (`cli/index.go:131`).

## 6. What would come next

1. Compositions: watcher with indexer (a pass of `Watch` as a pass of `Indexer`), store with
   its caches (the invalidation hook inside each mutator), gate with feedback.
2. Abstract specifications: an index that is a function of the disk, implemented by
   `Indexer` as long as nothing fails; a pager that hands out a body, implemented by `Expansion`.
3. Failing lists and deletions, and unreadable directories, in `Indexer`.
4. Proofs: `PoolRight` and the other properties of `Ranking` and `Answer`.
