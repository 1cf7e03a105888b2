----------------------------- MODULE HostSetup -----------------------------
(***************************************************************************)
(* The init command (cli/init.go, cli/hostsetup.go) writes contextmaxxer   *)
(* into the configuration files of the agent hosts it finds: JSON objects, *)
(* a TOML file edited as text, a marked block in a Markdown file, a rule,  *)
(* and .gitignore.  These files are the user's.  Each writer loads a file, *)
(* merges its part and writes the whole file in place; the hosts are done  *)
(* one after another and the first error ends the run.                     *)
(*                                                                         *)
(* Between runs the user edits the files and upgrades contextmaxxer to     *)
(* another path; a write may fail half-way and init may die.               *)
(***************************************************************************)
EXTENDS Naturals, Sequences, SequencesExt, FiniteSets, FiniteSetsExt

CONSTANTS
  Starts,      \* sets of hosts that are there, with the files found
  HookInPath,  \* whether the path of the binary contains " hook "
  MaxRuns, MaxEdits, Failures  \* bounds; Failures counts deaths too

VARIABLES
  disk,      \* disk[f]: what is in file f
  dirs,      \* configuration directories there before
  git,       \* whether the repository is tracked
  installed, \* the version of contextmaxxer, and its path
  at,        \* "off", or what init does with Head(todo): "load", "open", "write"
  todo,      \* files still to be written
  asked,     \* the hosts of the run
  out,       \* what is to be written to Head(todo)
  mine,      \* history: mine[f], what of f is the user's
  done,      \* history: the hosts a run has just finished for, nothing having
             \* changed since
  cut,       \* history: files of which a write was cut off
  runs, edits, failures

vars == <<disk, dirs, git, installed, at, todo, asked, out, mine, done, cut, runs, edits, failures>>

-----------------------------------------------------------------------------
(* The files.                                                              *)

HostFiles(host) ==
  CASE host = "claude-code" -> <<".mcp.json", ".claude/settings.json">>
    [] host = "cursor" -> <<".cursor/mcp.json", ".cursor/rules", ".cursor/hooks.json">>
    [] host = "codex" -> <<"~/.codex/config.toml", "AGENTS.md", ".codex/hooks.json">>

ServerFiles == {".mcp.json", ".cursor/mcp.json"}
HookFiles == {".claude/settings.json", ".cursor/hooks.json", ".codex/hooks.json"}
Files == ServerFiles \union HookFiles \union {".cursor/rules", "~/.codex/config.toml", "AGENTS.md", ".gitignore"}

\* A file is absent, empty, cut off in the middle, or read as what it is: a
\* JSON object, or lines.  A JSON object keeps its servers by name, its hooks in
\* order, whether it has a version, and whether a value of another type is
\* where the servers, the hooks or the hooks of our events should be.
Absent == [is |-> "absent"]
Empty == [is |-> "empty"]
Cut == [is |-> "cut"]
Json(servers, hooks, version, odd) ==
  [is |-> "json", servers |-> servers, hooks |-> hooks, version |-> version, odd |-> odd]
Lines(ls) == [is |-> "lines", lines |-> ls]

Server(name, bin, extra) == [name |-> name, bin |-> bin, extra |-> extra]
Hook(event, matcher, signal, bin, back) ==
  [event |-> event, matcher |-> matcher, signal |-> signal, bin |-> bin, back |-> back]
\* A line: a mark of the block, text of ours or the user's, or of TOML a header
\* (0 if it is spelled as ours is), a key, on one line or "open", with a "rest"
\* on the lines after it, or a key that does not begin with `key =` ("spelled").
Line(is, of, val) == [is |-> is, of |-> of, val |-> val]

\* What each writer makes of what it has loaded; an Error is reported.
Error == [is |-> "error"]
loadJSONObject(c) ==
  CASE c.is = "json" -> c
    [] c.is \in {"absent", "empty"} -> Json({}, <<>>, FALSE, FALSE)
    [] OTHER -> Error
ReadLines(c) == IF c.is = "lines" THEN c.lines ELSE <<>>

\* What a file may hold.
Contents(f) ==
  {Absent, Empty, Cut} \union
  (IF f \in ServerFiles \union HookFiles
   THEN [is : {"json"}, servers : SUBSET [name : STRING, bin : Nat, extra : BOOLEAN],
         hooks : Seq([event : STRING, matcher : STRING, signal : STRING, bin : Nat, back : BOOLEAN]),
         version : BOOLEAN, odd : BOOLEAN]
   ELSE [is : {"lines"}, lines : Seq([is : STRING, of : STRING, val : Nat])])

HostSetupAssumption ==
  /\ {MaxRuns, MaxEdits, Failures} \subseteq Nat /\ HookInPath \in BOOLEAN
  /\ \A s \in Starts : /\ s.disk = [f \in Files |-> s.disk[f]]
                       /\ \A f \in Files : s.disk[f] \in Contents(f)

-----------------------------------------------------------------------------
(* The writers.                                                            *)

mergeMCPServers(doc) ==
  [doc EXCEPT !.servers = {s \in @ : s.name # "contextmaxxer"} \union {Server("contextmaxxer", installed, FALSE)},
              !.odd = FALSE]

narrowLegacyGateMatcher(e) == IF e.matcher = "Grep|Glob" THEN [e EXCEPT !.matcher = "Grep"] ELSE e

repairShellPaths(e) == [e EXCEPT !.back = FALSE]

\* The entry of the event whose command ends with the signal.  The marker is
\* cut out of the command after its first " hook "; of a path that has one
\* too it is never found, as the quote in it is escaped in the JSON text.
WiredAt(hooks, event, signal, odd) ==
  {i \in DOMAIN hooks : hooks[i].event = event /\ hooks[i].signal = signal /\ ~odd}

AddHook(hooks, event, matcher, signal, odd) ==
  LET at_ == WiredAt(hooks, event, signal, odd)
  IN IF at_ = {} THEN Append(hooks, Hook(event, matcher, signal, installed, FALSE))
     ELSE [hooks EXCEPT ![Min(at_)] = LET e == repairShellPaths(@)
                                      IN IF signal = "pre-search" THEN narrowLegacyGateMatcher(e) ELSE e]

mergeClaudeHooks(doc) ==
  LET one == AddHook(doc.hooks, "PreToolUse", "Grep", "pre-search", HookInPath)
      two == AddHook(one, "PostToolUse", "find_context", "post-find", HookInPath)
  IN [doc EXCEPT !.hooks = AddHook(two, "PostToolUse", "Grep", "post-search", HookInPath), !.odd = FALSE]

\* The version is set with the first hook only: of a hook that is there the
\* file is not saved, or for its path.
mergeCursorHooks(doc) ==
  LET wired == AddHook(doc.hooks, "beforeShellExecution", "grep|rg|ag|ack", "search-signal", FALSE)
  IN IF wired = doc.hooks THEN doc ELSE [doc EXCEPT !.hooks = wired, !.version = TRUE, !.odd = FALSE]

mergeCodexHooks(doc) ==
  [doc EXCEPT !.hooks = AddHook(@, "PreToolUse", "^Bash$", "search-signal", FALSE), !.odd = FALSE]

\* Replaces the first line of the section that begins with `key =`, that line
\* only, or adds one at its end.
upsertSectionLine(section, key) ==
  LET at_ == {i \in DOMAIN section : section[i].is \in {"key", "open"} /\ section[i].of = key}
  IN IF at_ = {} THEN Append(section, Line("key", key, installed))
                 ELSE [section EXCEPT ![Min(at_)] = Line("key", key, installed)]

\* Where the section that begins at i ends.
\* Mutant: at the end of the file.
SectionEndAtEof(ls, i) == Len(ls)
SectionEnd(ls, i) == Min({j - 1 : j \in {j \in i + 1 .. Len(ls) : ls[j].is = "header"}} \union {Len(ls)})

appendCodexServer(ls) ==
  LET heads == {i \in DOMAIN ls : ls[i] = Line("header", "contextmaxxer", 0)}
      from == Min(heads)
      to == SectionEnd(ls, from)
  IN IF heads = {}
     THEN ls \o <<Line("header", "contextmaxxer", 0), Line("key", "command", installed), Line("key", "args", installed)>>
     ELSE SubSeq(ls, 1, from - 1)
          \o upsertSectionLine(upsertSectionLine(SubSeq(ls, from, to), "command"), "args")
          \o SubSeq(ls, to + 1, Len(ls))

StartMark == Line("mark", "start", 0)
EndMark == Line("mark", "end", 0)
Block == <<StartMark, Line("rule", "ours", installed), EndMark>>

\* The block is replaced up to the first end mark after its start.
appendMarkedBlock(ls) ==
  LET from == Min({i \in DOMAIN ls : ls[i] = StartMark})
      ends == {i \in DOMAIN ls : i > from /\ ls[i] = EndMark}
  IN IF StartMark \notin ToSet(ls) THEN Lines(ls \o Block)
     ELSE IF ends = {} THEN Error
     ELSE Lines(SubSeq(ls, 1, from - 1) \o Block \o SubSeq(ls, Min(ends) + 1, Len(ls)))

\* .contextmaxxer/ in any of its spellings.
EnsureGitignore(ls) ==
  IF ~git \/ \E i \in DOMAIN ls : ls[i].of = "contextmaxxer" THEN ls
  ELSE Append(ls, Line("text", "contextmaxxer", 0))

\* What WriteHostConfig makes of file f that holds c.
Merged(f, c) ==
  CASE f = ".gitignore" -> Lines(EnsureGitignore(ReadLines(c)))
    [] f = ".cursor/rules" -> Lines(<<Line("rule", "ours", installed)>>)
    [] f = "~/.codex/config.toml" -> Lines(appendCodexServer(ReadLines(c)))
    [] f = "AGENTS.md" -> appendMarkedBlock(ReadLines(c))
    [] OTHER ->
         LET doc == loadJSONObject(c)
         IN IF doc = Error THEN Error
            ELSE CASE f \in ServerFiles -> mergeMCPServers(doc)
                   [] f = ".claude/settings.json" -> mergeClaudeHooks(doc)
                   [] f = ".cursor/hooks.json" -> mergeCursorHooks(doc)
                   [] f = ".codex/hooks.json" -> mergeCodexHooks(doc)

\* A writer that would change nothing does not write.
Same(f, c) ==
  Merged(f, c) = c \/ (f = ".gitignore" /\ Merged(f, c).lines = ReadLines(c))

-----------------------------------------------------------------------------
(* What is the user's in a file.                                           *)

\* The header that line i is under.
Under(ls, i) == LET above == {j \in 1 .. i : ls[j].is = "header"} IN IF above = {} THEN "top" ELSE ls[Max(above)].of

Ours(ls, i) ==
  \/ ls[i].is \in {"mark", "rule"}
  \/ ls[i].is \in {"header", "key", "open"} /\ Under(ls, i) = "contextmaxxer" /\ ls[i].of \in {"contextmaxxer", "command", "args"}

\* Servers and hooks but for what is repaired of them, a value of another
\* type where they should be, and lines with the section they are in.
Items(c) ==
  CASE c.is = "json" -> {<<s.name, s.bin>> : s \in {s \in c.servers : s.name # "contextmaxxer"}}
                        \union {<<"odd">> : odd \in {c.odd} \ {FALSE}}
                        \union {<<h.signal, h.bin, h.event, narrowLegacyGateMatcher(h).matcher>> : h \in ToSet(c.hooks)}
    [] c.is = "lines" -> {<<Under(c.lines, i), c.lines[i].of, c.lines[i].val>> : i \in {i \in DOMAIN c.lines : ~Ours(c.lines, i)}}
    [] OTHER -> {}

\* What TOML asks of our section: it is there once, each of our keys is, and
\* no rest of a value is without its beginning.
Once(places) == \A i, j \in places : i = j
KeyLines(ls, k) == {i \in DOMAIN ls : Under(ls, i) = "contextmaxxer" /\ ls[i].of = k}
ValidToml(ls) ==
  /\ Once({i \in DOMAIN ls : ls[i].is = "header" /\ ls[i].of = "contextmaxxer"})
  /\ \A k \in {"command", "args"} :
       /\ Once({i \in KeyLines(ls, k) : ls[i].is # "rest"})
       /\ \A i \in KeyLines(ls, k) : ls[i].is = "rest" => ls[i - 1].is \in {"open", "rest"}

-----------------------------------------------------------------------------
(* A run.                                                                  *)

Present(f) == disk[f].is # "absent"

DetectHosts ==
  {h \in {"claude-code", "cursor", "codex"} :
     CASE h = "claude-code" -> ".claude" \in dirs \/ Present(".mcp.json")
       [] h = "cursor" -> ".cursor" \in dirs
       [] h = "codex" -> "~/.codex" \in dirs \/ Present("AGENTS.md")}

\* The files of a run, host by host.
Wanted(hosts) ==
  LET of(h) == IF h \in hosts THEN HostFiles(h) ELSE <<>>
  IN <<".gitignore">> \o of("claude-code") \o of("cursor") \o of("codex")

Init ==
  /\ \E start \in Starts : disk = start.disk /\ dirs = start.dirs /\ git = start.git
  /\ installed = 1 /\ at = "off" /\ todo = <<>> /\ asked = {} /\ out = Absent
  /\ mine = [f \in Files |-> Items(disk[f])] /\ done = {} /\ cut = {}
  /\ runs = 0 /\ edits = 0 /\ failures = 0

\* The index and the pending summaries come first (Indexer, Enrich).
RunInit(hosts) ==
  /\ at = "off" /\ runs < MaxRuns /\ runs' = runs + 1
  /\ at' = "load" /\ asked' = hosts
  /\ todo' = Wanted(hosts)
  /\ UNCHANGED <<disk, dirs, git, installed, out, mine, done, cut, edits, failures>>

\* No hosts, or --no-write: the blocks are printed and nothing is written.
Ended == /\ at' = "off" /\ todo' = <<>> /\ asked' = {} /\ out' = Absent

NextFile == IF Len(todo) = 1 THEN Ended /\ done' = asked
            ELSE at' = "load" /\ todo' = Tail(todo) /\ out' = Absent /\ UNCHANGED <<asked, done>>

\* An error ends the run; one about .gitignore is only a warning.
Failed == IF Head(todo) = ".gitignore" THEN NextFile ELSE Ended /\ UNCHANGED done

Load ==
  /\ at = "load"
  /\ LET f == Head(todo)
         merged == Merged(f, disk[f])
     IN IF merged = Error THEN Failed
        ELSE IF Same(f, disk[f]) THEN NextFile
        ELSE at' = "open" /\ out' = merged /\ UNCHANGED <<todo, asked, done>>
  /\ UNCHANGED <<disk, dirs, git, installed, mine, cut, runs, edits, failures>>

\* os.WriteFile: the file is truncated and filled; directories are made first.
Open ==
  /\ at = "open"
  /\ disk' = [disk EXCEPT ![Head(todo)] = Empty] /\ at' = "write"
  /\ dirs' = dirs \union (CASE Head(todo) = ".claude/settings.json" -> {".claude"}
                            [] Head(todo) \in {".cursor/mcp.json", ".cursor/rules", ".cursor/hooks.json"} -> {".cursor"}
                            [] Head(todo) = "~/.codex/config.toml" -> {"~/.codex"}
                            [] OTHER -> {})
  /\ UNCHANGED <<git, installed, todo, asked, out, mine, done, cut, runs, edits, failures>>

Write ==
  /\ at = "write"
  /\ disk' = [disk EXCEPT ![Head(todo)] = out] /\ NextFile
  /\ UNCHANGED <<dirs, git, installed, mine, cut, runs, edits, failures>>

\* A call fails, or init dies.
Fails ==
  /\ at # "off" /\ failures < Failures /\ failures' = failures + 1
  /\ cut' = IF at = "write" THEN cut \union {Head(todo)} ELSE cut
  /\ \/ UNCHANGED disk
     \/ at = "write" /\ disk' = [disk EXCEPT ![Head(todo)] = Cut]
  /\ (Failed \/ (Ended /\ UNCHANGED done))
  /\ UNCHANGED <<dirs, git, installed, mine, runs, edits>>

\* The user upgrades.
Upgrade ==
  /\ at = "off" /\ edits < MaxEdits /\ edits' = edits + 1
  /\ installed' = installed + 1 /\ done' = {}
  /\ UNCHANGED <<disk, dirs, git, at, todo, asked, out, mine, cut, runs, failures>>

\* The user, or the host, changes a file: another server or hook, a line, a
\* key in the section of contextmaxxer, a binary of their own in a hook, or
\* the file is mended.
Changed(f, c) ==
  IF c.is = "json"
  THEN {[c EXCEPT !.servers = @ \union {Server("new", 0, FALSE)}],
        [c EXCEPT !.hooks = <<Hook("PreToolUse", "Grep|Glob", "new", 0, FALSE)>> \o @]}
       \union {[c EXCEPT !.hooks[i].bin = 0] : i \in DOMAIN c.hooks}
  ELSE IF c.is = "lines" THEN {Lines(Append(c.lines, Line("text", "new", 0)))}
  ELSE IF f \in ServerFiles \union HookFiles THEN {Json({}, <<>>, FALSE, FALSE)} ELSE {Lines(<<>>)}

UserEdits(f) ==
  /\ at = "off" /\ edits < MaxEdits /\ edits' = edits + 1
  /\ \E c \in Changed(f, disk[f]) :
       /\ disk' = [disk EXCEPT ![f] = c] /\ mine' = [mine EXCEPT ![f] = Items(c)]
  /\ done' = {} /\ cut' = cut \ {f}
  /\ UNCHANGED <<dirs, git, installed, at, todo, asked, out, runs, failures>>

Next ==
  \/ RunInit(DetectHosts) \/ \E h \in {"claude-code", "cursor", "codex"} : RunInit({h})
  \/ Load \/ Open \/ Write \/ Fails
  \/ Upgrade \/ \E f \in Files : UserEdits(f)

Spec == Init /\ [][Next]_vars

-----------------------------------------------------------------------------
(* Properties.                                                             *)

\* Running init a second time changes nothing, whatever was in the files
\* before the first, failed runs included (the design rule of hostsetup.go).
Idempotent == \A h \in done : \A f \in ToSet(HostFiles(h)) : Same(f, disk[f])

HasHook(f, event, signal) ==
  \E i \in DOMAIN disk[f].hooks : LET h == disk[f].hooks[i]
                                 IN h.event = event /\ h.signal = signal /\ ~h.back

\* A run that ends well leaves each host with one entry of the server, for
\* the binary installed now, with hooks a shell can run, whatever an older
\* version or the user had there, and with the rule of now.
Wired ==
  /\ done \intersect {"claude-code", "cursor"} # {} =>
       \A f \in ServerFiles : (f = ".mcp.json" /\ "claude-code" \in done) \/ (f # ".mcp.json" /\ "cursor" \in done) =>
         {s.bin : s \in {s \in disk[f].servers : s.name = "contextmaxxer"}} = {installed}
  /\ "claude-code" \in done =>
       LET f == ".claude/settings.json"
       IN HasHook(f, "PreToolUse", "pre-search") /\ HasHook(f, "PostToolUse", "post-find")
          /\ HasHook(f, "PostToolUse", "post-search")
  /\ "cursor" \in done => HasHook(".cursor/hooks.json", "beforeShellExecution", "search-signal")
  /\ "codex" \in done =>
       LET toml == disk["~/.codex/config.toml"].lines
           agents == disk["AGENTS.md"].lines
       IN /\ HasHook(".codex/hooks.json", "PreToolUse", "search-signal")
          /\ ValidToml(toml) /\ \A k \in {"command", "args"} : {toml[i].val : i \in KeyLines(toml, k)} = {installed}
          /\ \E i \in DOMAIN agents : SubSeq(agents, i, i + 2) = Block

\* What is the user's in a file stays where it is: other servers and hooks, a
\* matcher or binary of their own, lines of other sections and keys of their
\* own in ours, text around the block (every writer merges; the rule file is
\* of contextmaxxer alone); and the TOML they are in stays valid.
ItemsKept ==
  \A f \in Files \ (cut \union {".cursor/rules"}) : (at = "write" /\ f = Head(todo)) \/ mine[f] \subseteq Items(disk[f])
UsersKept == ItemsKept /\ ValidToml(ReadLines(disk["~/.codex/config.toml"]))

-----------------------------------------------------------------------------
(* What the code does not keep.                                            *)

\* The same when a write was cut off: the file is written in place.
KeptEvenWhenCut == \A f \in Files \ {".cursor/rules"} : at = "write" \/ mine[f] \subseteq Items(disk[f])

\* What the user added to the entry of contextmaxxer, an env say, stays.
ExtraKept == [][\A f \in ServerFiles : disk[f].is = "json" /\ at = "load" =>
                  \A s \in disk[f].servers : s.extra => out' = Absent \/ Head(todo) # f \/ s \in out'.servers]_vars
=============================================================================
