---------------------------- MODULE MCHostSetup ----------------------------
(* Instances of HostSetup.  The files of one host at a time vary: those of *)
(* a fresh checkout, of the user alone, of an install before the fixes,    *)
(* and of one the user has made their own.                                 *)
EXTENDS HostSetup

Fresh == [f \in Files |-> Absent]
Other == Server("other", 0, FALSE)
Gate(matcher, bin, back) == Hook("PreToolUse", matcher, "pre-search", bin, back)
Find(bin, back) == Hook("PostToolUse", "find_context", "post-find", bin, back)
User == Hook("PreToolUse", "Grep|Glob", "user", 0, TRUE)
Toml(ls) == Lines(<<Line("key", "model", 7)>> \o ls \o <<Line("header", "other", 0), Line("key", "command", 7)>>)
Head1 == Line("header", "contextmaxxer", 0)
Text(n) == Line("text", n, 0)

Claude == [f : {".mcp.json"}, c : {Json({Other}, <<>>, FALSE, FALSE), Json({Other, Server("contextmaxxer", 0, FALSE)}, <<>>, FALSE, FALSE), Cut}]
          \union [f : {".claude/settings.json"},
                   c : {Json({}, <<User>>, FALSE, FALSE),
                        Json({}, <<User, Gate("Grep|Glob", 0, TRUE), Find(0, TRUE)>>, FALSE, FALSE),
                        Json({}, <<Gate("Bash", 0, FALSE), Gate("Grep|Glob", 0, FALSE)>>, FALSE, FALSE)}]
Cursor == [f : {".cursor/mcp.json"}, c : {Json({Other}, <<>>, FALSE, FALSE)}]
          \union [f : {".cursor/rules"}, c : {Lines(<<Line("rule", "ours", 0)>>)}]
          \union [f : {".cursor/hooks.json"},
                   c : {Json({}, <<Hook("beforeShellExecution", "rg", "search-signal", 0, TRUE)>>, FALSE, FALSE), Cut}]
Codex == [f : {"~/.codex/config.toml"},
           c : {Toml(<<>>), Toml(<<Head1, Line("key", "args", 0), Line("open", "env", 7), Line("rest", "env", 7),
                        Line("key", "command", 0)>>),
                Toml(<<Head1, Line("key", "env", 7)>>)}]
         \union [f : {"AGENTS.md"},
                  c : {Lines(<<Text("a")>>), Lines(<<Text("a"), StartMark, Line("rule", "ours", 0), EndMark, Text("b"), EndMark>>),
                       Lines(<<StartMark, Text("a")>>)}]
         \union [f : {".codex/hooks.json"}, c : {Json({}, <<User>>, FALSE, FALSE)}]
Beside(v) == IF v.f = ".mcp.json" THEN {[f |-> ".gitignore", c |-> Lines(<<Text("a")>>)]}
             ELSE {[f |-> ".gitignore", c |-> Lines(<<Text("contextmaxxer")>>)]}
MCStarts == [disk : {Fresh} \union UNION {{[Fresh EXCEPT ![v.f] = v.c, ![w.f] = w.c] : w \in Beside(v)} :
                                         v \in Claude \union Cursor \union Codex},
             dirs : {{".claude"}}, git : {TRUE}]
OneStart(f, c) == [disk : {[Fresh EXCEPT ![f] = c]}, dirs : {{".claude"}}, git : {FALSE}]
ExtraStart == OneStart(".mcp.json", Json({Server("contextmaxxer", 0, TRUE)}, <<>>, FALSE, FALSE))
OddStart == OneStart(".mcp.json", Json({}, <<>>, FALSE, TRUE))
OddHooksStart == OneStart(".claude/settings.json", Json({}, <<>>, FALSE, TRUE))
SpelledStart == OneStart("~/.codex/config.toml", Toml(<<Head1, Line("spelled", "command", 0), Line("key", "args", 0)>>))
LongStart == OneStart("~/.codex/config.toml", Toml(<<Head1, Line("key", "command", 0), Line("open", "args", 0), Line("rest", "args", 0)>>))
HeaderStart == OneStart("~/.codex/config.toml", Toml(<<Line("header", "contextmaxxer", 1), Line("key", "command", 0)>>))
PlainStart == OneStart(".mcp.json", Json({Other}, <<>>, FALSE, FALSE))
=============================================================================
