----------------------------- MODULE MCRuntime -----------------------------
(* A configuration file that changes between five contents, two structures; *)
(* and the lexer that reads it, on two-line texts of a few characters      *)
EXTENDS Runtime

Lexer == INSTANCE Ini WITH MaxLine <- 7, MaxLogical <- 12

LineOf(chars, n) == UNION {[1 .. k -> chars] : k \in 0 .. n}
FirstLines == LineOf({"quote", "hash", "bs", "blank", "text"}, 4)
SecondLines == {<<"text">>, <<"text", "nl">>, <<"bs", "text", "nl">>}

\* a file and a buffer are lexed alike, but for a backslash right before the newline
ASSUME LexersAgree == Lexer!SameLexing(FirstLines, SecondLines)
ASSUME LexersDiffer == Lexer!BackslashHidden(FirstLines, SecondLines)

MCFeatures == {"async", "throttle", "hot_reload", "source_loc"}
MCSinkTypes == {"rollingfile", "tcp"}
MCNormalForm == [p \in {"", "a.log", "./a.log", "b.log"} |-> IF p = "./a.log" THEN "a.log" ELSE p]

Section(n) == [kind |-> "section", name |-> n]
KV(k, v) == [kind |-> "kv", key |-> k, value |-> v]
Output(k, type, params) == KV(k, [type |-> type, params |-> params])
RuleLine(neg, sel, lo, hi, names) ==
    [kind |-> "rule", key |-> [sel |-> sel, neg |-> neg, lo |-> lo, hi |-> hi], value |-> names]
Rule(sel, lo, hi, names) == RuleLine(FALSE, sel, lo, hi, names)
NotLevel(sel, lo, names) == RuleLine(TRUE, sel, lo, "", names)

Big == <<"max size", <<1, "mb">>>>
ByTime == <<"rotate", "time">>

MCFiles ==
    [plain |->      \* a.log and a network sink, rules to both
        <<Section("global"), KV("level", "debug"), KV("default outputs", <<"log", "">>),
          Section("formats"), KV("short", "%m"),
          Section("outputs"),
          Output("log", "file", <<<<"path", "a.log">>, Big>>),
          Output("net", "tcp", <<<<"host", "h">>, <<"queue size", <<1, "kb">>>>, <<"async", "on">>>>),
          Section("rules"), Rule("db.", "warn", "fatal", <<"short", "net">>),
          NotLevel("*", "trace", <<"standard", "log">>)>>,
     moved |->      \* the same file under another name and place; one more output
        <<Section("global"), KV("strict init", "false"), KV("unheard of", "x"),
          KV("signal reload", "true"), KV("default outputs", <<"main">>),
          Section("outputs"),
          Output("con", "console", <<<<"stream", "stderr">>, <<"color", "true">>>>),
          Output("other", "file", <<<<"path", "b.log">>, ByTime>>),
          Output("main", "file", <<<<"path", "a.log">>, Big>>),
          Section("buffer"), KV("buffer size", <<8, "kb">>),
          Section("async"), KV("batch size", 0), KV("flush interval", 70000),
          Section("rules"), Rule("*", "*", "", <<"json", "main", "con">>),
          Section("advanced"), KV("fork behavior", "reinit"), KV("crash safety", "entry")>>,
     resized |->    \* a.log with other rotation parameters
        <<Section("build"), KV("lockfree", "true"),
          Section("outputs"),
          Output("log", "file", <<<<"path", "a.log">>, <<"max size", <<2, "m">>>>,
                                  <<"max files", 3>>, <<"file perms", 438>>>>),
          Section("throttle"), KV("sampling rate", 300), KV("burst size", 0)>>,
     twice |->      \* one file under two spellings of its path
        <<Section("outputs"),
          Output("one", "file", <<<<"path", "a.log">>>>),
          Output("two", "file", <<<<"path", "./a.log">>>>)>>,
     dangling |->   \* a rule to an output that is not there
        <<Section("outputs"), Output("con", "console", <<>>),
          Section("rules"), Rule("*", "info", "", <<"standard", "gone">>)>>,
     unordered |->  \* sections out of order
        <<Section("outputs"), Section("global"), [kind |-> "novalue", key |-> "level"]>>,
     off |->        \* a child process does not log
        <<Section("global"), [kind |-> "novalue", key |-> "default outputs"],
          Section("advanced"), KV("fork behavior", "disable"), KV("max log length", 100)>>,
     shared |->     \* a child process keeps the parent's snapshot
        <<Section("outputs"), Output("con", "console", <<>>),
          Section("advanced"), KV("fork behavior", "inherit")>>]

MCCodes ==
    [small |-> [hpulogc_config_default EXCEPT
                  !.buffer_size = 1, !.max_log_length = 65536,
                  !.outputs = <<[type |-> "file", stream |-> "stdout", path |-> "a.log",
                                 rotate |-> "size", max_size |-> 100, rotate_naming |-> ""]>>,
                  !.rules = <<[category |-> "", min_level |-> 2, max_level |-> 5,
                               format |-> "standard", outputs |-> <<"out0">>]>>,
                  !.sinks = <<[name |-> "net", type |-> "tcp",
                               params |-> <<<<"queue size", <<1, "k">>>>, <<"host", "h">>>>]>>,
                  !.default_outputs = <<"out0", "net">>],
     broken |-> [hpulogc_config_default EXCEPT !.default_outputs = <<"none such">>]]
=============================================================================
