------------------------------- MODULE Config -------------------------------
(***************************************************************************)
(* The configuration of hpulogc: how a file (conf_file.c) or a             *)
(* caller's structure (conf_model.c) becomes a snapshot, and the checks    *)
(* that turn a snapshot into one the runtime may use.  Every operator is   *)
(* pure; Runtime.tla calls them from its actions.                          *)
(*                                                                         *)
(* A file is a sequence of logical lines (Ini.tla models the lexer that    *)
(* produces them):                                                         *)
(*   [kind |-> "section", name |-> n]         a header "[n]"               *)
(*   [kind |-> "kv", key |-> k, value |-> v]  "k = v" with a value         *)
(*   [kind |-> "rule", key |-> k, value |-> v]  the same in "[rules]"      *)
(*   [kind |-> "novalue", key |-> k]          "k ="                        *)
(*   [kind |-> "bad"]                         no '=', no key, unreadable   *)
(* A value is what the section parser makes of its text: a keyword, an     *)
(* integer (what strtol returns), a size <<n, suffix>>, or the sequence of *)
(* a comma-separated list.  Long stands for every text that exceeds its    *)
(* buffer.  Indices start at 1; 0 is the code's -1.                        *)
(***************************************************************************)
EXTENDS Integers, SequencesExt, TLC

CONSTANTS
    Features,       \* compiled-in options, of {"async", "throttle", "hot_reload", "source_loc"}
    Lockfree,       \* HPULOGC_LOCKFREE
    Concurrency,    \* "spsc", "mpsc" or "mpmc"
    SinkTypes,      \* sink types the registry knows
    MaxOutputs,     \* HPULOGC_MAX_OUTPUTS
    MaxRules,       \* HPULOGC_MAX_RULES
    NormalForm      \* hpu_path_normalize, as a function of the paths in use

Long == "a text longer than its buffer"

TRACE == 0
FATAL == 5
OFF == 6

\* enum hpulogc_sections: the rank of a section in a file
g_section_names == <<"build", "global", "formats", "outputs", "buffer",
                     "async", "throttle", "rules", "advanced">>
SEC_NONE == 0

Builtins == <<"minimal", "standard", "categorized", "detailed", "json">>

HPU_MAX_CONSUMERS == 16
CONF_BUFFER_MIN == 4 * 1024
CONF_BUFFER_MAX == 1024 * 1024 * 1024
MAX_SINK_KV == 32

-----------------------------------------------------------------------------
(* Values *)

Bool == [true |-> TRUE, false |-> FALSE]
OnOff == [on |-> TRUE, off |-> FALSE]
Levels == [trace |-> 0, debug |-> 1, info |-> 2, warn |-> 3,
           error |-> 4, fatal |-> 5, off |-> 6]
IdFormats == [decimal |-> "decimal", hex |-> "hex", none |-> "none"]

Keywords(S) == [w \in S |-> w]      \* a keyword that stands for itself

Clamp(v, lo, hi) == IF v < lo THEN lo ELSE IF v > hi THEN hi ELSE v

SizeUnits == [bytes |-> 1, k |-> 1000, kb |-> 1024, m |-> 1000000,
              mb |-> 1048576, g |-> 1000000000, gb |-> 1073741824]

\* v is <<number, suffix>>; -1 when the suffix is none of the six
parse_size(v) ==
    IF v[2] \in DOMAIN SizeUnits THEN v[1] * SizeUnits[v[2]] ELSE -1

-----------------------------------------------------------------------------
(* The snapshot (hpu_conf_t) *)

hpu_conf_defaults ==
    [level |-> Levels.info, default_format |-> "standard",
     default_output_names |-> <<>>, default_output_idx |-> <<>>,
     use_utc |-> FALSE, timestamp_source |-> "realtime",
     time_format |-> "default", newline_style |-> "auto",
     pid_fmt |-> "decimal", tid_fmt |-> "decimal",
     capture_source_loc |-> TRUE, strict_init |-> TRUE,
     hot_reload_interval |-> 5, signal_reload |-> FALSE,
     buffer_size |-> 1024 * 1024, overflow_policy |-> "discard",
     batch_size |-> 64, flush_interval_ms |-> 100,
     shutdown_timeout_ms |-> 5000, consumer_threads |-> 1,
     global_rate |-> 0, per_category_rate |-> 0, burst |-> 100,
     sampling_n |-> 1,
     escape_injection |-> TRUE, max_log_length |-> 4096,
     truncation_marker |-> "...[TRUNCATED]", fork_behavior |-> "reinit",
     signal_safe |-> FALSE, crash_safety |-> "shutdown",
     stats_interval |-> 0, stats_output_file |-> FALSE, stats_file |-> "",
     formats |-> Builtins, outputs |-> <<>>, rules |-> <<>>]

\* 4 x uint64, 4 x uint32, 4 x uint16, then text, location and slack
max_record_size(max_log_length) == 56 + max_log_length + 256 + 512 + 256 + 8

\* the output `key = type` of a file before its parameters are read
new_output(name, type) ==
    [name |-> name, enabled |-> TRUE, async |-> FALSE, queue_size |-> 0,
     type |-> IF type \in {"console", "file"} THEN type ELSE "generic",
     type_name |-> type, kv |-> <<>>,
     stream |-> "stdout", color |-> FALSE, path |-> "",
     rotate |-> "none", max_size |-> 0, time_unit |-> "hour",
     max_files |-> 0, fsync |-> FALSE, symlink_latest |-> FALSE,
     rotate_naming |-> "", file_mode |-> 420, dir_mode |-> 493]

\* conf_parser_t: the snapshot being filled and where the parser stands
NewParser(strict) ==
    [c |-> hpu_conf_defaults, strict |-> strict, cur_section |-> SEC_NONE,
     seen |-> {}, err |-> FALSE]

parse_fail(ps) == [ps EXCEPT !.err = TRUE]
UnknownKey(ps) == IF ps.strict THEN parse_fail(ps) ELSE ps
Put(ps, field, v) == [ps EXCEPT !.c[field] = v]

\* Tables of the uniform keys: <<field, keyword table>>, <<field, lo, hi>>
ParseKeyword(ps, entry, v) ==
    IF v \in DOMAIN entry[2] THEN Put(ps, entry[1], entry[2][v])
    ELSE parse_fail(ps)
ParseClamped(ps, entry, v) == Put(ps, entry[1], Clamp(v, entry[2], entry[3]))
ParseText(ps, field, v) ==
    IF v = Long THEN parse_fail(ps) ELSE Put(ps, field, v)

hpu_conf_find_output(c, name) ==
    SelectInSeq(c.outputs, LAMBDA o: o.name = name)
hpu_conf_find_format(c, name) == \E i \in DOMAIN c.formats: c.formats[i] = name

-----------------------------------------------------------------------------
(* The section parsers of conf_file.c *)

GlobalKeywords ==
    ("strict init"      :> <<"strict_init", Bool>>) @@
    ("level"            :> <<"level", Levels>>) @@
    ("timezone"         :> <<"use_utc", [utc |-> TRUE, local |-> FALSE]>>) @@
    ("timestamp source" :> <<"timestamp_source", Keywords({"realtime", "monotonic"})>>) @@
    ("newline"          :> <<"newline_style", Keywords({"auto", "lf", "crlf"})>>) @@
    ("pid format"       :> <<"pid_fmt", IdFormats>>) @@
    ("tid format"       :> <<"tid_fmt", IdFormats>>)

\* keys a build without the feature accepts and ignores
GlobalFeatureKeys ==
    ("capture source loc" :> <<"source_loc", "capture_source_loc">>) @@
    ("signal reload"      :> <<"hot_reload", "signal_reload">>)

GlobalTexts == ("default format" :> "default_format") @@
               ("time format" :> "time_format")

\* the list is appended to the names of earlier "default outputs" lines
AppendDefaultOutputs(ps, value) ==
    LET names == ps.c.default_output_names \o SelectSeq(value, LAMBDA n: n # "")
    IN IF Len(names) > MaxOutputs THEN parse_fail(ps)
       ELSE Put(ps, "default_output_names", names)

parse_global(ps, key, value) ==
    CASE key \in DOMAIN GlobalKeywords ->
             ParseKeyword(ps, GlobalKeywords[key], value)
      [] key \in DOMAIN GlobalTexts -> Put(ps, GlobalTexts[key], value)
      [] key \in DOMAIN GlobalFeatureKeys ->
             LET entry == GlobalFeatureKeys[key]
             IN IF entry[1] \in Features
                THEN ParseKeyword(ps, <<entry[2], Bool>>, value) ELSE ps
      [] key = "default outputs" -> AppendDefaultOutputs(ps, value)
      [] key = "encoding" ->
             IF value \in {"utf-8", "utf8"} THEN ps ELSE parse_fail(ps)
      [] key = "hot reload interval" ->
             ParseClamped(ps, <<"hot_reload_interval", 0, 86400>>, value)
      [] OTHER -> UnknownKey(ps)

\* value is the template; "bad template" is one hpu_format_compile refuses
parse_formats(ps, key, value) ==
    IF \/ key = Long \/ value \in {Long, "bad template"}
       \/ hpu_conf_find_format(ps.c, key)
    THEN parse_fail(ps)
    ELSE Put(ps, "formats", Append(ps.c.formats, key))

CommonKeywords == ("enabled" :> <<"enabled", Bool>>) @@
                  ("async"   :> <<"async", OnOff>>)
QUEUE_MIN == 64 * 1024
QUEUE_MAX == 16 * 1024 * 1024

FlatKeywords ==
    ("stream"         :> <<"stream", Keywords({"stdout", "stderr"})>>) @@
    ("color"          :> <<"color", Bool>>) @@
    ("rotate"         :> <<"rotate", Keywords({"none", "size", "time", "both"})>>) @@
    ("time unit"      :> <<"time_unit", Keywords({"hour", "day", "week", "month"})>>) @@
    ("fsync"          :> <<"fsync", Bool>>) @@
    ("symlink latest" :> <<"symlink_latest", Bool>>)
FlatTexts == ("path" :> "path") @@ ("rotate naming" :> "rotate_naming")
Perms == ("file perms" :> "file_mode") @@ ("dir perms" :> "dir_mode")

Bad == [name |-> Long]              \* an output definition that is refused
KeywordOr(o, entry, v) ==
    IF v \in DOMAIN entry[2] THEN [o EXCEPT ![entry[1]] = entry[2][v]] ELSE Bad

\* the keys the core consumes for every shape of output
common_param(o, k, v) ==
    CASE k \in DOMAIN CommonKeywords -> KeywordOr(o, CommonKeywords[k], v)
      [] k = "queue size" ->
             IF parse_size(v) < 0 THEN Bad
             ELSE [o EXCEPT !.queue_size = Clamp(parse_size(v), QUEUE_MIN, QUEUE_MAX)]

\* every other key of a registered sink is kept for its configure callback
generic_param(o, k, v) ==
    IF Len(o.kv) >= MAX_SINK_KV \/ v = Long THEN Bad
    ELSE [o EXCEPT !.kv = Append(@, <<k, v>>)]

flat_param(o, k, v, strict) ==
    CASE k \in DOMAIN FlatKeywords -> KeywordOr(o, FlatKeywords[k], v)
      [] k \in DOMAIN FlatTexts ->
             IF v = Long THEN Bad ELSE [o EXCEPT ![FlatTexts[k]] = v]
      [] k = "max size" ->
             IF parse_size(v) < 0 THEN Bad ELSE [o EXCEPT !.max_size = parse_size(v)]
      [] k = "max files" -> [o EXCEPT !.max_files = Clamp(v, 0, 100000)]
      [] k \in DOMAIN Perms -> [o EXCEPT ![Perms[k]] = v % 4096]
      [] OTHER -> IF strict THEN Bad ELSE o

output_param(o, p, strict) ==
    CASE o = Bad \/ Len(p) = 1 -> Bad            \* <<k>>: missing '='
      [] OTHER ->
         CASE p[1] \in DOMAIN CommonKeywords \cup {"queue size"} ->
                  common_param(o, p[1], p[2])
           [] o.type = "generic" -> generic_param(o, p[1], p[2])
           [] OTHER -> flat_param(o, p[1], p[2], strict)

\* a console or file output gets the default archive name; a file needs a path
CompleteOutput(o) ==
    CASE o = Bad \/ o.type = "generic" -> o
      [] o.type = "file" /\ o.path = "" -> Bad
      [] OTHER -> IF o.rotate_naming = ""
                  THEN [o EXCEPT !.rotate_naming = "default"] ELSE o

\* value is [type, params], params a sequence of <<k, v>>
parse_outputs(ps, key, value) ==
    LET known == value.type \in {"console", "file", "syslog", "null"} \cup SinkTypes
        o == CompleteOutput(
                 FoldLeft(LAMBDA acc, p: output_param(acc, p, ps.strict),
                          new_output(key, value.type), value.params))
    IN IF \/ hpu_conf_find_output(ps.c, key) # 0 \/ key = Long
          \/ Len(ps.c.outputs) >= MaxOutputs \/ ~known \/ o = Bad
       THEN parse_fail(ps)
       ELSE Put(ps, "outputs", Append(ps.c.outputs, o))

parse_buffer(ps, key, value) ==
    CASE key = "buffer size" ->
             IF parse_size(value) < 0 THEN parse_fail(ps)
             ELSE Put(ps, "buffer_size",
                      Clamp(parse_size(value), CONF_BUFFER_MIN, CONF_BUFFER_MAX))
      [] key = "overflow policy" ->
             ParseKeyword(ps, <<"overflow_policy",
                                Keywords({"discard", "overwrite", "wait"})>>, value)
      [] OTHER -> UnknownKey(ps)

AsyncInts ==
    ("batch size"       :> <<"batch_size", 1, 65535>>) @@
    ("flush interval"   :> <<"flush_interval_ms", 1, 60000>>) @@
    ("shutdown timeout" :> <<"shutdown_timeout_ms", 0, 3600000>>) @@
    ("consumer threads" :> <<"consumer_threads", 1, HPU_MAX_CONSUMERS>>)

parse_async(ps, key, value) ==
    IF key \in DOMAIN AsyncInts THEN ParseClamped(ps, AsyncInts[key], value)
    ELSE UnknownKey(ps)

ThrottleInts ==
    ("global rate limit"       :> <<"global_rate", 0, 1000000000>>) @@
    ("per category rate limit" :> <<"per_category_rate", 0, 1000000000>>) @@
    ("burst size"              :> <<"burst", 1, 1000000000>>)

\* the sampling rate, in thousandths, becomes the divisor N of "one in N"
sampling_n(rate) ==
    LET d == Clamp(rate, 0, 1000) IN IF d = 0 THEN 0 ELSE (2000 + d) \div (2 * d)

parse_throttle(ps, key, value) ==
    CASE key \in DOMAIN ThrottleInts -> ParseClamped(ps, ThrottleInts[key], value)
      [] key = "sampling rate" -> Put(ps, "sampling_n", sampling_n(value))
      [] OTHER -> UnknownKey(ps)

\* part is [neg, lo, hi]: "*", "LEVEL", "!LEVEL" or "LO~HI" (hi "" if absent);
\* the result is <<min, max>>, or <<>> when the text is refused
parse_rule_levels(part) ==
    CASE part.neg /\ (part.lo = "*" \/ part.hi # "") -> <<>>
      [] part.lo = "*" /\ part.hi = "" -> <<TRACE, FATAL>>
      [] part.lo \notin DOMAIN Levels -> <<>>
      [] part.hi = "" -> <<Levels[part.lo], Levels[part.lo]>>
      [] part.hi \notin DOMAIN Levels -> <<>>
      [] OTHER -> <<Levels[part.lo], Levels[part.hi]>>

\* key is [sel, neg, lo, hi] (sel "" when the dot or the selector is missing),
\* value the format name followed by output names
parse_rules(ps, key, value) ==
    LET levels == parse_rule_levels(key)
        names == SelectSeq(Tail(value), LAMBDA n: n # "")
        rule == [category |-> key.sel, min_level |-> levels[1],
                 max_level |-> levels[2], negate_level |-> key.neg,
                 format_name |-> Head(value),
                 output_idx |-> [i \in DOMAIN names |->
                                     hpu_conf_find_output(ps.c, names[i])]]
    IN IF \/ Len(ps.c.rules) >= MaxRules \/ key.sel \in {"", Long}
          \/ levels = <<>> \/ levels[1] > levels[2]
          \/ Head(value) = Long \/ Len(names) > MaxOutputs
       THEN parse_fail(ps)
       ELSE Put(ps, "rules", Append(ps.c.rules, rule))

AdvancedKeywords ==
    ("escape injection" :> <<"escape_injection", Bool>>) @@
    ("fork behavior"    :> <<"fork_behavior", Keywords({"reinit", "disable", "inherit"})>>) @@
    ("signal safe"      :> <<"signal_safe", Bool>>) @@
    ("crash safety"     :> <<"crash_safety",
                             Keywords({"none", "periodic", "entry", "shutdown"})>>) @@
    ("stats output"     :> <<"stats_output_file", [stderr |-> FALSE, file |-> TRUE]>>)
AdvancedInts == ("max log length" :> <<"max_log_length", 256, 65536>>) @@
                ("stats interval" :> <<"stats_interval", 0, 86400>>)
AdvancedTexts == ("truncation marker" :> "truncation_marker") @@
                 ("stats file" :> "stats_file")

parse_advanced(ps, key, value) ==
    CASE key \in DOMAIN AdvancedKeywords ->
             ParseKeyword(ps, AdvancedKeywords[key], value)
      [] key \in DOMAIN AdvancedInts -> ParseClamped(ps, AdvancedInts[key], value)
      [] key \in DOMAIN AdvancedTexts -> ParseText(ps, AdvancedTexts[key], value)
      [] OTHER -> UnknownKey(ps)

\* a mismatch with the build is only reported; a bad boolean is an error
parse_build(ps, key, value) ==
    IF key \in {"lockfree", "has async", "has color", "has rotate",
                "has hot reload", "has category", "has throttle", "has ini"}
       /\ value \notin DOMAIN Bool
    THEN parse_fail(ps) ELSE ps

parse_key_value(ps, key, value) ==
    IF ps.cur_section = SEC_NONE THEN parse_fail(ps)
    ELSE CASE g_section_names[ps.cur_section] = "build" -> parse_build(ps, key, value)
           [] g_section_names[ps.cur_section] = "global" -> parse_global(ps, key, value)
           [] g_section_names[ps.cur_section] = "formats" -> parse_formats(ps, key, value)
           [] g_section_names[ps.cur_section] = "outputs" -> parse_outputs(ps, key, value)
           [] g_section_names[ps.cur_section] = "buffer" -> parse_buffer(ps, key, value)
           [] g_section_names[ps.cur_section] = "async" ->
                  IF "async" \in Features THEN parse_async(ps, key, value) ELSE ps
           [] g_section_names[ps.cur_section] = "throttle" ->
                  IF "throttle" \in Features THEN parse_throttle(ps, key, value) ELSE ps
           [] g_section_names[ps.cur_section] = "rules" -> parse_rules(ps, key, value)
           [] g_section_names[ps.cur_section] = "advanced" -> parse_advanced(ps, key, value)

\* sections appear once, in the order of g_section_names
EnterSection(ps, name) ==
    LET rank == SelectInSeq(g_section_names, LAMBDA n: n = name)
    IN IF rank = 0 \/ rank \in ps.seen \/ ps.cur_section >= rank
       THEN parse_fail(ps)
       ELSE [ps EXCEPT !.cur_section = rank, !.seen = @ \cup {rank}]

conf_line_cb(ps, line) ==
    CASE ps.err -> ps
      [] line.kind = "section" -> EnterSection(ps, line.name)
      [] line.kind \in {"kv", "rule"} -> parse_key_value(ps, line.key, line.value)
      [] line.kind = "novalue" /\ line.key = "default outputs" ->
             parse_key_value(ps, line.key, <<>>)
      [] OTHER -> parse_fail(ps)

\* the pre-scan: the first valid "strict init", in whatever section it stands
strict_scan_cb(lines) ==
    LET hits == SelectSeq(lines, LAMBDA l: l.kind = "kv" /\ l.key = "strict init"
                                          /\ l.value \in DOMAIN Bool)
    IN IF hits = <<>> THEN TRUE ELSE Bool[Head(hits).value]

\* strict is TRUE, FALSE or, for the code's -1, the file's own choice
hpu_conf_load_file(lines, strict) ==
    FoldLeft(conf_line_cb,
             NewParser(IF strict = "from file" THEN strict_scan_cb(lines)
                       ELSE strict = "yes"),
             lines)

-----------------------------------------------------------------------------
(* A caller's structure (hpu_conf_from_code).  Its outputs are named out0,  *)
(* out1, ... by position; "" stands for a NULL string.                      *)

CodeOutput(src, i) ==
    [new_output("out" \o ToString(i - 1), src.type) EXCEPT
        !.stream = src.stream, !.path = src.path, !.rotate = src.rotate,
        !.max_size = src.max_size,
        !.rotate_naming = IF src.type = "file" THEN src.rotate_naming ELSE ""]

CodeOutputOk(src) ==
    CASE src.type = "file" -> /\ src.path \notin {"", Long}
                              /\ src.rotate_naming # Long
                              /\ src.rotate \in {"size", "both"} => src.max_size > 0
      [] src.type = "console" -> src.stream \in {"stdout", "stderr"}
      [] OTHER -> FALSE

CodeRule(src, outputs) ==
    [category |-> IF src.category = "" THEN "*" ELSE src.category,
     min_level |-> src.min_level, max_level |-> src.max_level,
     negate_level |-> FALSE, format_name |-> src.format,
     output_idx |-> [k \in DOMAIN src.outputs |->
                       SelectInSeq(outputs, LAMBDA o: o.name = src.outputs[k])]]

CodeRuleOk(src, outputs) ==
    /\ src.min_level <= src.max_level
    /\ src.min_level >= TRACE /\ src.max_level <= OFF
    /\ src.format \in ToSet(Builtins)
    /\ src.category # Long
    /\ Len(src.outputs) <= MaxOutputs
    /\ \A k \in DOMAIN src.outputs: \E i \in DOMAIN outputs:
           outputs[i].name = src.outputs[k]

\* first raise: to two records of the length the defaults allow, or the minimum
RaiseBuffer(size, max_log_length) ==
    LET need == 2 * max_record_size(max_log_length)
    IN IF size < need \/ size < CONF_BUFFER_MIN
       THEN IF need > CONF_BUFFER_MIN THEN need ELSE CONF_BUFFER_MIN
       ELSE size

\* second raise, once the caller's own max_log_length is known
ReraiseBuffer(size, max_log_length) ==
    LET need == 2 * max_record_size(max_log_length)
    IN IF size < need THEN need ELSE size

\* a generic sink declaration; here "queue size" is taken as it is
CodeSinkParam(o, p) ==
    CASE p[1] = "enabled" -> [o EXCEPT !.enabled = p[2] \in {"true", "on"}]
      [] p[1] = "async" -> [o EXCEPT !.async = p[2] \in {"true", "on"}]
      [] p[1] = "queue size" -> [o EXCEPT !.queue_size = parse_size(p[2])]
      [] OTHER -> [o EXCEPT !.kv = Append(@, p)]
CodeSink(d) == FoldLeft(CodeSinkParam, new_output(d.name, d.type), d.params)
CodeSinkOk(d) ==
    /\ {d.name, d.type} \cap {"", Long} = {}
    /\ Len(d.params) <= MAX_SINK_KV
    /\ CodeSink(d).queue_size >= 0

CodeOutputs(cfg) == [i \in DOMAIN cfg.outputs |-> CodeOutput(cfg.outputs[i], i)]

\* the strict checks of a caller's structure: nothing is clamped
CodeConfigOk(cfg) ==
    /\ cfg.level \in TRACE .. OFF
    /\ cfg.default_format # Long
    /\ Len(cfg.default_outputs) <= MaxOutputs
    /\ \A i \in DOMAIN cfg.default_outputs: cfg.default_outputs[i] \notin {"", Long}
    /\ Len(cfg.outputs) + Len(cfg.sinks) <= MaxOutputs
    /\ \A i \in DOMAIN cfg.outputs: CodeOutputOk(cfg.outputs[i])
    /\ Len(cfg.rules) <= MaxRules
    /\ \A i \in DOMAIN cfg.rules: CodeRuleOk(cfg.rules[i], CodeOutputs(cfg))
    /\ cfg.buffer_size <= CONF_BUFFER_MAX
    /\ cfg.overflow_policy \in {"discard", "overwrite", "wait"}
    /\ cfg.crash_safety \in {"none", "periodic", "entry", "shutdown"}
    /\ cfg.batch_size \in 1 .. 65535
    /\ cfg.flush_interval_ms \in 1 .. 60000
    /\ \A i \in DOMAIN cfg.sinks: CodeSinkOk(cfg.sinks[i])
    /\ cfg.consumer_threads \in 1 .. HPU_MAX_CONSUMERS
    /\ cfg.max_log_length \in {0} \cup 256 .. 65536
    /\ cfg.truncation_marker # Long

\* rules are resolved before the generic sinks join the outputs
hpu_conf_from_code(cfg) ==
    LET d == hpu_conf_defaults
        log == IF cfg.max_log_length = 0 THEN d.max_log_length ELSE cfg.max_log_length
        size == IF cfg.buffer_size = 0 THEN d.buffer_size ELSE cfg.buffer_size
        Or(given, default) == IF given = "" THEN default ELSE given
    IN [d EXCEPT
          !.level = cfg.level,
          !.default_format = Or(cfg.default_format, @),
          !.default_output_names = cfg.default_outputs,
          !.outputs = CodeOutputs(cfg) \o [i \in DOMAIN cfg.sinks |-> CodeSink(cfg.sinks[i])],
          !.rules = [i \in DOMAIN cfg.rules |-> CodeRule(cfg.rules[i], CodeOutputs(cfg))],
          !.buffer_size = ReraiseBuffer(RaiseBuffer(size, d.max_log_length), log),
          !.overflow_policy = cfg.overflow_policy,
          !.batch_size = cfg.batch_size,
          !.flush_interval_ms = cfg.flush_interval_ms,
          !.shutdown_timeout_ms = cfg.shutdown_timeout_ms,
          !.consumer_threads = cfg.consumer_threads,
          !.escape_injection = cfg.escape_injection,
          !.max_log_length = log,
          !.truncation_marker = Or(cfg.truncation_marker, @),
          !.crash_safety = cfg.crash_safety,
          !.signal_safe = cfg.signal_safe]

hpulogc_config_default ==
    [level |-> Levels.info, default_format |-> "", default_outputs |-> <<>>,
     outputs |-> <<>>, rules |-> <<>>, sinks |-> <<>>,
     buffer_size |-> 1024 * 1024, overflow_policy |-> "discard",
     batch_size |-> 64, flush_interval_ms |-> 100,
     shutdown_timeout_ms |-> 5000, consumer_threads |-> 1,
     escape_injection |-> TRUE, max_log_length |-> 4096,
     truncation_marker |-> "", crash_safety |-> "shutdown",
     signal_safe |-> FALSE]

\* saved_cfg_copy keeps a deep copy for a forked child, but these two members
\* still point into the storage of the caller of hpulogc_init
Borrowed(cfg) == (IF cfg.sinks = <<>> THEN {} ELSE {"sinks"})
                 \cup (IF cfg.truncation_marker = "" THEN {} ELSE {"truncation_marker"})

\* init_default: the defaults and one coloured console on stderr
conf_add_default_console ==
    [hpu_conf_defaults EXCEPT
        !.outputs = <<[new_output("stderr", "console") EXCEPT
                          !.stream = "stderr", !.color = TRUE]>>,
        !.default_output_names = <<"stderr">>]

-----------------------------------------------------------------------------
(* Finalization: the checks that precede the opening of outputs *)

check_overflow_policy(c) ==
    "async" \in Features /\ Lockfree =>
        /\ c.overflow_policy # "wait"
        /\ Concurrency # "spsc" => c.overflow_policy # "overwrite"

check_consumer_threads(c) ==
    c.consumer_threads > 1 => "async" \in Features /\ Concurrency = "mpmc"

check_dup_paths(c) ==
    \A i, k \in DOMAIN c.outputs:
        i < k /\ c.outputs[i].type = "file" /\ c.outputs[k].type = "file" =>
            NormalForm[c.outputs[i].path] # NormalForm[c.outputs[k].path]

\* "fixed" stands for a template with neither {index} nor {timestamp}
check_naming(c) == \A i \in DOMAIN c.outputs: c.outputs[i].rotate_naming # "fixed"

resolve_default_outputs(c) ==
    [c EXCEPT !.default_output_idx =
        [i \in DOMAIN c.default_output_names |->
            hpu_conf_find_output(c, c.default_output_names[i])]]

resolve_rules(c) ==
    \A i \in DOMAIN c.rules:
        /\ hpu_conf_find_format(c, c.rules[i].format_name)
        /\ \A k \in DOMAIN c.rules[i].output_idx:
               c.rules[i].output_idx[k] \in DOMAIN c.outputs

\* hpu_conf_finalize with dry_run: every check, no output opened
hpu_conf_finalize_impl(c) ==
    /\ hpu_conf_find_format(c, c.default_format)
    /\ check_overflow_policy(c)
    /\ check_consumer_threads(c)
    /\ check_dup_paths(c)
    /\ check_naming(c)
    /\ \A i \in DOMAIN c.default_output_names:
           resolve_default_outputs(c).default_output_idx[i] # 0
    /\ resolve_rules(c)

\* a mistake in the second list: one of the checks is missing
WithoutPaths(fresh) ==
    /\ hpu_conf_find_format(fresh, fresh.default_format)
    /\ check_overflow_policy(fresh) /\ check_consumer_threads(fresh) /\ check_naming(fresh)
    /\ \A i \in DOMAIN fresh.default_output_names:
           resolve_default_outputs(fresh).default_output_idx[i] # 0
    /\ resolve_rules(fresh)

\* the same list of checks, written a second time for a reload
FinalizeReloadChecks(fresh) ==
    /\ hpu_conf_find_format(fresh, fresh.default_format)
    /\ check_overflow_policy(fresh)
    /\ check_consumer_threads(fresh)
    /\ check_dup_paths(fresh)
    /\ check_naming(fresh)
    /\ \A i \in DOMAIN fresh.default_output_names:
           resolve_default_outputs(fresh).default_output_idx[i] # 0
    /\ resolve_rules(fresh)

conf_kv_equal(a, b) == a.kv = b.kv

\* a mistake: one path, whatever its rotation
SamePath(oo, fo) == oo.path = fo.path

\* the parameters that must agree before a reload keeps a file open
SameFile(oo, fo) ==
    /\ \A field \in {"path", "rotate", "max_size", "time_unit", "max_files", "fsync",
                     "symlink_latest", "file_mode", "dir_mode", "rotate_naming"}:
           oo[field] = fo[field]
    /\ conf_kv_equal(oo, fo)

\* reuse_old_idx: for each output of fresh the first open file output of old
\* that matches, or 0; opened are the outputs of old that have a handle
ReusePlan(fresh, old, opened) ==
    [i \in DOMAIN fresh.outputs |->
        IF fresh.outputs[i].type # "file" THEN 0
        ELSE LET js == {j \in opened:
                          /\ old.outputs[j].type = "file"
                          /\ SameFile(old.outputs[j], fresh.outputs[i])}
             IN IF js = {} THEN 0 ELSE Min(js)]

\* hpulogc_conf_validate: a dry run of what init_from_file does to a file
hpulogc_conf_validate(lines, strict) ==
    LET ps == hpu_conf_load_file(lines, strict)
    IN ~ps.err /\ hpu_conf_finalize_impl(ps.c)
=============================================================================
