------------------------------ MODULE Runtime ------------------------------
(***************************************************************************)
(* The runtime around the configuration snapshot: init from a structure,   *)
(* from defaults or from a file, hot reload by the watcher thread and by   *)
(* explicit triggers, fork, and shutdown (core.c, hotreload.c).            *)
(*                                                                         *)
(* Threads: "main" owns init, fork and shutdown; Triggers call             *)
(* hpu_core_trigger_reload; "watcher" and "consumer" are the library's;    *)
(* "logger" calls the log functions.  conf_lock protects the snapshot the  *)
(* consumer renders with.  Init runs before any other thread may touch the *)
(* runtime, so it is one action; a reload takes one step per call that     *)
(* another thread can fall between.                                        *)
(*                                                                         *)
(* A handle is named <<s, c, i>>: opened for output i of snapshot s, whose *)
(* content is c.  After a fork the model follows the child: every thread   *)
(* but main is gone.                                                       *)
(***************************************************************************)
EXTENDS Config, FiniteSets

CONSTANTS
    Files,          \* contents the configuration file may have: name -> lines
    Codes,          \* structures passed to hpulogc_init: name -> cfg
    InitFiles,      \* names the file may start with
    EditFiles,      \* names it may be changed to while the library runs
    Triggers,       \* threads that trigger reloads themselves
    Throttled,      \* an HPULOGC_ENABLE_THROTTLE build: loggers read the snapshot
    OpensMayFail,   \* an output may fail to open
    MaxEdits,       \* bound on changes of the file
    MaxTriggers,    \* bound on explicit triggers
    MaxSnaps        \* snapshots the heap has room for; then malloc fails

VARIABLES
    state,          \* g_rt.state
    conf,           \* g_rt.conf: a snapshot, or None
    heap,           \* every snapshot ever allocated
    open,           \* handles the process holds open
    conf_lock,      \* "none" (not initialised), "free", or the holder
    busy,           \* g_reload_busy
    late,           \* threads whose bounded wait for the reload slot has run out
    fast,           \* the snapshot content the lock-free copies were taken from
    source,         \* g_rt.source_path is set
    saved,          \* g_saved_cfg: the name of a structure, or "none"
    watch,          \* [started, exit]: watcher_started, watcher_exit
    stop,           \* consumer_exit
    fork,           \* [child, dirty, disabled, behavior]: fork_child, ...
    forked,         \* this process is the child of a fork that used the library
    pc,             \* where each thread is
    loc,            \* locals of trigger_reload, per reloading thread
    calls,          \* lock acquisitions left in main's current control call
    snap,           \* the pointer the logger's throttle read
    file,           \* content of the configuration file now
    pending,        \* the watcher has not seen the last change of the file
    reported,       \* what became of that change, if it was not applied: the content
                    \* a "reload error" was printed for, or "no slot"
    edits, triggers \* counters for the bounds

vars == <<state, conf, heap, open, conf_lock, busy, late, fast, source, saved, watch,
          stop, fork, forked, pc, loc, calls, snap, file, pending, reported,
          edits, triggers>>

None == 0
Snaps == 1 .. MaxSnaps
Reloaders == Triggers \cup {"watcher"}
Threads == Reloaders \cup {"main", "consumer", "logger"}

\* the configuration a content stands for, with its defaults resolved
FileConf == [f \in DOMAIN Files |-> resolve_default_outputs(hpu_conf_load_file(Files[f], "no").c)]
CodeConf == [k \in DOMAIN Codes |-> resolve_default_outputs(hpu_conf_from_code(Codes[k]))]
DefaultConf == resolve_default_outputs(conf_add_default_console)
ConfOf(content) ==
    CASE content \in DOMAIN Files -> FileConf[content]
      [] content \in DOMAIN Codes -> CodeConf[content]
      [] OTHER -> DefaultConf

\* names of contents and threads are not mistaken for one another
Contents == DOMAIN Files \cup DOMAIN Codes \cup {"default"}
ASSUME RuntimeAssumption ==
    /\ MaxSnaps \in Nat
    /\ Triggers \cap {"main", "watcher", "consumer", "logger", "none", "free"} = {}
    /\ InitFiles \cup EditFiles \subseteq DOMAIN Files
    /\ DOMAIN Files \cap DOMAIN Codes = {}
    /\ {"default", "none"} \cap (DOMAIN Files \cup DOMAIN Codes) = {}

\* the parser and the translation from code fill in the fields of a snapshot and
\* append whole outputs to its list; sizes in a structure are unsigned
ASSUME ContentsTyped ==
    /\ \A content \in Contents:
          LET c == ConfOf(content)
          IN /\ c = [field \in DOMAIN hpu_conf_defaults |-> c[field]]
             /\ c.outputs \in Seq(ToSet(c.outputs))
             /\ \A i \in DOMAIN c.outputs:
                   LET o == c.outputs[i]
                   IN /\ o = [field \in DOMAIN new_output("", "file") |-> o[field]]
                      /\ o.type = "file" => o.type_name = "file"
             /\ c.fork_behavior \in {"reinit", "disable", "inherit"}
    /\ \A k \in DOMAIN Codes: Codes[k].buffer_size \in Nat /\ Codes[k].max_log_length \in Nat

\* whether a load succeeds, for each content and strictness
FileLoads == [f \in DOMAIN Files |-> [strict \in {"yes", "no", "from file"} |->
                  ~hpu_conf_load_file(Files[f], strict).err]]
\* the strict parser refuses more, line by line
ASSUME StrictIsStricter ==
    \A f \in DOMAIN Files, strict \in {"yes", "from file"}:
        FileLoads[f][strict] => FileLoads[f]["no"]
Accepted == [f \in DOMAIN Files |->
                \E strict \in {"yes", "no"}: hpulogc_conf_validate(Files[f], strict)]
Finalizes == [f \in DOMAIN Files |-> hpu_conf_finalize_impl(FileConf[f])]
Reloads == [f \in DOMAIN Files |-> FinalizeReloadChecks(FileConf[f])]
CodeStarts == [k \in DOMAIN Codes |-> CodeConfigOk(Codes[k])
                                      /\ hpu_conf_finalize_impl(CodeConf[k])]

Unused == [st |-> "unused", content |-> "none", slots |-> <<>>]
Free(s) == [heap EXCEPT ![s] = [st |-> "freed", content |-> "none", slots |-> <<>>]]
\* a snapshot no other thread ever saw: its place can be used again
Forget(s) == [heap EXCEPT ![s] = Unused]
NoHandle == <<0, "none", 0>>
Handles(slots) == {slots[i] : i \in DOMAIN slots} \ {NoHandle}
IsLive(s) == s # None /\ heap[s].st = "live"
Unallocated == {s \in Snaps: heap[s].st = "unused"}
NoLocals == [fresh |-> None, live |-> None, plan |-> <<>>, next |-> 0, strict |-> "yes"]

\* the thread that claimed the reload slot; a fork may have left it behind
SlotHeld == \E t \in Reloaders: pc[t] \in {"alloc", "load", "open", "swap"}

\* shutdown has freed the snapshot and destroyed conf_lock under a reload.  What
\* this thread does next is undefined, so neither it nor main moves any more.
Abandoned == SlotHeld /\ conf_lock = "none"

Goto(t, l) == pc' = [pc EXCEPT ![t] = l]

Init ==
    /\ state = "uninit" /\ conf = None /\ heap = [s \in Snaps |-> Unused]
    /\ open = {} /\ conf_lock = "none" /\ busy = FALSE /\ late = {} /\ fast = "none"
    /\ source = FALSE /\ saved = "none" /\ stop = FALSE /\ forked = FALSE
    /\ watch = [started |-> FALSE, exit |-> FALSE]
    /\ fork = [child |-> FALSE, dirty |-> FALSE, disabled |-> FALSE, behavior |-> "none"]
    /\ pc = [t \in Threads |-> CASE t \in {"watcher", "consumer"} -> "none"
                                 [] OTHER -> "out"]
    /\ loc = [t \in Reloaders |-> NoLocals]
    /\ calls = 0 /\ snap = None
    /\ file \in InitFiles /\ pending = FALSE /\ reported = "none" /\ edits = 0 /\ triggers = 0

-----------------------------------------------------------------------------
(* Opening outputs *)

\* what opening every output of a snapshot can leave in its slots: in lenient
\* mode a generic sink whose parameters are refused just stays closed
OpenedSlots(s, content) ==
    LET c == ConfOf(content)
        all == [i \in DOMAIN c.outputs |-> <<s, content, i>>]
        refusable == IF OpensMayFail /\ ~c.strict_init
                     THEN {i \in DOMAIN c.outputs: c.outputs[i].type = "generic"} ELSE {}
    IN {[i \in DOMAIN all |-> IF i \in shut THEN NoHandle ELSE all[i]] :
            shut \in SUBSET refusable}

\* hpu_conf_finalize and hpu_core_start of a content: the snapshot goes live,
\* or an open or a later step fails and nothing is left behind
core_start(s, content, from_file) ==
    \E slots \in OpenedSlots(s, content):
        /\ heap' = [heap EXCEPT ![s] = [st |-> "live", content |-> content, slots |-> slots]]
        /\ open' = open \cup Handles(slots)
        /\ conf' = s
        /\ fast' = content
        /\ state' = "running"
        /\ stop' = FALSE
        \* hpu_hotreload_start does nothing when watcher_started is set
        /\ watch' = IF from_file /\ ~watch.started
                    THEN [started |-> TRUE, exit |-> FALSE] ELSE watch
        /\ pc' = [pc EXCEPT !["consumer"] = "idle",
                            !["watcher"] = IF from_file /\ ~watch.started THEN "top" ELSE @]

CanFail(content) == OpensMayFail /\ ConfOf(content).outputs # <<>>

\* init_common; a failing init leaves an uninitialised runtime
init_common(content, from_file, saved_cfg, valid) ==
    /\ pc["main"] = "out" /\ state = "uninit"
    /\ \E s \in Snaps:
         /\ s = Min(Unallocated)
         /\ \/ /\ valid
               /\ source' = from_file
               /\ saved' = saved_cfg
               /\ conf_lock' = "free"
               /\ fork' = [fork EXCEPT !.behavior = ConfOf(content).fork_behavior]
               /\ core_start(s, content, from_file)
            \/ /\ ~valid \/ CanFail(content)
               /\ saved' = "none"
               /\ UNCHANGED <<heap, source, conf_lock, fork, open, conf, fast, state, stop, watch, pc>>
    /\ UNCHANGED <<busy, late, loc, calls, snap, file, pending, reported, forked, edits,
                   triggers>>

hpulogc_init(k) == /\ Unallocated # {}
                   /\ init_common(k, FALSE, k, CodeStarts[k])

hpulogc_init_default == /\ Unallocated # {}
                        /\ init_common("default", FALSE, saved, TRUE)

hpulogc_init_from_file ==
    /\ Unallocated # {}
    /\ init_common(file, TRUE, saved, FileLoads[file]["from file"] /\ Finalizes[file])

-----------------------------------------------------------------------------
(* Hot reload *)

FreshOf(t) == heap[loc[t].fresh]
Leave(t) == IF t = "watcher" THEN "top" ELSE "out"

reload_call(t) ==
    /\ t \in Triggers /\ pc[t] = "out" /\ triggers < MaxTriggers
    /\ state = "running" /\ source
    /\ triggers' = triggers + 1
    /\ Goto(t, "enter")
    /\ UNCHANGED <<state, conf, heap, open, conf_lock, busy, late, fast, source, saved,
                   watch, stop, fork, loc, calls, snap, file, pending, reported, forked,
                   edits>>

\* a mistake: give up when the slot is taken
TryOnce(t) ==
    /\ pc[t] = "enter"
    /\ busy' = TRUE /\ Goto(t, IF busy THEN Leave(t) ELSE "alloc")
    /\ UNCHANGED <<state, conf, heap, open, conf_lock, late, fast, source, saved, watch,
                   stop, fork, loc, calls, snap, file, pending, reported, forked, edits,
                   triggers>>

\* claim the slot, or give up: the runtime is no longer running, or 5 s have
\* passed; a watcher that gives up has taken note of the change before
reload_try_enter(t) ==
    /\ pc[t] = "enter"
    /\ \/ ~busy /\ busy' = TRUE /\ Goto(t, "alloc") /\ UNCHANGED reported
       \/ /\ busy /\ (state # "running" \/ t \in late)
          /\ Goto(t, Leave(t))
          /\ reported' = IF t = "watcher" /\ t \in late /\ ~pending THEN "no slot" ELSE reported
          /\ UNCHANGED busy
    /\ late' = late \ {t}
    /\ UNCHANGED <<state, conf, heap, open, conf_lock, fast, source, saved, watch,
                   stop, fork, loc, calls, snap, file, pending, forked, edits, triggers>>

\* malloc and the check of the state under the lock
trigger_prepare(t) ==
    /\ pc[t] = "alloc"
    /\ conf_lock = "free"
    /\ \/ /\ state = "running" /\ conf # None
          /\ \E s \in Snaps:
               /\ s = Min(Unallocated \cup {MaxSnaps}) /\ s \in Unallocated
               /\ heap' = [heap EXCEPT ![s] = [st |-> "live", content |-> "none", slots |-> <<>>]]
               /\ loc' = [loc EXCEPT ![t] =
                    [NoLocals EXCEPT !.fresh = s, !.live = conf,
                        !.strict = IF ConfOf(heap[conf].content).strict_init THEN "yes" ELSE "no"]]
          /\ Goto(t, "load") /\ UNCHANGED busy
       \/ /\ state # "running" \/ conf = None \/ Unallocated = {}
          /\ busy' = FALSE /\ Goto(t, Leave(t)) /\ UNCHANGED <<heap, loc>>
    /\ UNCHANGED <<state, conf, open, conf_lock, late, fast, source, saved, watch, stop,
                   fork, calls, snap, file, pending, reported, forked, edits, triggers>>

\* "reload error": the outputs opened so far are closed with the snapshot
Abandon(t, content) ==
    /\ reported' = content
    /\ open' = open \ Handles(FreshOf(t).slots)
    /\ heap' = Forget(loc[t].fresh)
    /\ loc' = [loc EXCEPT ![t] = NoLocals]
    /\ busy' = FALSE
    /\ Goto(t, Leave(t))

\* phase 1: parse, check, plan which files to keep open
finalize_reload(t) ==
    /\ pc[t] = "load"
    /\ \/ /\ FileLoads[file][loc[t].strict] /\ Reloads[file]
          /\ LET old == heap[loc[t].live]
                 opened == {j \in DOMAIN old.slots: old.slots[j] # NoHandle}
                 fresh == FileConf[file]
             IN /\ loc' = [loc EXCEPT ![t].next = 1,
                             ![t].plan = ReusePlan(fresh, ConfOf(old.content), opened)]
                /\ heap' = [heap EXCEPT ![loc[t].fresh] =
                     [st |-> "live", content |-> file,
                      slots |-> [i \in DOMAIN fresh.outputs |-> NoHandle]]]
          /\ Goto(t, "open") /\ UNCHANGED <<busy, open, reported>>
       \/ ~(FileLoads[file][loc[t].strict] /\ Reloads[file]) /\ Abandon(t, file)
    /\ UNCHANGED <<state, conf, conf_lock, late, fast, source, saved, watch, stop, fork,
                   calls, snap, file, pending, forked, edits, triggers>>

\* open the next output that is not kept; any failure rolls back
open_next(t) ==
    LET i == loc[t].next
        h == <<loc[t].fresh, FreshOf(t).content, i>>
    IN /\ pc[t] = "open" /\ i <= Len(loc[t].plan)
       /\ \/ /\ loc[t].plan[i] # 0
             /\ loc' = [loc EXCEPT ![t].next = i + 1]
             /\ UNCHANGED <<heap, open, busy, reported, pc>>
          \/ /\ loc[t].plan[i] = 0
             /\ heap' = [heap EXCEPT ![loc[t].fresh].slots[i] = h]
             /\ open' = open \cup {h}
             /\ loc' = [loc EXCEPT ![t].next = i + 1]
             /\ UNCHANGED <<busy, reported, pc>>
          \/ loc[t].plan[i] = 0 /\ OpensMayFail /\ Abandon(t, FreshOf(t).content)
       /\ UNCHANGED <<state, conf, conf_lock, late, fast, source, saved, watch, stop, fork,
                      calls, snap, file, pending, forked, edits, triggers>>

\* the comparison with live->buffer_size that only warns, then the lock
swap_lock(t) ==
    /\ pc[t] = "open" /\ loc[t].next > Len(loc[t].plan)
    /\ conf_lock = "free" /\ conf_lock' = t
    /\ Goto(t, "swap")
    /\ UNCHANGED <<state, conf, heap, open, busy, late, fast, source, saved, watch, stop,
                   fork, loc, calls, snap, file, pending, reported, forked, edits,
                   triggers>>

\* a mistake: the moved handles are closed with the old snapshot
CloseMoved(t) ==
    LET plan == loc[t].plan
    IN /\ pc[t] = "swap"
       /\ heap' = [Free(conf) EXCEPT ![loc[t].fresh].slots =
                     [i \in DOMAIN @ |-> IF plan[i] \in DOMAIN heap[conf].slots
                                         THEN heap[conf].slots[plan[i]] ELSE @[i]]]
       /\ open' = open \ Handles(heap[conf].slots)
       /\ conf' = loc[t].fresh /\ fast' = FreshOf(t).content
       /\ conf_lock' = "free" /\ busy' = FALSE
       /\ loc' = [loc EXCEPT ![t] = NoLocals]
       /\ Goto(t, Leave(t))
       /\ UNCHANGED <<state, late, source, saved, watch, stop, fork, calls, snap, file,
                      pending, reported, forked, edits, triggers>>

\* phases 2 and 3: move the kept handles, exchange the pointer, free the old
\* snapshot with what is left in its slots
reload_swap(t) ==
    LET fresh == loc[t].fresh
        old == conf
        plan == loc[t].plan
        moved == {plan[i] : i \in DOMAIN plan} \cap DOMAIN heap[old].slots
    IN /\ pc[t] = "swap"
       /\ heap' = [Free(old) EXCEPT ![fresh].slots =
                     [i \in DOMAIN @ |-> IF plan[i] \in DOMAIN heap[old].slots
                                         THEN heap[old].slots[plan[i]] ELSE @[i]]]
       /\ open' = open \ {heap[old].slots[j] : j \in DOMAIN heap[old].slots \ moved}
       /\ conf' = fresh
       /\ fast' = heap[fresh].content
       /\ conf_lock' = "free"
       /\ loc' = [loc EXCEPT ![t] = NoLocals]
       /\ busy' = FALSE
       /\ Goto(t, Leave(t))
       /\ UNCHANGED <<state, late, source, saved, watch, stop, fork, calls, snap, file,
                      pending, reported, forked, edits, triggers>>

hpu_core_trigger_reload(t) ==
    /\ ~Abandoned
    /\ \/ reload_call(t) \/ reload_try_enter(t) \/ trigger_prepare(t)
       \/ finalize_reload(t) \/ open_next(t) \/ swap_lock(t) \/ reload_swap(t)

\* time passes: the 5 s of a thread that waits for the slot, the 6 s of a
\* shutdown that waits for its holder, at any moment of the wait
deadline_passes(t) ==
    /\ pc[t] = IF t = "main" THEN "drain" ELSE "enter"
    /\ busy /\ t \notin late
    /\ late' = late \cup {t}
    /\ UNCHANGED <<state, conf, heap, open, conf_lock, busy, fast, source, saved, watch, stop,
                   fork, forked, pc, loc, calls, snap, file, pending, reported, edits, triggers>>

\* the watcher: exit flag, interval under the lock, wait in slices, exit flag
watcher_loop ==
    /\ \/ pc["watcher"] = "top" /\ watch.exit /\ Goto("watcher", "done") /\ UNCHANGED pending
       \/ /\ pc["watcher"] = "top" /\ ~watch.exit /\ conf_lock = "free"
          /\ Goto("watcher", "wait") /\ UNCHANGED pending
       \/ /\ pc["watcher"] = "wait" /\ watch.exit
          /\ Goto("watcher", "done") /\ UNCHANGED pending
       \/ /\ pc["watcher"] = "wait" /\ ~watch.exit /\ pending /\ pending' = FALSE
          /\ Goto("watcher", "changed")
       \/ /\ pc["watcher"] = "changed"
          /\ Goto("watcher", IF watch.exit THEN "done"
                             ELSE IF state = "running" THEN "enter" ELSE "top")
          /\ UNCHANGED pending
    /\ UNCHANGED <<state, conf, heap, open, conf_lock, busy, late, fast, source, saved,
                   watch, stop, fork, loc, calls, snap, file, reported, forked, edits,
                   triggers>>

\* the environment: someone edits the configuration file
EditFile ==
    /\ edits < MaxEdits /\ source
    /\ \E f \in EditFiles \ {file}: file' = f
    /\ pending' = TRUE /\ reported' = "none" /\ edits' = edits + 1
    /\ UNCHANGED <<state, conf, heap, open, conf_lock, busy, late, fast, source, saved,
                   watch, stop, fork, forked, pc, loc, calls, snap, triggers>>

-----------------------------------------------------------------------------
(* Threads that use the snapshot *)

\* a consumer renders a record under conf_lock, whenever there is one
consumer_deliver ==
    /\ \/ /\ pc["consumer"] = "idle" /\ conf_lock = "free"
          /\ conf_lock' = "consumer" /\ Goto("consumer", "deliver")
       \/ /\ pc["consumer"] = "deliver"
          /\ conf_lock' = "free" /\ Goto("consumer", "idle")
       \/ /\ pc["consumer"] = "idle" /\ stop
          /\ Goto("consumer", "none") /\ UNCHANGED conf_lock
    /\ UNCHANGED <<state, conf, heap, open, busy, late, fast, source, saved, watch, stop,
                   fork, loc, calls, snap, file, pending, reported, forked, edits,
                   triggers>>

\* hpu_pipeline_submit: in a throttle build throttle_pass reads g_rt.conf and
\* then its throttle fields, without conf_lock
submit ==
    /\ \/ /\ pc["logger"] = "out" /\ state = "running"
          /\ snap' = IF Throttled THEN conf ELSE None
          /\ Goto("logger", "throttle")
       \/ /\ pc["logger"] = "throttle"
          /\ snap' = None /\ Goto("logger", "out")
    /\ UNCHANGED <<state, conf, heap, open, conf_lock, busy, late, fast, source, saved,
                   watch, stop, fork, loc, calls, file, pending, reported, forked, edits,
                   triggers>>

\* control calls of main: each takes conf_lock a fixed number of times
control_call(locks) ==
    /\ pc["main"] = "out" /\ state = "running"
    /\ ~(fork.child /\ fork.behavior = "disable")      \* see CallersSettled
    /\ calls' = locks /\ Goto("main", "control")
    /\ UNCHANGED <<state, conf, heap, open, conf_lock, busy, late, fast, source, saved,
                   watch, stop, fork, loc, snap, file, pending, reported, forked, edits,
                   triggers>>

hpulogc_flush == control_call(3)        \* hpu_consumer_flush, timeout, queues
hpulogc_sync == control_call(4)         \* the same, then fsync
hpulogc_get_stats == control_call(1)

control_locked ==
    /\ pc["main"] = "control" /\ conf_lock = "free"
    /\ calls' = calls - 1
    /\ IF calls = 1 THEN Goto("main", "out") ELSE UNCHANGED pc
    /\ UNCHANGED <<state, conf, heap, open, conf_lock, busy, late, fast, source, saved,
                   watch, stop, fork, loc, snap, file, pending, reported, forked, edits,
                   triggers>>

-----------------------------------------------------------------------------
(* Fork *)

\* fork in a process whose other threads may be anywhere, and the child handler
hpu_atfork_child ==
    /\ pc["main"] = "out" /\ ~fork.child /\ state = "running"
    /\ pc' = [t \in Threads |->
                CASE t = "main" -> "out"
                  [] t = "consumer" /\ fork.behavior # "disable" -> "none"
                  [] OTHER -> "gone"]
    /\ fork' = [fork EXCEPT !.child = TRUE, !.disabled = (fork.behavior = "disable"),
                            !.dirty = (fork.behavior = "reinit")]
    /\ conf_lock' = IF fork.behavior = "disable" THEN conf_lock ELSE "free"
    /\ forked' = TRUE /\ late' = {}
    /\ UNCHANGED <<state, conf, heap, open, busy, fast, source, saved, watch, stop,
                   loc, calls, snap, file, pending, reported, edits, triggers>>

\* the content a rebuild starts from, or "none": an init_default has no copy
RebuildContent == IF source THEN file ELSE saved
Rebuildable == /\ RebuildContent # "none"
               /\ source => FileLoads[file]["from file"] /\ Finalizes[file]

\* the first log call of the child rebuilds the runtime; the snapshot and the
\* handles inherited from the parent are abandoned, not closed
hpu_core_fork_check ==
    /\ pc["main"] = "out" /\ fork.child /\ fork.dirty /\ state = "running"
    /\ Unallocated # {}
    /\ LET s == Min(Unallocated)
       IN \/ /\ Rebuildable
             /\ core_start(s, RebuildContent, source)
             /\ fork' = [fork EXCEPT !.dirty = FALSE]
          \/ /\ \/ ~Rebuildable \/ CanFail(RebuildContent)
                \* what the saved structure borrows may be gone by now
                \/ RebuildContent \in DOMAIN Codes /\ Borrowed(Codes[RebuildContent]) # {}
             /\ fork' = [fork EXCEPT !.dirty = FALSE, !.disabled = TRUE]
             /\ UNCHANGED <<heap, open, conf, fast, state, stop, watch, pc>>
    /\ UNCHANGED <<conf_lock, busy, late, source, saved, loc, calls, snap, file, pending,
                   reported, forked, edits, triggers>>

-----------------------------------------------------------------------------
(* Shutdown, by main *)

\* what callers promise (spec 7.5): no log call and no trigger on its way into
\* the slot while main shuts down; and no shutdown in a "disable" child, whose
\* locks may be held by threads it does not have
CallersSettled ==
    /\ pc["logger"] \in {"out", "gone"}
    /\ \A t \in Triggers: pc[t] # "enter"
    /\ ~(fork.child /\ fork.behavior = "disable")

hpulogc_shutdown ==
    /\ pc["main"] = "out" /\ state = "running" /\ CallersSettled
    /\ state' = "shutdown"
    /\ late' = late \ {"main"}
    /\ Goto("main", "stop watcher")
    /\ UNCHANGED <<conf, heap, open, conf_lock, busy, fast, source, saved, watch,
                   stop, fork, loc, calls, snap, file, pending, reported, forked, edits,
                   triggers>>

hpu_hotreload_stop ==
    /\ \/ /\ pc["main"] = "stop watcher" /\ watch.started
          /\ watch' = [watch EXCEPT !.exit = TRUE] /\ Goto("main", "join watcher")
       \/ /\ pc["main"] = "stop watcher" /\ ~watch.started
          /\ Goto("main", "drain") /\ UNCHANGED watch
       \* joining a thread the fork left behind returns at once
       \/ /\ pc["main"] = "join watcher" /\ pc["watcher"] \in {"done", "gone"}
          /\ watch' = [watch EXCEPT !.started = FALSE] /\ Goto("main", "drain")
    /\ UNCHANGED <<state, conf, heap, open, conf_lock, busy, late, fast, source, saved, stop,
                   fork, loc, calls, snap, file, pending, reported, forked, edits, triggers>>

\* mistakes: shutdown does not wait for a reload, or waits for the flag alone
DontWait ==
    /\ pc["main"] = "drain" /\ Goto("main", "stop consumer")
    /\ UNCHANGED <<state, conf, heap, open, conf_lock, busy, late, fast, source, saved,
                   watch, stop, fork, forked, loc, calls, snap, file, pending, reported,
                   edits, triggers>>
WaitForFlag ==
    /\ pc["main"] = "drain" /\ ~busy /\ Goto("main", "stop consumer")
    /\ UNCHANGED <<state, conf, heap, open, conf_lock, busy, late, fast, source, saved,
                   watch, stop, fork, forked, loc, calls, snap, file, pending, reported,
                   edits, triggers>>

\* hpu_core_stop: the wait for a reload in flight, 6 s at most
drain_reload ==
    /\ pc["main"] = "drain"
    /\ ~busy \/ "main" \in late
    /\ Goto("main", "stop consumer")
    /\ UNCHANGED <<state, conf, heap, open, conf_lock, busy, late, fast, source, saved,
                   watch, stop, fork, loc, calls, snap, file, pending, reported, forked,
                   edits, triggers>>

stop_consumer ==
    /\ \/ /\ pc["main"] = "stop consumer" /\ conf_lock = "free"
          /\ stop' = TRUE /\ Goto("main", "join consumer")
       \/ /\ pc["main"] = "join consumer" /\ pc["consumer"] = "none"
          /\ Goto("main", "retire") /\ UNCHANGED stop
    /\ UNCHANGED <<state, conf, heap, open, conf_lock, busy, late, fast, source, saved,
                   watch, fork, loc, calls, snap, file, pending, reported, forked, edits,
                   triggers>>

\* hpu_core_retire_output_lost, then the active snapshot, each under conf_lock;
\* then the lock itself goes and the runtime block is cleared
core_stop_tail ==
    /\ \/ /\ pc["main"] = "retire" /\ conf_lock = "free"
          /\ Goto("main", "free")
          /\ UNCHANGED <<state, conf, heap, open, conf_lock, fast, source, saved, watch, stop, fork>>
       \/ /\ pc["main"] = "free" /\ conf_lock = "free"
          /\ heap' = Free(conf) /\ open' = open \ Handles(heap[conf].slots)
          /\ conf' = None /\ fast' = "none"
          /\ conf_lock' = "none" /\ saved' = "none"
          /\ state' = "uninit" /\ source' = FALSE /\ stop' = FALSE
          /\ watch' = [started |-> FALSE, exit |-> FALSE]
          /\ fork' = [child |-> FALSE, dirty |-> FALSE, disabled |-> FALSE,
                      behavior |-> "none"]
          /\ pc' = [pc EXCEPT !["main"] = "out"]
    /\ UNCHANGED <<busy, late, loc, calls, snap, file, pending, reported, forked, edits,
                   triggers>>

-----------------------------------------------------------------------------

MainCall ==
    /\ ~Abandoned
    /\ \/ \E k \in DOMAIN Codes: hpulogc_init(k)
       \/ hpulogc_init_default \/ hpulogc_init_from_file
       \/ hpulogc_flush \/ hpulogc_sync \/ hpulogc_get_stats
       \/ hpu_atfork_child \/ hpu_core_fork_check \/ hpulogc_shutdown

\* what main does once inside a call
MainStep == control_locked \/ hpu_hotreload_stop \/ drain_reload \/ stop_consumer
            \/ core_stop_tail

Next == \/ MainCall \/ MainStep \/ EditFile \/ watcher_loop \/ consumer_deliver \/ submit
        \/ \E t \in Reloaders: hpu_core_trigger_reload(t)
        \/ \E t \in Reloaders \cup {"main"}: deadline_passes(t)

\* Threads run, and whoever waits for conf_lock or for the slot gets it in the
\* end, or its deadline passes.  Nobody is bound to call, to edit the file or to
\* log; a consumer that is to stop finds the closed ring empty in the end.
Fairness == /\ SF_vars(MainStep)
            /\ WF_vars(consumer_deliver /\ pc["consumer"] = "deliver")
            /\ SF_vars(consumer_deliver /\ pc'["consumer"] = "none")
            /\ SF_vars(watcher_loop \/ hpu_core_trigger_reload("watcher"))
            /\ \A t \in Triggers: SF_vars(hpu_core_trigger_reload(t) /\ pc[t] # "out")
            /\ \A t \in Reloaders \cup {"main"}: WF_vars(deadline_passes(t))

Spec == Init /\ [][Next]_vars /\ Fairness

-----------------------------------------------------------------------------
(* Properties *)

LiveSnaps == {s \in Snaps: heap[s].st = "live"}
SlotsOf(s) == {<<s, i>> : i \in DOMAIN heap[s].slots}

\* Every open handle belongs to exactly one slot of one live snapshot and every
\* slot that is filled holds an open handle; a snapshot that is neither active
\* nor under construction has been freed, with its handles, except in a forked
\* child, which abandons what it inherited.  (The moves of reload_swap, the
\* rollbacks of finalize_reload, the frees of shutdown.)
HandlesOwned ==
    LET filled == {p \in UNION {SlotsOf(s) : s \in LiveSnaps}: heap[p[1]].slots[p[2]] # NoHandle}
        holds(p) == heap[p[1]].slots[p[2]]
    IN /\ open = {holds(p) : p \in filled}
       /\ \A p, q \in filled: p # q => holds(p) # holds(q)
       /\ ~forked => LiveSnaps = ({conf} \cup {loc[t].fresh : t \in Reloaders}) \ {None}
       /\ fork.child \/ state = "uninit" \/ conf \in LiveSnaps

\* A handle that a reload kept open serves an output for which it could have
\* been opened: the same file with the same rotation parameters, the same
\* console stream.  (The reuse plan of hpu_conf_finalize_reload is computed
\* before the swap, from another snapshot's outputs.)
HandleFitsOutput ==
    \A s \in LiveSnaps: \A j \in DOMAIN heap[s].slots:
        LET h == heap[s].slots[j]
        IN h # NoHandle =>
             LET opened == ConfOf(h[2]).outputs[h[3]]
                 serves == ConfOf(heap[s].content).outputs[j]
             IN /\ [opened EXCEPT !.name = serves.name, !.stream = serves.stream,
                                  !.color = serves.color,
                                  !.enabled = serves.enabled, !.async = serves.async,
                                  !.queue_size = serves.queue_size] = serves
                /\ h[1] # s => opened.type = "file"

\* What every active snapshot guarantees to the code that uses it without
\* further checks: its default format and the formats of its rules exist, rules
\* and defaults refer to outputs it has, no two of its file outputs share a
\* file; if it came from a file, the validator accepts that file as it stands;
\* if it came from a structure, two records of the longest length fit the
\* buffer.  Whatever path made it active: init, reload or a rebuild after fork.
LiveIsSound ==
    conf # None =>
        LET content == heap[conf].content
            c == ConfOf(content)
            files == {i \in DOMAIN c.outputs: c.outputs[i].type = "file"}
        IN /\ fast = content
           /\ \A i \in DOMAIN c.default_output_idx:
                 c.outputs[c.default_output_idx[i]].name = c.default_output_names[i]
           /\ \A i \in DOMAIN c.rules:
                 /\ c.rules[i].format_name \in ToSet(c.formats)
                 /\ ToSet(c.rules[i].output_idx) \subseteq DOMAIN c.outputs
           /\ \A i, k \in files: NormalForm[c.outputs[i].path] = NormalForm[c.outputs[k].path]
                                    => i = k
           /\ content \in DOMAIN Files => Accepted[content]
           /\ content \in DOMAIN Codes =>
                 c.buffer_size >= 2 * max_record_size(c.max_log_length)

\* Nobody uses a snapshot that was freed: not the reload that compares with the
\* live one after it released conf_lock, not the consumer that renders, not the
\* logger that asks the throttle; and nobody waits for a lock that shutdown has
\* destroyed.  core.c says so of the shutdown: "the in-flight reload was drained
\* above"; and core_internal.h of the snapshot: "Active snapshot (guarded)".
NoStaleSnapshot ==
    /\ \A t \in Reloaders: pc[t] \in {"load", "open"} => IsLive(loc[t].live)
    /\ \A t \in Reloaders: pc[t] = "swap" => IsLive(conf)
    /\ pc["consumer"] = "deliver" => IsLive(conf)
    /\ pc["logger"] = "throttle" /\ snap # None => IsLive(snap)
    /\ \A t \in Reloaders: pc[t] \in {"alloc", "load", "open", "swap"} => conf_lock # "none"
    /\ pc["consumer"] = "idle" \/ pc["main"] = "control" => conf_lock # "none"

\* There is one way for the library to come to a stale snapshot, in a build that
\* does not throttle: shutdown waited its 6 s for a reload that was not done, and
\* the reload was still not done when it freed the snapshot (hpu_core_stop,
\* hpu_core_trigger_reload).  Before that moment, and with a reload that ends
\* in time or between the deadline and the free, nothing stale is used.
StaleOnlyIfOverdue == NoStaleSnapshot \/ (Abandoned /\ "main" \in late)

\* Every control call and every shutdown returns, in the parent and in a child,
\* also when the fork left a reload behind in the slot.
MainReturns == pc["main"] # "out" ~> pc["main"] = "out"

\* After a change of the file there comes a moment when what the file then
\* holds is active, or a reload error was printed for it, or the watcher had
\* waited its 5 s for another reload and given up on that change, unless
\* shutdown, a fork or the end of memory comes first.
EditsTakeEffect ==
    pending /\ pc["watcher"] \in {"top", "wait"} ~>
        \/ conf # None /\ heap[conf].content = file
        \/ reported \in {file, "no slot"} \/ state # "running" \/ forked \/ Unallocated = {}
=============================================================================
