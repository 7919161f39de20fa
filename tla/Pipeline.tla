------------------------------ MODULE Pipeline ------------------------------
(***************************************************************************)
(* The way of a record through the library (pipeline.c, registry.c): level *)
(* filter with per-category overrides, throttle, ring, routing with the    *)
(* per-category cache, delivery; and the calls that change what it meets:  *)
(* set_level, set_level_for_category and a reload that swaps the snapshot. *)
(*                                                                         *)
(* Loggers and the admin thread run through the registry without a lock    *)
(* except for registration (g_reg.mu); whatever holds conf_lock (process,  *)
(* the swap) is one step.  A category is the sequence of its dot-separated *)
(* segments; a record without one has the category Star.                   *)
(***************************************************************************)
EXTENDS Integers, Sequences, FiniteSets

CONSTANTS
    Confs,          \* the snapshots that can become active
    Categories,     \* categories in use, sequences of segments
    LongNames,      \* those of them that exceed HPU_REG_NAME_LEN
    LogLevels,      \* levels that records are logged with
    Overrides,      \* levels given to set_level_for_category
    Loggers,        \* threads that log
    RegMax,         \* HPU_REG_MAX
    RingMax,        \* records the ring holds
    Builds,         \* values of HPULOGC_ENABLE_ASYNC
    Throttled,      \* HPULOGC_ENABLE_THROTTLE
    MaxCalls,       \* bound on log calls
    MaxReloads,     \* bound on snapshot swaps
    MaxControls,    \* bound on calls that change a level
    MaxTime         \* bound on the clock

Levels == 0 .. 5                    \* TRACE .. FATAL
OFF == 6
NoOverride == -1                    \* HPU_REG_NO_OVERRIDE
Star == <<"*">>
Admin == "admin"
Threads == Loggers \cup {Admin}

ASSUME ConfsAssumption ==
    /\ Confs # {}
    /\ \A c \in Confs: /\ c.level \in Nat
                       /\ c.rules \in Seq([kind: {"any", "exact", "tree"}, path: Seq(STRING),
                                           lo: Nat, hi: Nat, neg: BOOLEAN, outs: Nat])
                       /\ c.default_outs \in Nat
                       /\ c.throttle \in [rate: Nat, burst: Nat \ {0}, sampling: Nat]

ASSUME ParametersAssumption ==
    /\ RegMax \in Nat /\ Admin \notin Loggers
    /\ Star \in Categories
    /\ LogLevels \subseteq Levels /\ Overrides \subseteq -1 .. OFF

VARIABLES
    async,          \* this build has the ring
    conf,           \* g_rt.conf
    conf_gen,       \* g_rt.conf_gen
    level_atomic,   \* g_rt.level_atomic
    reg,            \* g_reg.entries up to count
    sample_seq,     \* g_sample_seq
    ring,           \* records in the ring
    hand,           \* what the consumer took and has not processed: <<>> or <<rec>>
    pc, loc,        \* where each thread is, and its locals
    stats,          \* the counters of g_rt and of the ring
    promised,       \* per category, the override of the last call, once it returned OK
    grants,         \* records that buckets let through, per category, and since when
    now, calls, reloads, controls

vars == <<async, conf, conf_gen, level_atomic, reg, sample_seq, ring, hand, pc, loc, stats,
          promised, grants, now, calls, reloads, controls>>

-----------------------------------------------------------------------------
(* Routing *)

\* "" and "*" match everything, "name.*" a name and what is below it
hpu_pipeline_selector_match(rule, cat) ==
    \/ rule.kind = "any"
    \/ rule.kind = "exact" /\ rule.path = cat
    \/ /\ rule.kind = "tree"
       /\ Len(rule.path) <= Len(cat)
       /\ SubSeq(cat, 1, Len(rule.path)) = rule.path

hpu_conf_rule_level_match(rule, level) ==
    IF rule.neg THEN level # rule.lo ELSE rule.lo <= level /\ level <= rule.hi

Matching(c, cat, level) ==
    {i \in DOMAIN c.rules: /\ hpu_conf_rule_level_match(c.rules[i], level)
                           /\ hpu_pipeline_selector_match(c.rules[i], cat)}

\* the first rule that matches, 0 (the code's -1) when none does
FirstMatch(c, cat, level) ==
    LET ms == Matching(c, cat, level)
    IN IF ms = {} THEN 0 ELSE CHOOSE i \in ms: \A j \in ms: i <= j

Routes(c, cat) == [l \in Levels |-> FirstMatch(c, cat, l)]
NoRoutes == [l \in Levels |-> 0]

-----------------------------------------------------------------------------
(* The registry *)

Slots == 1 .. Len(reg)
Slot(cat) == {i \in Slots: reg[i].name = cat}

\* hpu_registry_find: the first published entry of that name; 0 is NULL
hpu_registry_find(cat) ==
    IF Slot(cat) = {} THEN 0 ELSE CHOOSE i \in Slot(cat): \A j \in Slot(cat): i <= j

NewEntry(cat) == [name |-> cat, override |-> NoOverride, gen |-> 0, route |-> NoRoutes,
                  tokens |-> 0, last |-> 0]

\* routes as the slot answers them after a refresh
hpu_registry_refresh_route(slot) ==
    IF reg[slot].gen = conf_gen THEN reg
    ELSE [reg EXCEPT ![slot].route = Routes(conf, reg[slot].name), ![slot].gen = conf_gen]

-----------------------------------------------------------------------------

NoPromise == [level |-> NoOverride, call |-> 0]
NoThrottle == [rate |-> 0, burst |-> 1, sampling |-> 1]
NoLocals == [cat |-> Star, level |-> 0, thr |-> 0, slot |-> 0, th |-> NoThrottle,
             floor |-> NoPromise]

Init ==
    /\ async \in Builds
    /\ conf \in Confs
    /\ conf_gen = 1
    /\ level_atomic = conf.level
    /\ reg = <<>>
    /\ sample_seq = 0
    /\ ring = <<>> /\ hand = <<>>
    /\ pc = [t \in Threads |-> "out"]
    /\ loc = [t \in Threads |-> NoLocals]
    /\ stats = [accepted |-> 0, throttled |-> 0, dropped |-> 0, written |-> 0, discarded |-> 0]
    /\ promised = [c \in Categories |-> NoPromise]
    /\ grants = [c \in Categories |-> [n |-> 0, since |-> 0]]
    /\ now = 1 /\ calls = 0 /\ reloads = 0 /\ controls = 0

Goto(t, l) == pc' = [pc EXCEPT ![t] = l]
Return(t) == Goto(t, "out") /\ loc' = [loc EXCEPT ![t] = NoLocals]
Count(field) == stats' = [stats EXCEPT ![field] = @ + 1]

-----------------------------------------------------------------------------
(* Logging: hpu_pipeline_submit_ex *)

AfterLookup(t) == IF t = Admin THEN "override" ELSE "filter"

\* hpu_registry_lookup begins with an unlocked look; an over-long name is never
\* registered.  What happens between the caller's earlier reads and this look
\* is seen by the second look or by the filter as well.
StartLookup(t, locals) ==
    LET slot == hpu_registry_find(locals.cat)
    IN /\ loc' = [loc EXCEPT ![t] = [locals EXCEPT !.slot = slot]]
       /\ Goto(t, IF slot # 0 \/ locals.cat \in LongNames THEN AfterLookup(t) ELSE "register")

\* the global threshold is read before the category is looked up
hpu_pipeline_submit(t) ==
    /\ pc[t] = "out" /\ calls < MaxCalls
    /\ calls' = calls + 1
    /\ \E cat \in Categories, level \in LogLevels:
         StartLookup(t, [NoLocals EXCEPT !.cat = cat, !.level = level,
                                         !.thr = level_atomic, !.floor = promised[cat]])
    /\ UNCHANGED <<async, conf, conf_gen, level_atomic, reg, sample_seq, ring, hand, stats,
                   promised, grants, now, reloads, controls>>

\* a mistake: no second look under the mutex
RegisterBlindly(t) ==
    /\ pc[t] = "register"
    /\ reg' = IF Len(reg) < RegMax THEN Append(reg, NewEntry(loc[t].cat)) ELSE reg
    /\ loc' = [loc EXCEPT ![t].slot = IF Len(reg) < RegMax THEN Len(reg) + 1 ELSE 0]
    /\ Goto(t, AfterLookup(t))
    /\ UNCHANGED <<async, conf, conf_gen, level_atomic, sample_seq, ring, hand, stats,
                   promised, grants, now, calls, reloads, controls>>

\* ... and the second look under g_reg.mu, then the registration; a full table
\* answers NULL
lookup_register(t) ==
    /\ pc[t] = "register"
    /\ LET slot == hpu_registry_find(loc[t].cat)
           fresh == slot = 0 /\ Len(reg) < RegMax
       IN /\ reg' = IF fresh THEN Append(reg, NewEntry(loc[t].cat)) ELSE reg
          /\ loc' = [loc EXCEPT ![t].slot = IF fresh THEN Len(reg) + 1 ELSE slot]
    /\ Goto(t, AfterLookup(t))
    /\ UNCHANGED <<async, conf, conf_gen, level_atomic, sample_seq, ring, hand, stats,
                   promised, grants, now, calls, reloads, controls>>

PassesFilter(t) ==
    /\ loc[t].slot # 0 => reg[loc[t].slot].override <= loc[t].level
    /\ loc[t].level >= loc[t].thr

\* the level filter; NoOverride is below every level
filter(t) ==
    /\ pc[t] = "filter"
    /\ \/ PassesFilter(t) /\ Count("accepted")
          /\ Goto(t, IF Throttled THEN "throttle" ELSE "put") /\ UNCHANGED loc
       \/ ~PassesFilter(t) /\ Return(t) /\ UNCHANGED stats
    /\ UNCHANGED <<async, conf, conf_gen, level_atomic, reg, sample_seq, ring, hand, promised,
                   grants, now, calls, reloads, controls>>

\* throttle_pass reads the parameters of the active snapshot.  The global
\* bucket lives in its locals: it starts full at every call and lets pass.
throttle_pass(t) ==
    /\ pc[t] = "throttle"
    /\ loc' = [loc EXCEPT ![t].th = conf.throttle]
    /\ Goto(t, "bucket")
    /\ UNCHANGED <<async, conf, conf_gen, level_atomic, reg, sample_seq, ring, hand, stats,
                   promised, grants, now, calls, reloads, controls>>

Least(a, b) == IF a <= b THEN a ELSE b

\* a mistake: the bucket is full at every call, like the global one
FillAlways(e, th) == [e EXCEPT !.tokens = th.burst]

\* the entry's bucket at this moment: filled at its first use, then refilled
\* for the time that passed, up to the burst
throttle_bucket(e, th) ==
    [e EXCEPT !.last = now,
              !.tokens = IF e.last = 0 THEN th.burst
                         ELSE IF now > e.last
                         THEN Least(@ + th.rate * (now - e.last), th.burst) ELSE @]

\* the bucket of the category, under g_reg.mu; a category without an entry has
\* none (the second lookup finds what the first one found: no place)
category_bucket(t) ==
    LET i == loc[t].slot
        e == throttle_bucket(reg[i], loc[t].th)
        g == grants[loc[t].cat]
    IN /\ pc[t] = "bucket"
       /\ \/ /\ loc[t].th.rate = 0 \/ i = 0
             /\ Goto(t, "sample") /\ UNCHANGED <<reg, grants, stats, loc>>
          \/ /\ loc[t].th.rate > 0 /\ i # 0 /\ e.tokens >= 1
             /\ reg' = [reg EXCEPT ![i] = [e EXCEPT !.tokens = @ - 1]]
             /\ grants' = [grants EXCEPT ![loc[t].cat] =
                  [n |-> g.n + 1, since |-> IF g.n = 0 THEN now ELSE g.since]]
             /\ Goto(t, "sample") /\ UNCHANGED <<stats, loc>>
          \/ /\ loc[t].th.rate > 0 /\ i # 0 /\ e.tokens < 1
             /\ reg' = [reg EXCEPT ![i] = e]
             /\ Count("throttled") /\ Return(t) /\ UNCHANGED grants
       /\ UNCHANGED <<async, conf, conf_gen, level_atomic, sample_seq, ring, hand, promised,
                      now, calls, reloads, controls>>

\* one in sampling records passes; a rate of 0 stops all of them
sample(t) ==
    LET n == loc[t].th.sampling
    IN /\ pc[t] = "sample"
       /\ sample_seq' = IF n > 1 THEN sample_seq + 1 ELSE sample_seq
       /\ \/ /\ n = 1 \/ (n > 1 /\ sample_seq % n = 0)
             /\ Goto(t, "put") /\ UNCHANGED <<stats, loc>>
          \/ /\ n = 0 \/ (n > 1 /\ sample_seq % n # 0)
             /\ Count("throttled") /\ Return(t)
       /\ UNCHANGED <<async, conf, conf_gen, level_atomic, reg, ring, hand, promised,
                   grants, now, calls, reloads, controls>>

-----------------------------------------------------------------------------
(* Routing and delivery: hpu_pipeline_process, under conf_lock *)

\* route_lookup refreshes the category's cache, or scans the rules when it has
\* no entry; no output at all discards the record
hpu_pipeline_process(rec) ==
    LET slot == hpu_registry_find(rec.cat)
        fresh == IF slot = 0 THEN reg ELSE hpu_registry_refresh_route(slot)
        rule == IF slot = 0 THEN FirstMatch(conf, rec.cat, rec.level)
                ELSE fresh[slot].route[rec.level]
        outs == IF rule = 0 THEN conf.default_outs ELSE conf.rules[rule].outs
    IN reg' = fresh /\ Count(IF outs > 0 THEN "written" ELSE "discarded")

\* the ring refuses when it is full; a build without it processes at once
put(t) ==
    /\ pc[t] = "put"
    /\ LET rec == [cat |-> loc[t].cat, level |-> loc[t].level]
       IN \/ /\ async /\ Len(ring) < RingMax
             /\ ring' = Append(ring, rec) /\ UNCHANGED <<reg, stats>>
          \/ /\ async /\ Len(ring) >= RingMax
             /\ Count("dropped") /\ UNCHANGED <<reg, ring>>
          \/ ~async /\ hpu_pipeline_process(rec) /\ UNCHANGED ring
    /\ Return(t)
    /\ UNCHANGED <<async, conf, conf_gen, level_atomic, sample_seq, hand, promised,
                   grants, now, calls, reloads, controls>>

\* the consumer takes a record before it takes conf_lock to process it
consumer_get ==
    /\ hand = <<>> /\ ring # <<>>
    /\ hand' = <<Head(ring)>> /\ ring' = Tail(ring)
    /\ UNCHANGED <<async, conf, conf_gen, level_atomic, reg, sample_seq, pc, loc, stats,
                   promised, grants, now, calls, reloads, controls>>

consumer_process ==
    /\ hand # <<>> /\ hand' = <<>>
    /\ hpu_pipeline_process(hand[1])
    /\ UNCHANGED <<async, conf, conf_gen, level_atomic, sample_seq, ring, pc, loc, promised,
                   grants, now, calls, reloads, controls>>

-----------------------------------------------------------------------------
(* Controls *)

hpulogc_set_level ==
    /\ controls < MaxControls /\ controls' = controls + 1
    /\ \E level \in LogLevels \cup {OFF}: level_atomic' = level
    /\ UNCHANGED <<async, conf, conf_gen, reg, sample_seq, ring, hand, pc, loc, stats,
                   promised, grants, now, calls, reloads>>

\* while the call runs nothing is promised about its category
hpulogc_set_level_for_category ==
    /\ pc[Admin] = "out" /\ controls < MaxControls /\ controls' = controls + 1
    /\ \E cat \in Categories, level \in Overrides:
         /\ promised' = [promised EXCEPT ![cat] = NoPromise]
         /\ StartLookup(Admin, [NoLocals EXCEPT !.cat = cat, !.level = level])
    /\ UNCHANGED <<async, conf, conf_gen, level_atomic, reg, sample_seq, ring, hand, stats,
                   grants, now, calls, reloads>>

Promise == [level |-> loc[Admin].level, call |-> controls]

\* a mistake: a category without a place in the registry is not reported
OverrideNowhere ==
    LET i == loc[Admin].slot
    IN /\ pc[Admin] = "override"
       /\ promised' = [promised EXCEPT ![loc[Admin].cat] = Promise]
       /\ reg' = IF i = 0 THEN reg ELSE [reg EXCEPT ![i].override = loc[Admin].level]
       /\ Return(Admin)
       /\ UNCHANGED <<async, conf, conf_gen, level_atomic, sample_seq, ring, hand, stats,
                   grants, now, calls, reloads, controls>>

\* hpu_registry_set_override: an error without an entry, else the byte is stored
hpu_registry_set_override ==
    LET i == loc[Admin].slot
    IN /\ pc[Admin] = "override"
       /\ \/ i = 0 /\ UNCHANGED <<reg, promised>>
          \/ /\ i # 0
             /\ reg' = [reg EXCEPT ![i].override = loc[Admin].level]
             /\ promised' = [promised EXCEPT ![loc[Admin].cat] = Promise]
       /\ Return(Admin)
       /\ UNCHANGED <<async, conf, conf_gen, level_atomic, sample_seq, ring, hand, stats,
                   grants, now, calls, reloads, controls>>

\* a mistake: the caches are not told
SwapSilently ==
    /\ reloads < MaxReloads /\ reloads' = reloads + 1
    /\ \E c \in Confs: conf' = c /\ level_atomic' = c.level
    /\ UNCHANGED <<async, conf_gen, reg, sample_seq, ring, hand, pc, loc, stats, promised,
                   grants, now, calls, controls>>

\* the swap of a reload: snapshot, generation, lock-free copies
reload_swap ==
    /\ reloads < MaxReloads /\ reloads' = reloads + 1
    /\ \E c \in Confs: conf' = c /\ level_atomic' = c.level
    /\ conf_gen' = conf_gen + 1
    /\ UNCHANGED <<async, reg, sample_seq, ring, hand, pc, loc, stats, promised, grants,
                   now, calls, controls>>

Tick ==
    /\ now < MaxTime /\ now' = now + 1
    /\ UNCHANGED <<async, conf, conf_gen, level_atomic, reg, sample_seq, ring, hand, pc, loc,
                   stats, promised, grants, calls, reloads, controls>>

Next == \/ \E t \in Threads: lookup_register(t)
        \/ \E t \in Loggers: hpu_pipeline_submit(t) \/ filter(t) \/ throttle_pass(t) \/ category_bucket(t)
                              \/ sample(t) \/ put(t)
        \/ consumer_get \/ consumer_process
        \/ hpulogc_set_level \/ hpulogc_set_level_for_category
        \/ hpu_registry_set_override \/ reload_swap \/ Tick

Spec == Init /\ [][Next]_vars

-----------------------------------------------------------------------------
(* Properties *)

\* A cache that looks current answers every level as the rules of the active
\* snapshot do: what a reload changed is never routed by the old rules, not
\* even for a record that was accepted before it (hpu_registry_refresh_route,
\* the generation of hpu_core_trigger_reload).
RoutesCurrent ==
    \A i \in Slots: reg[i].gen = conf_gen => reg[i].route = Routes(conf, reg[i].name)

\* Two threads that meet a new category at once still register it once, and the
\* table never outgrows its array (hpu_registry_lookup).
RegistryUnique ==
    /\ Len(reg) <= RegMax
    /\ \A i, j \in Slots: reg[i].name = reg[j].name => i = j

\* Both thresholds of a call: the level that set_level_for_category was last
\* given for the category, and the global level the call read.
MeetsBoth(t) == loc[t].level >= loc[t].floor.level /\ loc[t].level >= loc[t].thr

\* A log call that starts after set_level_for_category returned OK, and until the
\* next such call for the category, is let through exactly if its level meets
\* that override and the global level, whoever registers, refreshes or reloads
\* meanwhile (hpulogc_set_level_for_category, hpu_pipeline_submit_ex).  So an
\* override makes a category quieter than the global level, never more verbose:
\* the header, the design and the filter's own comment say that it wins over the
\* global level (hpulogc.h:725, rd_v0.6.md:953, pipeline.c:485), the code asks for
\* both.
OverrideHolds ==
    \A t \in Loggers:
        loc[t].floor # NoPromise /\ loc[t].floor = promised[loc[t].cat] =>
            /\ pc[t] = "filter" => (PassesFilter(t) <=> MeetsBoth(t))
            /\ pc[t] \in {"throttle", "bucket", "sample", "put"} => MeetsBoth(t)

\* The buckets never let more records of a category through than a burst and
\* the rate allow for the time since the first, whatever threads log and
\* whatever snapshot is swapped in (throttle_bucket).
BucketBounded ==
    \A cat \in Categories: \E c, d \in Confs:
        grants[cat].n <= c.throttle.burst + d.throttle.rate * (now - grants[cat].since)
=============================================================================
