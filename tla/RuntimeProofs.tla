--------------------------- MODULE RuntimeProofs ---------------------------
(***************************************************************************)
(* Proofs about Runtime: for any number of triggering threads, snapshots   *)
(* and configuration contents, nobody uses a snapshot after it was freed,  *)
(* unless a reload outlived the 6 s that shutdown waits for it; every open *)
(* handle belongs to one slot of one live snapshot and serves an output it *)
(* could have been opened for; the active configuration has passed every   *)
(* check.                                                                  *)
(***************************************************************************)
EXTENDS Runtime, SequenceTheorems, WellFoundedInduction, TLAPS

Handle == Nat \X (Contents \cup {"none"}) \X Nat
Snapshot == [st : {"unused", "live", "freed"}, content : Contents \cup {"none"},
             slots : Seq(Handle)]

(* The stages of a reload that holds the slot, and of those the ones in which it has a
   snapshot under construction; the stages of a shutdown, and of those the ones after
   the wait for a reload. *)
Holding == {"alloc", "load", "open", "swap"}
Building == {"load", "open", "swap"}
Closing == {"stop watcher", "join watcher", "drain", "stop consumer", "join consumer",
            "retire", "free"}
Drained == {"stop consumer", "join consumer", "retire", "free"}

Places == {"none", "out", "gone", "enter", "top", "wait", "changed", "done", "idle",
           "deliver", "throttle", "control"} \cup Holding \cup Closing

Locals == [fresh : Snaps \cup {None}, live : Snaps \cup {None}, plan : Seq(Nat),
           next : Nat, strict : {"yes", "no"}]

WatchFlags == [started : BOOLEAN, exit : BOOLEAN]
ForkFlags == [child : BOOLEAN, dirty : BOOLEAN, disabled : BOOLEAN,
              behavior : {"none", "reinit", "disable", "inherit"}]

ControlTyped ==
    /\ state \in {"uninit", "running", "shutdown"}
    /\ conf_lock \in {"none", "free", "consumer"} \cup Reloaders
    /\ busy \in BOOLEAN
    /\ source \in BOOLEAN
    /\ saved \in DOMAIN Codes \cup {"none"}
    /\ watch \in WatchFlags
    /\ fork \in ForkFlags
    /\ forked \in BOOLEAN
    /\ pc \in [Threads -> Places]
    /\ file \in DOMAIN Files

HeapTyped ==
    /\ conf \in Snaps \cup {None}
    /\ heap \in [Snaps -> Snapshot]
    /\ loc \in [Reloaders -> Locals]

TypeOK == ControlTyped /\ HeapTyped

-----------------------------------------------------------------------------
(* Who may be where *)

(* The reload slot is held by one thread at a time, and is taken while it is. *)
SlotOK ==
    /\ \A t, u \in Reloaders : pc[t] \in Holding /\ pc[u] \in Holding => t = u
    /\ \A t \in Reloaders : pc[t] \in Holding => busy

(* No reload is under way or about to begin. *)
Quiet == \A t \in Reloaders : pc[t] \notin Holding \cup {"enter"}

(* What main has done of a shutdown holds until the next init; only a wait that ran out
   lets it go on with a reload under way. *)
PhaseOK ==
    /\ pc["main"] \in {"out", "control"} \cup Closing
    /\ pc["main"] \in Closing <=> state = "shutdown"
    /\ pc["main"] = "control" => state = "running"
    /\ state # "running" => \A t \in Triggers : pc[t] # "enter"
    /\ pc["main"] \in Drained \/ state = "uninit" => Quiet \/ "main" \in late
    /\ pc["main"] \in Drained \cup {"drain"} \/ state = "uninit" => ~watch.started
    /\ pc["main"] \in {"retire", "free"} \/ state = "uninit" => pc["consumer"] = "none"
    /\ state = "uninit" <=> conf_lock = "none"
    /\ state = "uninit" => conf = None /\ ~fork.child

(* The watcher runs only while it is marked as started; a child that is still to rebuild
   has nobody but main. *)
ThreadsOK ==
    /\ ~watch.started => pc["watcher"] \in {"none", "done", "gone"}
    /\ fork.dirty => fork.child /\ pc["consumer"] = "none"
                     /\ \A t \in Reloaders : pc[t] = "gone"
    /\ fork.child => forked

-----------------------------------------------------------------------------
(* Snapshots *)

(* The active snapshot is alive. *)
ConfOK == state # "uninit" => IsLive(conf)

(* Without throttling no logger keeps a pointer to a snapshot. *)
LoggerOK == ~Throttled => snap = None

(* A reload compares with the active snapshot and builds another one, which nobody
   else knows; who builds nothing remembers none. *)
BuildOK ==
    \A t \in Reloaders :
        IF pc[t] \in Building
        THEN /\ loc[t].fresh # conf /\ IsLive(loc[t].fresh)
             /\ state # "uninit" => conf # None /\ loc[t].live = conf
        ELSE ~forked => loc[t].fresh = None

(* There are no other live snapshots, except those a fork abandoned. *)
LiveOK ==
    ~forked => \A s \in Snaps : heap[s].st = "live" =>
                   s = conf \/ \E t \in Reloaders : s = loc[t].fresh

-----------------------------------------------------------------------------
(* Handles *)

(* Output j of one content can be served by a file opened for output i of another. *)
Fits(c, i, d, j) ==
    /\ i \in DOMAIN ConfOf(c).outputs /\ j \in DOMAIN ConfOf(d).outputs
    /\ ConfOf(c).outputs[i].type = "file" /\ ConfOf(d).outputs[j].type = "file"
    /\ SameFile(ConfOf(c).outputs[i], ConfOf(d).outputs[j])

(* A live snapshot has a slot for each of its outputs; a slot is empty, or holds the handle
   opened for it, or one that a freed snapshot left. *)
Inherited(h, s, i) ==
    /\ h[1] \in Snaps /\ heap[h[1]].st = "freed"
    /\ h[2] \in Contents /\ Fits(h[2], h[3], heap[s].content, i)
SlotsOK ==
    \A s \in Snaps : heap[s].st = "live" =>
        /\ IF heap[s].content = "none" THEN heap[s].slots = <<>>
           ELSE Len(heap[s].slots) = Len(ConfOf(heap[s].content).outputs)
        /\ \A i \in DOMAIN heap[s].slots :
               \/ heap[s].slots[i] \in {NoHandle, <<s, heap[s].content, i>>}
               \/ Inherited(heap[s].slots[i], s, i)

Filled(s, i) ==
    heap[s].st = "live" /\ i \in DOMAIN heap[s].slots /\ heap[s].slots[i] # NoHandle

(* No handle is in two slots, and the open handles are those in slots. *)
UniqueOK ==
    \A s, r \in Snaps : \A i, j \in Nat :
        Filled(s, i) /\ Filled(r, j) /\ heap[s].slots[i] = heap[r].slots[j] => s = r /\ i = j
OpenOK ==
    \A h : h \in open <=> \E s \in Snaps : \E i \in Nat : Filled(s, i) /\ heap[s].slots[i] = h

(* The plan of a reload takes a handle from the active snapshot at most once, and only for
   outputs it does not open itself. *)
PlanOf(t) ==
    LET plan == loc[t].plan
        fresh == heap[loc[t].fresh]
    IN /\ Len(plan) = Len(fresh.slots) /\ loc[t].next # 0
       /\ \A k \in DOMAIN plan : k >= loc[t].next => fresh.slots[k] = NoHandle
       /\ \A k \in DOMAIN plan : plan[k] # 0 =>
              /\ Filled(conf, plan[k]) /\ fresh.slots[k] = NoHandle
              /\ Fits(heap[conf].content, plan[k], fresh.content, k)
       /\ \A k, m \in DOMAIN plan : plan[k] # 0 /\ plan[k] = plan[m] => k = m
PlanOK ==
    \A t \in Reloaders :
        /\ pc[t] = "load" => heap[loc[t].fresh].content = "none"
        /\ pc[t] \in {"open", "swap"} /\ state # "uninit" => PlanOf(t)

-----------------------------------------------------------------------------
(* Contents *)

(* The checks a content has passed when it becomes active. *)
Checked(content) ==
    /\ content \in DOMAIN Files =>
           /\ \E strict \in {"yes", "no", "from file"} : FileLoads[content][strict]
           /\ Finalizes[content] \/ Reloads[content]
    /\ content \in DOMAIN Codes => CodeStarts[content]

SavedOK == saved # "none" => CodeStarts[saved]
CheckedOK ==
    /\ state # "uninit" =>
           heap[conf].content \in Contents /\ Checked(heap[conf].content)
           /\ fast = heap[conf].content
    /\ \A t \in Reloaders : pc[t] \in {"open", "swap"} =>
           heap[loc[t].fresh].content \in DOMAIN Files /\ Checked(heap[loc[t].fresh].content)

-----------------------------------------------------------------------------
(* Operators *)

(* The library's threads are none of those that trigger. *)
LEMMA Names ==
    /\ {"main", "consumer", "logger", "none", "free"} \cap Reloaders = {}
    /\ Reloaders \subseteq Threads /\ Triggers \subseteq Reloaders
    /\ {"main", "consumer", "logger", "watcher"} \subseteq Threads
    /\ "watcher" \in Reloaders /\ "watcher" \notin Triggers
    /\ \A t \in Reloaders : t \in Triggers \/ t = "watcher"
    /\ \A t \in Threads : t \in Reloaders \/ t \in {"main", "consumer", "logger"}
  BY RuntimeAssumption DEF Reloaders, Threads

(* A set of naturals that is not empty has a smallest element. *)
LEMMA MinIsLeast ==
    ASSUME NEW S \in SUBSET Nat, S # {}
    PROVE  Min(S) \in S /\ \A x \in S : Min(S) <= x
  <1>1. IsWellFoundedOn(OpToRel(<, Nat), Nat)
    BY NatLessThanWellFounded
  <1>2. PICK m \in S : \A n \in S : ~(<<n, m>> \in OpToRel(<, Nat))
    BY <1>1, WFMin, Zenon
  <1>3. \A n \in S : m <= n
    <2> SUFFICES ASSUME NEW n \in S  PROVE ~(n < m)
      OBVIOUS
    <2>1. <<n, m>> \in Nat \X Nat
      OBVIOUS
    <2>2. <<n, m>>[1] = n /\ <<n, m>>[2] = m
      OBVIOUS
    <2> QED
      BY <1>2, <2>1, <2>2, Zenon DEF OpToRel
  <1> QED
    BY <1>3, Zenon DEF Min

(* A new snapshot takes a place that is free. *)
LEMMA MinUnallocated ==
    ASSUME Unallocated # {}
    PROVE  Min(Unallocated) \in Snaps /\ heap[Min(Unallocated)].st = "unused"
  <1>1. Unallocated \in SUBSET Nat
    BY DEF Unallocated, Snaps
  <1> QED
    BY <1>1, MinIsLeast, Zenon DEF Unallocated

(* Every content has a list of outputs. *)
LEMMA OutputsListed ==
    ASSUME NEW content \in Contents
    PROVE  /\ ConfOf(content).outputs \in Seq(ToSet(ConfOf(content).outputs))
           /\ Len(ConfOf(content).outputs) \in Nat
           /\ DOMAIN ConfOf(content).outputs = 1 .. Len(ConfOf(content).outputs)
  <1>1. ConfOf(content).outputs \in Seq(ToSet(ConfOf(content).outputs))
    BY ContentsTyped, Zenon
  <1> QED
    BY <1>1, LenProperties, Zenon

(* What opening the outputs leaves in the slots: the handles of a snapshot or nothing. *)
LEMMA OpenedTyped ==
    ASSUME NEW s \in Snaps, NEW content \in Contents, NEW slots \in OpenedSlots(s, content)
    PROVE  /\ slots \in Seq(Handle)
           /\ Len(slots) = Len(ConfOf(content).outputs)
           /\ \A i \in DOMAIN slots : slots[i] \in {NoHandle, <<s, content, i>>}
  <1> DEFINE n == Len(ConfOf(content).outputs)
  <1>1. n \in Nat /\ DOMAIN ConfOf(content).outputs = 1 .. n
    BY OutputsListed, Zenon
  <1>2. PICK shut : slots = [i \in 1 .. n |-> IF i \in shut THEN NoHandle
                                              ELSE <<s, content, i>>]
    BY <1>1, Zenon DEF OpenedSlots
  <1> HIDE DEF n
  <1>3. \A i \in 1 .. n : slots[i] \in {NoHandle, <<s, content, i>>}
    BY <1>2
  <1>4. NoHandle \in Handle /\ \A i \in 1 .. n : <<s, content, i>> \in Handle
    BY <1>1 DEF NoHandle, Handle, Snaps
  <1>5. slots \in [1 .. n -> Handle]
    BY <1>2, <1>3, <1>4
  <1>6. slots \in Seq(Handle) /\ Len(slots) = n
    BY <1>1, <1>5
  <1>7. DOMAIN slots = 1 .. n
    BY <1>2
  <1> QED
    BY <1>3, <1>6, <1>7 DEF n

-----------------------------------------------------------------------------
(* Control *)

ControlInv == ControlTyped /\ SlotOK /\ PhaseOK /\ ThreadsOK

(* The settings a content comes with. *)
LEMMA BehaviorTyped ==
    ASSUME NEW content \in Contents
    PROVE  ConfOf(content).fork_behavior \in {"reinit", "disable", "inherit"}
  BY ContentsTyped

(* A change of one place. *)
LEMMA Moved ==
    ASSUME ControlTyped, NEW t \in Threads, NEW l \in Places, Goto(t, l)
    PROVE  /\ pc' \in [Threads -> Places] /\ pc'[t] = l
           /\ \A u \in Threads : u # t => pc'[u] = pc[u]
  BY DEF ControlTyped, Goto

LEMMA ControlInit == Init => ControlInv
  <1> SUFFICES ASSUME Init
               PROVE  ControlInv
    OBVIOUS
  <1>1. ControlTyped
    BY RuntimeAssumption DEF Init, ControlTyped, Places, Holding, Closing, Threads, ForkFlags, WatchFlags
  <1>2. /\ pc["main"] = "out" /\ pc["consumer"] = "none"
        /\ \A t \in Reloaders : pc[t] \in {"out", "none"}
        /\ pc["watcher"] = "none"
    BY Names DEF Init
  <1>3. SlotOK /\ Quiet
    BY <1>2 DEF SlotOK, Quiet, Holding
  <1>4. PhaseOK
    BY <1>2, <1>3, Names DEF Init, PhaseOK, Closing, Drained
  <1>5. ThreadsOK
    BY <1>2 DEF Init, ThreadsOK
  <1> QED
    BY <1>1, <1>3, <1>4, <1>5 DEF ControlInv

(* Whenever main can call, no reload is left over from the last shutdown. *)
LEMMA QuietBetween ==
    ASSUME ControlInv, ~Abandoned, state = "uninit"
    PROVE  Quiet
  <1>1. \A t \in Reloaders : pc[t] \notin Holding
    BY DEF Abandoned, SlotHeld, Holding, ControlInv, PhaseOK
  <1>2. pc["watcher"] # "enter" /\ \A t \in Triggers : pc[t] # "enter"
    BY DEF ControlInv, PhaseOK, ThreadsOK
  <1> QED
    BY <1>1, <1>2, Names DEF Quiet

(* An init starts the runtime, or leaves everything but the saved structure alone. *)
LEMMA InitControl ==
    ASSUME ControlInv, ~Abandoned, NEW content \in Contents, NEW from_file \in BOOLEAN,
           NEW saved_cfg \in DOMAIN Codes \cup {"none"}, NEW valid,
           init_common(content, from_file, saved_cfg, valid)
    PROVE  ControlInv'
  <1> USE DEF ControlInv
  <1>1. pc["main"] = "out" /\ state = "uninit" /\ busy' = busy /\ file' = file
        /\ forked' = forked /\ late' = late
    BY DEF init_common
  <1>2. Quiet /\ ~watch.started /\ pc["consumer"] = "none" /\ ~fork.child
        /\ pc["watcher"] \in {"none", "done", "gone"} /\ ~fork.dirty
    BY <1>1, QuietBetween DEF PhaseOK, ThreadsOK
  <1>3. CASE UNCHANGED <<conf_lock, fork, conf, state, watch, pc, source>> /\ saved' = "none"
    <2>1. ControlTyped'
      BY <1>1, <1>3 DEF ControlTyped
    <2>2. SlotOK' /\ PhaseOK' /\ ThreadsOK'
      BY <1>1, <1>3 DEF SlotOK, PhaseOK, ThreadsOK, Quiet
    <2> QED
      BY <2>1, <2>2
  <1>4. CASE /\ source' = from_file /\ saved' = saved_cfg /\ conf_lock' = "free"
             /\ fork' = [fork EXCEPT !.behavior = ConfOf(content).fork_behavior]
             /\ \E s \in Snaps : core_start(s, content, from_file)
    <2>1. /\ state' = "running"
          /\ watch' = IF from_file THEN [started |-> TRUE, exit |-> FALSE] ELSE watch
          /\ pc' = [pc EXCEPT !["consumer"] = "idle",
                              !["watcher"] = IF from_file THEN "top" ELSE @]
      BY <1>2, <1>4 DEF core_start
    <2>2. /\ pc'["main"] = "out" /\ pc'["consumer"] = "idle"
          /\ pc'["watcher"] = (IF from_file THEN "top" ELSE pc["watcher"])
          /\ \A t \in Triggers : pc'[t] = pc[t]
      BY <1>1, <2>1, Names DEF ControlTyped
    <2>3. fork'.child = FALSE /\ fork'.dirty = FALSE
          /\ fork' \in ForkFlags
      BY <1>2, <1>4, BehaviorTyped DEF ControlTyped, ForkFlags, WatchFlags
    <2>4. ControlTyped'
      <3>1. pc' \in [Threads -> Places]
        BY <2>1, Names DEF ControlTyped, Places
      <3>2. watch' \in WatchFlags
        BY <2>1 DEF ControlTyped, WatchFlags
      <3> QED
        BY <1>1, <1>4, <2>1, <2>3, <3>1, <3>2 DEF ControlTyped
    <2>5. Quiet'
      BY <1>2, <2>2, Names DEF Quiet, Holding
    <2>6. SlotOK'
      BY <2>5 DEF SlotOK, Quiet
    <2>7. PhaseOK'
      BY <1>4, <2>1, <2>2 DEF PhaseOK, Closing, Drained
    <2>8. ThreadsOK'
      BY <1>1, <1>2, <2>1, <2>2, <2>3 DEF ThreadsOK
    <2> QED
      BY <2>4, <2>6, <2>7, <2>8
  <1> QED
    BY <1>1, <1>3, <1>4, Zenon DEF init_common

(* A step that moves one reloader to a place where it holds nothing new. *)
LEMMA StillHeld ==
    ASSUME ControlInv, NEW t \in Reloaders, NEW l \in Places, Goto(t, l),
           l \in Holding => pc[t] \in Holding, busy' = busy
    PROVE  SlotOK'
  <1>1. pc'[t] = l /\ \A u \in Reloaders : u # t => pc'[u] = pc[u]
    BY Moved, Names, Zenon DEF ControlInv
  <1> QED
    BY <1>1 DEF ControlInv, SlotOK

(* A step that releases the slot. *)
LEMMA SlotReleased ==
    ASSUME ControlInv, NEW t \in Reloaders, NEW l \in Places, Goto(t, l),
           pc[t] \in Holding, l \notin Holding
    PROVE  SlotOK'
  <1>1. pc'[t] = l /\ \A u \in Reloaders : u # t => pc'[u] = pc[u]
    BY Moved, Names, Zenon DEF ControlInv
  <1>2. \A u \in Reloaders : u # t => pc[u] \notin Holding
    BY DEF ControlInv, SlotOK
  <1> QED
    BY <1>1, <1>2 DEF SlotOK

(* A reloader that moves while the rest of the control stays as it is: it must not begin a
   reload where none may begin. *)
LEMMA ReloaderMoves ==
    ASSUME ControlInv, NEW t \in Reloaders, NEW l \in Places, Goto(t, l),
           UNCHANGED <<state, source, saved, watch, fork, forked, file>>,
           conf' = conf \/ state # "uninit",
           (conf_lock' \in {"free"} \cup Reloaders /\ conf_lock # "none") \/ conf_lock' = conf_lock,
           busy' \in BOOLEAN, SlotOK', pc[t] # "gone", "main" \in late => "main" \in late',
           t \in Triggers => l # "enter" \/ state = "running",
           l \notin Holding \cup {"enter"} \/ pc[t] \in Holding \cup {"enter"}
             \/ state = "running",
           t = "watcher" => watch.started \/ l \in {"done"}
    PROVE  ControlInv'
  <1>1. /\ pc' \in [Threads -> Places] /\ pc'[t] = l
        /\ \A u \in Threads : u # t => pc'[u] = pc[u]
    BY Moved, Names DEF ControlInv
  <1>2. \A u \in Reloaders : u # t => pc'[u] = pc[u]
    BY <1>1, Names
  <1>3. pc'["main"] = pc["main"] /\ pc'["consumer"] = pc["consumer"]
    BY <1>1, Names
  <1>4. ControlTyped'
    BY <1>1 DEF ControlInv, ControlTyped
  <1>5. PhaseOK'
    <2>1. \A u \in Triggers : state # "running" => pc'[u] # "enter"
      BY <1>1, <1>2, Names DEF ControlInv, PhaseOK
    <2>2. Quiet /\ state # "running" => Quiet'
      BY <1>1, <1>2 DEF Quiet
    <2>3. pc["main"] \in Drained => state = "shutdown"
      BY DEF ControlInv, PhaseOK, Drained, Closing
    <2>4. conf_lock' = "none" <=> conf_lock = "none"
      BY Names
    <2> QED
      BY <1>3, <2>1, <2>2, <2>3, <2>4 DEF ControlInv, PhaseOK
  <1>6. ThreadsOK'
    <2>1. ~fork.dirty
      BY DEF ControlInv, ThreadsOK
    <2>2. ~watch.started => pc'["watcher"] \in {"none", "done", "gone"}
      BY <1>1, <1>2, Names DEF ControlInv, ThreadsOK
    <2> QED
      BY <2>1, <2>2 DEF ControlInv, ThreadsOK
  <1> QED
    BY <1>4, <1>5, <1>6 DEF ControlInv

LEMMA ReloadControl ==
    ASSUME ControlInv, NEW t \in Reloaders, hpu_core_trigger_reload(t)
    PROVE  ControlInv'
  <1> DEFINE Rest == /\ UNCHANGED <<state, source, saved, watch, fork, forked, file>>
                     /\ "main" \in late => "main" \in late'
  <1>0. /\ Leave(t) \in Places \ (Holding \cup {"enter"})
        /\ {"enter", "alloc", "load", "open", "swap"} \subseteq Places
        /\ {"alloc", "load", "open", "swap"} \subseteq Holding /\ "enter" \notin Holding
        /\ {"gone", "none", "done"} \cap Holding = {}
    BY DEF Leave, Places, Holding
  <1>w. pc[t] \in Holding \cup {"enter"} => (t = "watcher" => watch.started)
    BY <1>0 DEF ControlInv, ThreadsOK
  <1>h. pc[t] \in Holding => pc[t] # "gone" /\ state # "uninit" /\ conf_lock # "none"
    BY <1>0 DEF ControlInv, PhaseOK, hpu_core_trigger_reload, Abandoned, SlotHeld, Holding
  <1>1. CASE reload_call(t)
    <2>1. Goto(t, "enter") /\ Rest /\ conf' = conf /\ conf_lock' = conf_lock /\ busy' = busy
          /\ pc[t] = "out" /\ state = "running" /\ t \in Triggers
      BY <1>1 DEF reload_call
    <2>2. SlotOK'
      BY <2>1, <1>0, StillHeld, Zenon
    <2>3. busy' \in BOOLEAN /\ t # "watcher"
      BY <2>1, Names DEF ControlInv, ControlTyped
    <2> QED
      BY <2>1, <2>2, <2>3, <1>0, ReloaderMoves
  <1>2. CASE reload_try_enter(t)
    <2>1. Rest /\ conf' = conf /\ conf_lock' = conf_lock /\ pc[t] = "enter"
      BY <1>2, Names DEF reload_try_enter
    <2>2. CASE ~busy /\ busy' = TRUE /\ Goto(t, "alloc")
      <3>1. \A u \in Reloaders : pc[u] \notin Holding
        BY <2>2 DEF ControlInv, SlotOK
      <3>2. pc'[t] = "alloc" /\ \A u \in Reloaders : u # t => pc'[u] = pc[u]
        BY <2>2, <1>0, Moved, Names, Zenon DEF ControlInv
      <3>3. SlotOK'
        BY <2>2, <3>1, <3>2 DEF SlotOK
      <3> QED
        BY <2>1, <2>2, <3>3, <1>0, <1>w, ReloaderMoves
    <2>3. CASE Goto(t, Leave(t)) /\ busy' = busy
      <3>1. SlotOK'
        BY <2>3, <1>0, StillHeld, Zenon
      <3>2. busy' \in BOOLEAN
        BY <2>3 DEF ControlInv, ControlTyped
      <3> QED
        BY <2>1, <2>3, <3>1, <3>2, <1>0, <1>w, ReloaderMoves
    <2> QED
      BY <1>2, <2>2, <2>3 DEF reload_try_enter
  <1>3. CASE trigger_prepare(t)
    <2>1. Rest /\ conf' = conf /\ conf_lock' = conf_lock /\ pc[t] = "alloc"
      BY <1>3 DEF trigger_prepare
    <2>2. CASE Goto(t, "load") /\ busy' = busy
      <3>1. SlotOK'
        BY <2>1, <2>2, <1>0, StillHeld, Zenon
      <3>2. busy' \in BOOLEAN
        BY <2>2 DEF ControlInv, ControlTyped
      <3> QED
        BY <2>1, <2>2, <3>1, <3>2, <1>0, <1>w, ReloaderMoves
    <2>3. CASE busy' = FALSE /\ Goto(t, Leave(t))
      <3>1. SlotOK'
        BY <2>1, <2>3, <1>0, SlotReleased, Zenon
      <3> QED
        BY <2>1, <2>3, <3>1, <1>0, <1>w, ReloaderMoves
    <2> QED
      BY <1>3, <2>2, <2>3 DEF trigger_prepare
  <1>4. CASE finalize_reload(t)
    <2>1. Rest /\ conf' = conf /\ conf_lock' = conf_lock /\ pc[t] = "load"
      BY <1>4 DEF finalize_reload
    <2>2. CASE Goto(t, "open") /\ busy' = busy
      <3>1. SlotOK'
        BY <2>1, <2>2, <1>0, StillHeld, Zenon
      <3>2. busy' \in BOOLEAN
        BY <2>2 DEF ControlInv, ControlTyped
      <3> QED
        BY <2>1, <2>2, <3>1, <3>2, <1>0, <1>w, ReloaderMoves
    <2>3. CASE busy' = FALSE /\ Goto(t, Leave(t))
      <3>1. SlotOK'
        BY <2>1, <2>3, <1>0, SlotReleased, Zenon
      <3> QED
        BY <2>1, <2>3, <3>1, <1>0, <1>w, ReloaderMoves
    <2> QED
      BY <1>4, <2>2, <2>3 DEF finalize_reload, Abandon
  <1>5. CASE open_next(t)
    <2>1. Rest /\ conf' = conf /\ conf_lock' = conf_lock /\ pc[t] = "open"
      BY <1>5 DEF open_next
    <2>2. CASE UNCHANGED <<busy, pc>>
      BY <2>1, <2>2 DEF ControlInv, ControlTyped, SlotOK, PhaseOK, Quiet, ThreadsOK
    <2>3. CASE busy' = FALSE /\ Goto(t, Leave(t))
      <3>1. SlotOK'
        BY <2>1, <2>3, <1>0, SlotReleased, Zenon
      <3> QED
        BY <2>1, <2>3, <3>1, <1>0, <1>w, ReloaderMoves
    <2> QED
      BY <1>5, <2>2, <2>3 DEF open_next, Abandon
  <1>6. CASE swap_lock(t)
    <2>1. Rest /\ conf' = conf /\ conf_lock' = t /\ pc[t] = "open" /\ Goto(t, "swap") /\ busy' = busy
      BY <1>6 DEF swap_lock
    <2>2. SlotOK'
      BY <2>1, <1>0, StillHeld, Zenon
    <2>3. busy' \in BOOLEAN
      BY <2>1 DEF ControlInv, ControlTyped
    <2> QED
      BY <2>1, <2>2, <2>3, <1>0, <1>w, <1>h, ReloaderMoves
  <1>7. CASE reload_swap(t)
    <2>1. Rest /\ conf_lock' = "free" /\ pc[t] = "swap" /\ Goto(t, Leave(t)) /\ busy' = FALSE
      BY <1>7 DEF reload_swap
    <2>2. SlotOK'
      BY <2>1, <1>0, SlotReleased, Zenon
    <2> QED
      BY <2>1, <2>2, <1>0, <1>w, <1>h, ReloaderMoves
  <1> QED
    BY <1>1, <1>2, <1>3, <1>4, <1>5, <1>6, <1>7 DEF hpu_core_trigger_reload

LEMMA WatcherControl ==
    ASSUME ControlInv, watcher_loop
    PROVE  ControlInv'
  <1> DEFINE Rest == UNCHANGED <<state, conf, conf_lock, busy, late, source, saved, watch,
                                 fork, forked, file>>
  <1>0. /\ {"done", "wait", "changed", "enter", "top"} \subseteq Places \ Holding
        /\ {"none", "done", "gone"} \cap {"top", "wait", "changed"} = {}
    BY DEF Places, Holding
  <1>1. Rest /\ pc["watcher"] \in {"top", "wait", "changed"}
    BY DEF watcher_loop
  <1>2. PICK l \in {"done", "wait", "changed", "enter", "top"} :
            Goto("watcher", l) /\ (l = "enter" => state = "running")
    BY DEF watcher_loop
  <1>3. SlotOK'
    BY <1>0, <1>1, <1>2, Names, StillHeld
  <1>4. watch.started
    BY <1>0, <1>1 DEF ControlInv, ThreadsOK
  <1>5. busy' \in BOOLEAN
    BY <1>1 DEF ControlInv, ControlTyped
  <1> QED
    BY <1>0, <1>1, <1>2, <1>3, <1>4, <1>5, Names, ReloaderMoves

(* A step of consumer, logger or main that leaves the reloaders where they are. *)
LEMMA OthersMove ==
    ASSUME ControlInv, NEW t \in {"main", "consumer", "logger"}, NEW l \in Places, Goto(t, l)
    PROVE  /\ pc' \in [Threads -> Places] /\ pc'[t] = l
           /\ \A u \in Reloaders : pc'[u] = pc[u]
           /\ \A u \in {"main", "consumer", "logger"} : u # t => pc'[u] = pc[u]
           /\ busy' = busy => SlotOK'
           /\ Quiet => Quiet'
  <1>1. /\ pc' \in [Threads -> Places] /\ pc'[t] = l
        /\ \A u \in Threads : u # t => pc'[u] = pc[u]
    BY Moved, Names DEF ControlInv
  <1>2. \A u \in Reloaders : u # t /\ u \in Threads
    BY Names
  <1>3. \A u \in Reloaders : pc'[u] = pc[u]
    BY <1>1, <1>2
  <1> QED
    BY <1>1, <1>3, Names DEF SlotOK, Quiet, ControlInv

LEMMA OthersControl ==
    ASSUME ControlInv, consumer_deliver \/ submit \/ EditFile
    PROVE  ControlInv'
  <1> DEFINE Rest == UNCHANGED <<state, conf, busy, late, source, saved, watch, fork, forked>>
  <1>0. {"deliver", "idle", "none", "throttle", "out"} \subseteq Places
    BY DEF Places
  <1>1. CASE consumer_deliver
    <2>1. PICK l \in {"deliver", "idle", "none"} : Goto("consumer", l)
      BY <1>1 DEF consumer_deliver
    <2>2. Rest /\ file' = file
      BY <1>1 DEF consumer_deliver
    <2>3. pc["consumer"] # "none" /\ (pc["consumer"] = "deliver" \/ pc["consumer"] = "idle")
      BY <1>1 DEF consumer_deliver
    <2>4. state # "uninit" /\ pc["main"] \notin {"retire", "free"} /\ ~fork.dirty
      BY <2>3 DEF ControlInv, PhaseOK, ThreadsOK
    <2>5. conf_lock' \in {"free", "consumer", conf_lock}
      BY <1>1 DEF consumer_deliver
    <2>6. /\ pc' \in [Threads -> Places] /\ \A u \in Reloaders : pc'[u] = pc[u]
          /\ pc'["main"] = pc["main"] /\ SlotOK' /\ (Quiet => Quiet')
      BY <1>0, <2>1, <2>2, OthersMove
    <2>7. ControlTyped'
      BY <2>2, <2>5, <2>6 DEF ControlInv, ControlTyped
    <2>8. PhaseOK'
      BY <2>2, <2>4, <2>5, <2>6, Names DEF ControlInv, PhaseOK
    <2>9. ThreadsOK'
      BY <2>2, <2>4, <2>6, Names DEF ControlInv, ThreadsOK
    <2> QED
      BY <2>6, <2>7, <2>8, <2>9 DEF ControlInv
  <1>2. CASE submit
    <2>1. PICK l \in {"throttle", "out"} : Goto("logger", l)
      BY <1>2 DEF submit
    <2>2. Rest /\ file' = file /\ conf_lock' = conf_lock
      BY <1>2 DEF submit
    <2>3. /\ pc' \in [Threads -> Places] /\ \A u \in Reloaders : pc'[u] = pc[u]
          /\ pc'["main"] = pc["main"] /\ pc'["consumer"] = pc["consumer"]
          /\ SlotOK' /\ (Quiet => Quiet')
      BY <1>0, <2>1, <2>2, OthersMove
    <2>4. ControlTyped'
      BY <2>2, <2>3 DEF ControlInv, ControlTyped
    <2>5. PhaseOK'
      BY <2>2, <2>3, Names DEF ControlInv, PhaseOK
    <2>6. ThreadsOK'
      BY <2>2, <2>3, Names DEF ControlInv, ThreadsOK
    <2> QED
      BY <2>3, <2>4, <2>5, <2>6 DEF ControlInv
  <1>3. CASE EditFile
    <2>1. Rest /\ pc' = pc /\ conf_lock' = conf_lock /\ file' \in EditFiles
      BY <1>3 DEF EditFile
    <2>2. ControlTyped'
      BY <2>1, RuntimeAssumption DEF ControlInv, ControlTyped
    <2> QED
      BY <2>1, <2>2 DEF ControlInv, SlotOK, PhaseOK, Quiet, ThreadsOK
  <1> QED
    BY <1>1, <1>2, <1>3

(* Calls of main that only visit the lock. *)
LEMMA CallControl ==
    ASSUME ControlInv,
           hpulogc_flush \/ hpulogc_sync \/ hpulogc_get_stats \/ control_locked
    PROVE  ControlInv'
  <1>1. UNCHANGED <<state, conf, conf_lock, busy, late, source, saved, watch, fork, forked,
                    file>>
    BY DEF hpulogc_flush, hpulogc_sync, hpulogc_get_stats, control_call, control_locked
  <1>2. pc["main"] \in {"out", "control"} /\ state = "running"
    BY DEF hpulogc_flush, hpulogc_sync, hpulogc_get_stats, control_call, control_locked,
           ControlInv, PhaseOK
  <1>3. pc' = pc \/ \E l \in {"out", "control"} : Goto("main", l)
    BY DEF hpulogc_flush, hpulogc_sync, hpulogc_get_stats, control_call, control_locked
  <1>4. CASE pc' = pc
    BY <1>1, <1>4 DEF ControlInv, ControlTyped, SlotOK, PhaseOK, Quiet, ThreadsOK
  <1>5. CASE \E l \in {"out", "control"} : Goto("main", l)
    <2>1. PICK l \in {"out", "control"} : Goto("main", l)
      BY <1>5
    <2>2. l \in Places /\ l \notin Drained \cup Closing \cup {"drain"}
      BY DEF Places, Drained, Closing
    <2>3. /\ pc' \in [Threads -> Places] /\ \A u \in Reloaders : pc'[u] = pc[u]
          /\ pc'["main"] = l /\ pc'["consumer"] = pc["consumer"] /\ SlotOK'
      BY <1>1, <2>1, <2>2, OthersMove
    <2>4. ControlTyped'
      BY <1>1, <2>3 DEF ControlInv, ControlTyped
    <2>5. PhaseOK'
      BY <1>1, <1>2, <2>2, <2>3, Names DEF ControlInv, PhaseOK, Closing
    <2>6. ThreadsOK'
      BY <1>1, <2>3, Names DEF ControlInv, ThreadsOK
    <2> QED
      BY <2>3, <2>4, <2>5, <2>6 DEF ControlInv
  <1> QED
    BY <1>3, <1>4, <1>5

(* The chain of a shutdown. *)
LEMMA ShutdownControl ==
    ASSUME ControlInv,
           hpulogc_shutdown \/ hpu_hotreload_stop \/ drain_reload \/ stop_consumer
             \/ core_stop_tail
    PROVE  ControlInv'
  <1> USE DEF ControlInv
  <1>0. /\ Closing \cup {"out"} \subseteq Places
        /\ Drained \subseteq Closing /\ "drain" \in Closing
    BY DEF Closing, Places, Drained
  <1>1. CASE hpulogc_shutdown
    <2>1. /\ UNCHANGED <<conf, conf_lock, busy, source, saved, watch, fork, forked, file>>
          /\ Goto("main", "stop watcher") /\ state = "running" /\ state' = "shutdown"
          /\ \A t \in Triggers : pc[t] # "enter"
      BY <1>1 DEF hpulogc_shutdown, CallersSettled
    <2>2. "stop watcher" \in Closing \ (Drained \cup {"drain", "retire", "free", "control"})
      BY DEF Closing, Drained
    <2>3. /\ pc' \in [Threads -> Places] /\ \A u \in Reloaders : pc'[u] = pc[u]
          /\ pc'["main"] = "stop watcher" /\ pc'["consumer"] = pc["consumer"] /\ SlotOK'
      BY <1>0, <2>1, <2>2, OthersMove
    <2>4. ControlTyped'
      BY <2>1, <2>3 DEF ControlTyped
    <2>5. PhaseOK'
      BY <2>1, <2>2, <2>3, Names DEF PhaseOK
    <2>6. ThreadsOK'
      BY <2>1, <2>3, Names DEF ThreadsOK
    <2> QED
      BY <2>3, <2>4, <2>5, <2>6
  <1>2. CASE hpu_hotreload_stop
    <2>1. /\ UNCHANGED <<state, conf, conf_lock, busy, late, source, saved, fork, forked, file>>
          /\ pc["main"] \in {"stop watcher", "join watcher"}
      BY <1>2 DEF hpu_hotreload_stop
    <2>2. PICK l \in {"join watcher", "drain"} :
              /\ Goto("main", l)
              /\ watch'.started => watch.started
              /\ l = "drain" => ~watch'.started
              /\ ~watch'.started =>
                    ~watch.started \/ pc["watcher"] \in {"none", "done", "gone"}
              /\ watch' \in WatchFlags
      BY <1>2 DEF hpu_hotreload_stop, ControlTyped, ForkFlags, WatchFlags
    <2>3. l \in Closing \ (Drained \cup {"retire", "free", "control"})
      BY DEF Closing, Drained
    <2>4. /\ pc' \in [Threads -> Places] /\ \A u \in Reloaders : pc'[u] = pc[u]
          /\ pc'["main"] = l /\ pc'["consumer"] = pc["consumer"] /\ SlotOK'
      BY <1>0, <2>1, <2>2, <2>3, OthersMove
    <2>5. state = "shutdown"
      BY <2>1 DEF PhaseOK, Closing
    <2>6. ControlTyped'
      BY <2>1, <2>2, <2>4 DEF ControlTyped
    <2>7. PhaseOK'
      BY <2>1, <2>2, <2>3, <2>4, <2>5, Names DEF PhaseOK
    <2>8. ThreadsOK'
      BY <2>1, <2>2, <2>4, Names DEF ThreadsOK
    <2> QED
      BY <2>4, <2>6, <2>7, <2>8
  <1>3. CASE drain_reload
    <2>1. /\ UNCHANGED <<state, conf, conf_lock, busy, late, source, saved, watch, fork,
                         forked, file>>
          /\ pc["main"] = "drain" /\ Goto("main", "stop consumer")
          /\ (~busy \/ "main" \in late)
      BY <1>3 DEF drain_reload
    <2>2. "stop consumer" \in Closing \ {"retire", "free", "control"}
      BY DEF Closing
    <2>3. /\ pc' \in [Threads -> Places] /\ \A u \in Reloaders : pc'[u] = pc[u]
          /\ pc'["main"] = "stop consumer" /\ pc'["consumer"] = pc["consumer"] /\ SlotOK'
          /\ (Quiet => Quiet')
      BY <1>0, <2>1, <2>2, OthersMove
    <2>4. state = "shutdown" /\ ~watch.started
      BY <1>0, <2>1 DEF PhaseOK
    <2>5. "main" \in late \/ \A t \in Reloaders : pc[t] \notin Holding
      BY <2>1 DEF SlotOK
    <2>6. Quiet \/ "main" \in late
      BY <2>4, <2>5, Names DEF PhaseOK, ThreadsOK, Quiet
    <2>7. ControlTyped'
      BY <2>1, <2>3 DEF ControlTyped
    <2>8. PhaseOK'
      BY <2>1, <2>2, <2>3, <2>4, <2>6, Names DEF PhaseOK
    <2>9. ThreadsOK'
      BY <2>1, <2>3, Names DEF ThreadsOK
    <2> QED
      BY <2>3, <2>7, <2>8, <2>9
  <1>4. CASE stop_consumer
    <2>1. UNCHANGED <<state, conf, conf_lock, busy, late, source, saved, watch, fork, forked,
                      file>>
      BY <1>4 DEF stop_consumer
    <2>2. pc["main"] \in Drained
      BY <1>4 DEF stop_consumer, Drained
    <2>3. PICK l \in {"join consumer", "retire"} :
              Goto("main", l) /\ (l = "retire" => pc["consumer"] = "none")
      BY <1>4 DEF stop_consumer
    <2>4. l \in Drained \ {"free", "control", "drain"}
      BY DEF Drained
    <2>5. /\ pc' \in [Threads -> Places] /\ \A u \in Reloaders : pc'[u] = pc[u]
          /\ pc'["main"] = l /\ pc'["consumer"] = pc["consumer"] /\ SlotOK'
          /\ (Quiet => Quiet')
      BY <1>0, <2>1, <2>3, <2>4, OthersMove
    <2>6. state = "shutdown" /\ ~watch.started /\ (Quiet \/ "main" \in late)
      BY <1>0, <2>2 DEF PhaseOK
    <2>7. ControlTyped'
      BY <2>1, <2>5 DEF ControlTyped
    <2>8. PhaseOK'
      BY <1>0, <2>1, <2>3, <2>4, <2>5, <2>6, Names DEF PhaseOK
    <2>9. ThreadsOK'
      BY <2>1, <2>5, Names DEF ThreadsOK
    <2> QED
      BY <2>5, <2>7, <2>8, <2>9
  <1>5. CASE core_stop_tail
    <2>1. UNCHANGED <<busy, late, forked, file>>
      BY <1>5 DEF core_stop_tail
    <2>2. pc["main"] \in {"retire", "free"}
      BY <1>5 DEF core_stop_tail
    <2>3. pc["main"] \in Drained /\ "free" \in Drained /\ "free" \notin {"out", "control", "drain"}
      BY <2>2 DEF Drained
    <2>4. /\ state = "shutdown" /\ ~watch.started /\ pc["consumer"] = "none"
          /\ Quiet \/ "main" \in late
      BY <1>0, <2>2, <2>3 DEF PhaseOK
    <2>5. PICK l \in {"free", "out"} :
              /\ Goto("main", l)
              /\ l = "free" => UNCHANGED <<state, conf, conf_lock, source, saved, watch, fork>>
              /\ l = "out" =>
                    /\ conf' = None /\ conf_lock' = "none" /\ saved' = "none"
                    /\ state' = "uninit" /\ source' = FALSE
                    /\ watch' = [started |-> FALSE, exit |-> FALSE]
                    /\ fork' = [child |-> FALSE, dirty |-> FALSE, disabled |-> FALSE,
                               behavior |-> "none"]
      BY <1>5 DEF core_stop_tail, Goto
    <2>6. l \in Places
      BY DEF Places, Closing
    <2>7. /\ pc' \in [Threads -> Places] /\ \A u \in Reloaders : pc'[u] = pc[u]
          /\ pc'["main"] = l /\ pc'["consumer"] = "none" /\ SlotOK'
          /\ Quiet' \/ "main" \in late'
      BY <2>1, <2>4, <2>5, <2>6, OthersMove
    <2>8. ControlTyped'
      <3>1. fork' \in ForkFlags /\ watch' \in WatchFlags
        <4>1. /\ [started |-> FALSE, exit |-> FALSE] \in WatchFlags
              /\ [child |-> FALSE, dirty |-> FALSE, disabled |-> FALSE, behavior |-> "none"]
                    \in ForkFlags
          BY DEF ForkFlags, WatchFlags
        <4> QED
          BY <2>5, <4>1 DEF ControlTyped
      <3> QED
        BY <2>1, <2>5, <2>7, <3>1 DEF ControlTyped
    <2>9. ThreadsOK'
      BY <2>1, <2>4, <2>5, <2>7, Names DEF ThreadsOK
    <2>10. CASE l = "free"
      <3>1. PhaseOK'
        BY <1>0, <2>3, <2>4, <2>5, <2>7, <2>10, Names DEF PhaseOK
      <3> QED
        BY <2>7, <2>8, <2>9, <3>1
    <2>11. CASE l = "out"
      <3>1. "out" \notin Closing \cup Drained
        BY DEF Closing, Drained
      <3>2. \A u \in Triggers : pc'[u] # "enter"
        BY <2>4, <2>7, Names DEF PhaseOK
      <3>3. PhaseOK'
        BY <2>5, <2>7, <2>11, <3>1, <3>2 DEF PhaseOK
      <3> QED
        BY <2>7, <2>8, <2>9, <3>3
    <2> QED
      BY <2>10, <2>11
  <1> QED
    BY <1>1, <1>2, <1>3, <1>4, <1>5

(* Fork keeps main, and rebuilding starts it anew. *)
LEMMA ForkControl ==
    ASSUME ControlInv, hpu_atfork_child \/ hpu_core_fork_check
    PROVE  ControlInv'
  <1> USE DEF ControlInv
  <1>1. CASE hpu_atfork_child
    <2>1. /\ UNCHANGED <<state, conf, busy, source, saved, watch, file>>
          /\ pc["main"] = "out" /\ state = "running" /\ forked' = TRUE
          /\ conf_lock' \in {"free", conf_lock}
          /\ pc' = [t \in Threads |->
                CASE t = "main" -> "out"
                  [] t = "consumer" /\ fork.behavior # "disable" -> "none"
                  [] OTHER -> "gone"]
          /\ fork' = [fork EXCEPT !.child = TRUE, !.disabled = (fork.behavior = "disable"),
                                 !.dirty = (fork.behavior = "reinit")]
      BY <1>1 DEF hpu_atfork_child
    <2>2. /\ pc'["main"] = "out" /\ \A u \in Reloaders : pc'[u] = "gone"
          /\ fork.behavior # "disable" => pc'["consumer"] = "none"
          /\ \A t \in Threads : pc'[t] \in {"out", "none", "gone"}
      BY <2>1, Names
    <2>3. {"out", "none", "gone"} \subseteq Places /\ "out" \notin Closing \cup Drained
          /\ "gone" \notin Holding
      BY DEF Places, Closing, Drained, Holding
    <2>4. pc' \in [Threads -> Places]
      BY <2>1, <2>2, <2>3
    <2>5. /\ fork'.child = TRUE /\ fork'.dirty = (fork.behavior = "reinit")
          /\ fork' \in ForkFlags
      BY <2>1 DEF ControlTyped, ForkFlags, WatchFlags
    <2>6. ControlTyped'
      BY <2>1, <2>4, <2>5 DEF ControlTyped
    <2>7. SlotOK'
      BY <2>2, <2>3 DEF SlotOK
    <2>8. PhaseOK'
      BY <2>1, <2>2, <2>3, Names DEF PhaseOK
    <2>9. ThreadsOK'
      BY <2>1, <2>2, <2>5, Names DEF ThreadsOK
    <2> QED
      BY <2>6, <2>7, <2>8, <2>9
  <1>2. CASE hpu_core_fork_check
    <2>1. /\ UNCHANGED <<conf_lock, busy, late, source, saved, file, forked>>
          /\ pc["main"] = "out" /\ state = "running" /\ fork.child /\ fork.dirty
      BY <1>2 DEF hpu_core_fork_check
    <2>2. /\ fork'.dirty = FALSE /\ fork'.child = fork.child
          /\ fork' \in ForkFlags
      BY <1>2 DEF hpu_core_fork_check, ControlTyped, ForkFlags, WatchFlags
    <2>3. pc["consumer"] = "none" /\ \A t \in Reloaders : pc[t] = "gone"
      BY <2>1 DEF ThreadsOK
    <2>4. CASE UNCHANGED <<conf, state, watch, pc>>
      <3>1. ControlTyped'
        BY <2>1, <2>2, <2>4 DEF ControlTyped
      <3>2. SlotOK' /\ PhaseOK'
        BY <2>1, <2>2, <2>4 DEF SlotOK, PhaseOK, Quiet
      <3>3. ThreadsOK'
        BY <2>1, <2>2, <2>4 DEF ThreadsOK
      <3> QED
        BY <3>1, <3>2, <3>3
    <2>5. CASE core_start(Min(Unallocated), RebuildContent, source)
      <3>1. /\ state' = "running"
            /\ watch' \in {watch, [started |-> TRUE, exit |-> FALSE]}
            /\ pc' = [pc EXCEPT !["consumer"] = "idle",
                                !["watcher"] = IF source /\ ~watch.started THEN "top" ELSE @]
            /\ ~watch'.started => watch' = watch /\ ~(source /\ ~watch.started)
        BY <2>5 DEF core_start, ControlTyped
      <3>2. /\ pc'["main"] = "out" /\ pc'["consumer"] = "idle"
            /\ pc'["watcher"] \in {"top", "gone"}
            /\ ~watch'.started => pc'["watcher"] = "gone"
            /\ \A t \in Triggers : pc'[t] = "gone"
        BY <2>1, <2>3, <3>1, Names DEF ControlTyped
      <3>3. {"idle", "top"} \subseteq Places /\ "out" \notin Closing \cup Drained
            /\ {"top", "gone"} \cap Holding = {}
        BY DEF Places, Closing, Drained, Holding
      <3>4. pc' \in [Threads -> Places]
        BY <3>1, <3>3, Names DEF ControlTyped
      <3>5. ControlTyped'
        <4>1. watch' \in WatchFlags
          <5>1. [started |-> TRUE, exit |-> FALSE] \in WatchFlags
            BY DEF WatchFlags
          <5> QED
            BY <3>1, <5>1 DEF ControlTyped
        <4> QED
          BY <2>1, <2>2, <3>1, <3>4, <4>1 DEF ControlTyped
      <3>6. \A t \in Reloaders : pc'[t] \notin Holding
        BY <3>2, <3>3, Names
      <3>7. SlotOK'
        BY <3>6 DEF SlotOK
      <3>8. PhaseOK'
        BY <2>1, <3>1, <3>2, <3>3 DEF PhaseOK
      <3>9. ThreadsOK'
        BY <2>1, <2>2, <3>2 DEF ThreadsOK
      <3> QED
        BY <3>5, <3>7, <3>8, <3>9
    <2> QED
      BY <1>2, <2>4, <2>5 DEF hpu_core_fork_check
  <1> QED
    BY <1>1, <1>2

(* A deadline passes. *)
LEMMA DeadlineControl ==
    ASSUME ControlInv, NEW t, deadline_passes(t)
    PROVE  ControlInv'
  <1>1. UNCHANGED <<state, conf, conf_lock, busy, source, saved, watch, fork, forked, pc, file>>
        /\ ("main" \in late => "main" \in late')
    BY DEF deadline_passes
  <1> QED
    BY <1>1 DEF ControlInv, ControlTyped, SlotOK, PhaseOK, Quiet, ThreadsOK

LEMMA ControlStep ==
    ASSUME ControlInv, [Next]_vars
    PROVE  ControlInv'
  <1>1. CASE ~Abandoned /\ \E k \in DOMAIN Codes : hpulogc_init(k)
    <2>1. PICK k \in DOMAIN Codes : hpulogc_init(k)
      BY <1>1
    <2>2. k \in Contents
      BY DEF Contents
    <2>3. init_common(k, FALSE, k, CodeStarts[k])
      BY <2>1 DEF hpulogc_init
    <2> QED
      BY <1>1, <2>2, <2>3, InitControl
  <1>2. CASE ~Abandoned /\ hpulogc_init_default
    <2>1. "default" \in Contents /\ saved \in DOMAIN Codes \cup {"none"}
      BY DEF Contents, ControlInv, ControlTyped
    <2>2. init_common("default", FALSE, saved, TRUE)
      BY <1>2 DEF hpulogc_init_default
    <2> QED
      BY <1>2, <2>1, <2>2, InitControl
  <1>3. CASE ~Abandoned /\ hpulogc_init_from_file
    <2>1. file \in Contents /\ saved \in DOMAIN Codes \cup {"none"}
      BY DEF Contents, ControlInv, ControlTyped
    <2>2. init_common(file, TRUE, saved, FileLoads[file]["from file"] /\ Finalizes[file])
      BY <1>3, Zenon DEF hpulogc_init_from_file
    <2> QED
      BY <1>3, <2>1, <2>2, InitControl, Zenon
  <1>4. CASE UNCHANGED vars
    BY <1>4 DEF vars, ControlInv, ControlTyped, SlotOK, PhaseOK, Quiet, ThreadsOK
  <1> QED
    BY <1>1, <1>2, <1>3, <1>4, ReloadControl, WatcherControl, OthersControl, CallControl,
       ShutdownControl, ForkControl, DeadlineControl, Zenon DEF Next, MainCall, MainStep

-----------------------------------------------------------------------------
(* What a step does to the snapshots *)

Same == UNCHANGED <<conf, open, fast, forked>> /\ (state' = "uninit" <=> state = "uninit")
Elsewhere(t) == \A u \in Reloaders \ {t} : pc'[u] = pc[u]

(* Nothing: no snapshot, no handle, nobody begins or ends building one. *)
Still ==
    /\ Same /\ UNCHANGED <<heap, loc>>
    /\ \A t \in Reloaders : /\ pc'[t] \in Building <=> pc[t] \in Building
                            /\ pc'[t] = "load" <=> pc[t] = "load"

(* The children of a fork: all but main are gone. *)
Forks ==
    /\ UNCHANGED <<conf, open, fast, heap, loc>> /\ state # "uninit" /\ state' # "uninit"
    /\ forked' = TRUE /\ \A t \in Reloaders : pc'[t] \notin Building

(* A snapshot becomes the first active one, or the one a child rebuilt. *)
Starts(s, content, slots) ==
    /\ s \in Snaps /\ heap[s].st = "unused"
    /\ content \in Contents /\ Checked(content)
    /\ slots \in OpenedSlots(s, content)
    /\ heap' = [heap EXCEPT ![s] = [st |-> "live", content |-> content, slots |-> slots]]
    /\ open' = open \cup Handles(slots)
    /\ conf' = s /\ fast' = content /\ state' # "uninit"
    /\ UNCHANGED <<loc, forked>>
    /\ state = "uninit" \/ forked
    /\ \A t \in Reloaders : pc[t] \notin Building /\ pc'[t] \notin Building

(* The stages of a reload. *)
Prepares(t, s) ==
    /\ state # "uninit" /\ pc[t] = "alloc" /\ pc'[t] = "load" /\ conf # None /\ Same
    /\ s \in Snaps /\ heap[s].st = "unused"
    /\ heap' = [heap EXCEPT ![s] = [st |-> "live", content |-> "none", slots |-> <<>>]]
    /\ \E strict \in {"yes", "no"} :
          loc' = [loc EXCEPT ![t] = [NoLocals EXCEPT !.fresh = s, !.live = conf,
                                                     !.strict = strict]]
Plans(t) ==
    /\ state # "uninit" /\ pc[t] = "load" /\ pc'[t] = "open" /\ Same
    /\ FileLoads[file][loc[t].strict] /\ Reloads[file]
    /\ LET old == heap[loc[t].live]
           opened == {j \in DOMAIN old.slots: old.slots[j] # NoHandle}
       IN /\ loc' = [loc EXCEPT ![t].next = 1,
                       ![t].plan = ReusePlan(FileConf[file], ConfOf(old.content), opened)]
          /\ heap' = [heap EXCEPT ![loc[t].fresh] =
               [st |-> "live", content |-> file,
                slots |-> [i \in DOMAIN FileConf[file].outputs |-> NoHandle]]]
Drops(t) ==
    /\ state # "uninit" /\ pc[t] \in Building /\ pc'[t] \notin Building
    /\ UNCHANGED <<conf, fast, forked>> /\ (state' = "uninit" <=> state = "uninit")
    /\ open' = open \ Handles(FreshOf(t).slots)
    /\ heap' = Forget(loc[t].fresh)
    /\ loc' = [loc EXCEPT ![t] = NoLocals]
Skips(t) ==
    /\ state # "uninit" /\ pc[t] = "open" /\ pc' = pc /\ Same /\ heap' = heap
    /\ loc' = [loc EXCEPT ![t].next = loc[t].next + 1]
Opens(t) ==
    LET i == loc[t].next
        h == <<loc[t].fresh, FreshOf(t).content, i>>
    IN /\ state # "uninit" /\ pc[t] = "open" /\ pc' = pc
       /\ UNCHANGED <<conf, fast, forked>> /\ (state' = "uninit" <=> state = "uninit")
       /\ i <= Len(loc[t].plan) /\ loc[t].plan[i] = 0
       /\ heap' = [heap EXCEPT ![loc[t].fresh].slots[i] = h]
       /\ open' = open \cup {h}
       /\ loc' = [loc EXCEPT ![t].next = i + 1]
Swaps(t) == state # "uninit" /\ reload_swap(t) /\ pc'[t] \notin Building

(* Shutdown frees the active snapshot. *)
Ends ==
    /\ state # "uninit" /\ state' = "uninit"
    /\ \A t \in Reloaders : pc'[t] = pc[t]
    /\ heap' = Free(conf) /\ open' = open \ Handles(heap[conf].slots)
    /\ conf' = None /\ UNCHANGED <<loc, forked>>

Reloading(t) ==
    /\ (\E s \in Snaps : Prepares(t, s)) \/ Plans(t) \/ Drops(t) \/ Skips(t) \/ Opens(t)
         \/ Swaps(t)
    /\ Elsewhere(t)
Effect ==
    \/ Still \/ Forks \/ Ends
    \/ \E s \in Snaps, content \in Contents : \E slots : Starts(s, content, slots)
    \/ \E t \in Reloaders : Reloading(t)

(* A reloader that moves leaves the others where they are. *)
LEMMA Alone ==
    ASSUME ControlInv, NEW t \in Reloaders, NEW l \in Places, Goto(t, l)
    PROVE  pc'[t] = l /\ Elsewhere(t)
  BY Moved, Names DEF ControlInv, Elsewhere

LEMMA ReloadEffect ==
    ASSUME ControlInv, NEW t \in Reloaders, hpu_core_trigger_reload(t)
    PROVE  Effect
  <1>0. /\ Leave(t) \in Places \ (Building \cup {"load"})
        /\ {"enter", "alloc", "load", "open", "swap"} \subseteq Places
        /\ {"load", "open", "swap"} \subseteq Building
        /\ {"out", "enter", "alloc"} \cap Building = {}
    BY DEF Leave, Places, Holding, Building
  <1>h. pc[t] \in Building \cup {"alloc"} => state # "uninit"
    BY DEF ControlInv, PhaseOK, hpu_core_trigger_reload, Abandoned, SlotHeld, Building
  <1>1. ASSUME NEW l \in Places, Goto(t, l), Same, UNCHANGED <<heap, loc>>,
               l \in Building <=> pc[t] \in Building, l = "load" <=> pc[t] = "load"
        PROVE  Still
    <2>1. pc'[t] = l /\ Elsewhere(t)
      BY <1>1, Alone, Zenon
    <2> QED
      BY <1>1, <2>1 DEF Still, Elsewhere
  <1>2. CASE reload_call(t)
    <2>1. Goto(t, "enter") /\ pc[t] = "out" /\ Same /\ UNCHANGED <<heap, loc>>
      BY <1>2 DEF reload_call, Same
    <2> QED
      BY <2>1, <1>0, <1>1 DEF Effect
  <1>3. CASE reload_try_enter(t)
    <2>1. pc[t] = "enter" /\ Same /\ UNCHANGED <<heap, loc>>
          /\ (Goto(t, "alloc") \/ Goto(t, Leave(t)))
      BY <1>3 DEF reload_try_enter, Same
    <2> QED
      BY <2>1, <1>0, <1>1 DEF Effect
  <1>4. CASE trigger_prepare(t)
    <2>1. pc[t] = "alloc" /\ Same
      BY <1>4 DEF trigger_prepare, Same
    <2>2. CASE Goto(t, Leave(t)) /\ UNCHANGED <<heap, loc>>
      BY <2>1, <2>2, <1>0, <1>1 DEF Effect
    <2>3. CASE /\ conf # None /\ Goto(t, "load")
               /\ \E s \in Snaps:
                    /\ s \in Unallocated
                    /\ heap' = [heap EXCEPT ![s] = [st |-> "live", content |-> "none",
                                                    slots |-> <<>>]]
                    /\ loc' = [loc EXCEPT ![t] =
                         [NoLocals EXCEPT !.fresh = s, !.live = conf,
                          !.strict = IF ConfOf(heap[conf].content).strict_init
                                     THEN "yes" ELSE "no"]]
      <3>1. pc'[t] = "load" /\ Elsewhere(t)
        BY <1>0, <2>3, Alone, Zenon
      <3>2. PICK s \in Snaps :
                /\ heap[s].st = "unused"
                /\ heap' = [heap EXCEPT ![s] = [st |-> "live", content |-> "none",
                                                slots |-> <<>>]]
                /\ loc' = [loc EXCEPT ![t] =
                     [NoLocals EXCEPT !.fresh = s, !.live = conf,
                      !.strict = IF ConfOf(heap[conf].content).strict_init
                                 THEN "yes" ELSE "no"]]
        BY <2>3, Zenon DEF Unallocated
      <3> DEFINE strict == IF ConfOf(heap[conf].content).strict_init THEN "yes" ELSE "no"
      <3>3. strict \in {"yes", "no"}
        OBVIOUS
      <3>4. Prepares(t, s)
        BY <1>h, <2>1, <2>3, <3>1, <3>2, <3>3, Zenon DEF Prepares
      <3> QED
        BY <3>1, <3>4, Zenon DEF Effect, Reloading
    <2> QED
      BY <1>4, <2>2, <2>3, Zenon DEF trigger_prepare
  <1>5. ASSUME NEW content, Abandon(t, content), pc[t] \in Building,
               UNCHANGED <<conf, fast, forked, state>>
        PROVE  Effect
    <2>1. pc'[t] = Leave(t) /\ Elsewhere(t)
      BY <1>0, <1>5, Alone, Zenon DEF Abandon
    <2>2. Drops(t)
      BY <1>0, <1>h, <1>5, <2>1, Zenon DEF Drops, Abandon
    <2> QED
      BY <2>1, <2>2, Zenon DEF Effect, Reloading
  <1>6. CASE finalize_reload(t)
    <2>1. pc[t] = "load" /\ UNCHANGED <<conf, fast, forked, state>>
      BY <1>6 DEF finalize_reload
    <2>2. CASE Abandon(t, file)
      BY <2>1, <2>2, <1>0, <1>5
    <2>3. CASE ~Abandon(t, file)
      <3>1. Goto(t, "open") /\ open' = open
        BY <1>6, <2>3, Zenon DEF finalize_reload
      <3>2. pc'[t] = "open" /\ Elsewhere(t)
        BY <1>0, <3>1, Alone, Zenon
      <3>3. Same
        BY <2>1, <3>1 DEF Same
      <3>4. Plans(t)
        BY <1>0, <1>h, <1>6, <2>1, <2>3, <3>2, <3>3, Zenon DEF finalize_reload, Plans
      <3> QED
        BY <3>2, <3>4, Zenon DEF Effect, Reloading
    <2> QED
      BY <2>2, <2>3
  <1>7. CASE open_next(t)
    <2>1. pc[t] = "open" /\ UNCHANGED <<conf, fast, forked, state>>
          /\ loc[t].next <= Len(loc[t].plan)
      BY <1>7 DEF open_next
    <2>2. pc' = pc => Elsewhere(t)
      BY DEF Elsewhere
    <2>3. CASE /\ loc' = [loc EXCEPT ![t].next = loc[t].next + 1]
               /\ UNCHANGED <<heap, open, pc>>
      <3>1. Skips(t)
        BY <1>0, <1>h, <2>1, <2>3 DEF Skips, Same
      <3> QED
        BY <2>2, <2>3, <3>1 DEF Effect, Reloading
    <2>4. CASE /\ loc[t].plan[loc[t].next] = 0
               /\ heap' = [heap EXCEPT ![loc[t].fresh].slots[loc[t].next]
                              = <<loc[t].fresh, FreshOf(t).content, loc[t].next>>]
               /\ open' = open \cup {<<loc[t].fresh, FreshOf(t).content, loc[t].next>>}
               /\ loc' = [loc EXCEPT ![t].next = loc[t].next + 1]
               /\ UNCHANGED pc
      <3>1. Opens(t)
        BY <1>0, <1>h, <2>1, <2>4 DEF Opens
      <3> QED
        BY <2>2, <2>4, <3>1, Zenon DEF Effect, Reloading
    <2>5. CASE Abandon(t, FreshOf(t).content)
      BY <2>1, <2>5, <1>0, <1>5
    <2> QED
      BY <1>7, <2>3, <2>4, <2>5, Zenon DEF open_next
  <1>8. CASE swap_lock(t)
    <2>1. Goto(t, "swap") /\ pc[t] = "open" /\ Same /\ UNCHANGED <<heap, loc>>
      BY <1>8 DEF swap_lock, Same
    <2> QED
      BY <2>1, <1>0, <1>1 DEF Effect
  <1>9. CASE reload_swap(t)
    <2>1. Goto(t, Leave(t))
      BY <1>9, Zenon DEF reload_swap
    <2>2. pc'[t] = Leave(t) /\ Elsewhere(t)
      BY <1>0, <2>1, Alone, Zenon
    <2>3. Swaps(t)
      BY <1>0, <1>h, <1>9, <2>2 DEF Swaps, reload_swap
    <2> QED
      BY <2>2, <2>3, Zenon DEF Effect, Reloading
  <1> QED
    BY <1>2, <1>3, <1>4, <1>6, <1>7, <1>8, <1>9, Zenon DEF hpu_core_trigger_reload

(* A start of the runtime from a content that passed its checks. *)
LEMMA StartEffect ==
    ASSUME ControlInv, NEW s \in Snaps, heap[s].st = "unused",
           NEW content \in Contents, Checked(content), NEW from_file,
           core_start(s, content, from_file), UNCHANGED <<loc, forked>>,
           state = "uninit" \/ forked, \A t \in Reloaders : pc[t] \notin Building
    PROVE  Effect
  <1>1. PICK slots \in OpenedSlots(s, content) :
            /\ heap' = [heap EXCEPT ![s] = [st |-> "live", content |-> content,
                                            slots |-> slots]]
            /\ open' = open \cup Handles(slots)
            /\ conf' = s /\ fast' = content /\ state' = "running"
            /\ pc' = [pc EXCEPT !["consumer"] = "idle",
                           !["watcher"] = IF from_file /\ ~watch.started THEN "top" ELSE @]
    BY Zenon DEF core_start
  <1>2. \A t \in Reloaders : pc'[t] \in {pc[t], "top"}
    <2> SUFFICES ASSUME NEW t \in Reloaders
                 PROVE  pc'[t] \in {pc[t], "top"}
      OBVIOUS
    <2>1. t \in Threads /\ t # "consumer" /\ DOMAIN pc = Threads
      BY Names DEF ControlInv, ControlTyped
    <2> QED
      BY <1>1, <2>1
  <1>3. \A t \in Reloaders : pc'[t] \notin Building
    BY <1>2 DEF Building
  <1>4. state' # "uninit"
    BY <1>1
  <1>5. Starts(s, content, slots)
    BY <1>1, <1>3, <1>4, Zenon DEF Starts
  <1> QED
    BY <1>5, Zenon DEF Effect

LEMMA InitEffect ==
    ASSUME ControlInv, ~Abandoned, NEW content \in Contents, NEW from_file,
           NEW saved_cfg, NEW valid, valid => Checked(content), Unallocated # {},
           init_common(content, from_file, saved_cfg, valid)
    PROVE  Effect
  <1>1. /\ state = "uninit" /\ UNCHANGED <<loc, forked>>
        /\ \A t \in Reloaders : pc[t] \notin Building
    BY QuietBetween DEF init_common, Quiet, Holding, Building
  <1>2. CASE valid /\ core_start(Min(Unallocated), content, from_file)
    BY <1>1, <1>2, MinUnallocated, StartEffect
  <1>3. CASE UNCHANGED <<heap, open, conf, fast, state, pc>>
    BY <1>1, <1>3 DEF Effect, Still, Same
  <1> QED
    BY <1>2, <1>3, Zenon DEF init_common

(* A step that leaves the snapshots and the reloaders alone. *)
LEMMA OtherStill ==
    ASSUME ControlInv, UNCHANGED <<conf, open, fast, forked, heap, loc>>,
           state' = "uninit" <=> state = "uninit",
           pc' = pc \/ \E t \in {"main", "consumer", "logger"} : \E l : Goto(t, l)
    PROVE  Effect
  <1>1. \A u \in Reloaders : pc'[u] = pc[u]
    <2>1. CASE pc' = pc
      BY <2>1
    <2>2. ASSUME NEW t \in {"main", "consumer", "logger"}, NEW l, Goto(t, l)
          PROVE  \A u \in Reloaders : pc'[u] = pc[u]
      <3> SUFFICES ASSUME NEW u \in Reloaders
                   PROVE  pc'[u] = pc[u]
        OBVIOUS
      <3>1. u # t /\ u \in Threads /\ DOMAIN pc = Threads
        BY Names DEF ControlInv, ControlTyped
      <3> QED
        BY <2>2, <3>1 DEF Goto
    <2> QED
      BY <2>1, <2>2
  <1> QED
    BY <1>1 DEF Effect, Still, Same

LEMMA StepEffect ==
    ASSUME ControlInv, SavedOK, Next
    PROVE  Effect
  <1> DEFINE Keep == UNCHANGED <<conf, open, fast, forked, heap, loc>>
  <1>1. ASSUME ~Abandoned, NEW k \in DOMAIN Codes, hpulogc_init(k)
        PROVE  Effect
    <2>1. k \in Contents /\ (CodeStarts[k] => Checked(k))
      BY RuntimeAssumption DEF Contents, Checked
    <2>2. init_common(k, FALSE, k, CodeStarts[k]) /\ Unallocated # {}
      BY <1>1 DEF hpulogc_init
    <2> QED
      BY <1>1, <2>1, <2>2, InitEffect, Zenon
  <1>2. CASE ~Abandoned /\ hpulogc_init_default
    <2>1. "default" \in Contents /\ Checked("default")
      BY RuntimeAssumption DEF Contents, Checked
    <2>2. init_common("default", FALSE, saved, TRUE) /\ Unallocated # {}
      BY <1>2 DEF hpulogc_init_default
    <2> QED
      BY <1>2, <2>1, <2>2, InitEffect, Zenon
  <1>3. CASE ~Abandoned /\ hpulogc_init_from_file
    <2>1. file \in Contents
          /\ (FileLoads[file]["from file"] /\ Finalizes[file] => Checked(file))
      BY RuntimeAssumption DEF Contents, Checked, ControlInv, ControlTyped
    <2>2. /\ init_common(file, TRUE, saved, FileLoads[file]["from file"] /\ Finalizes[file])
          /\ Unallocated # {}
      BY <1>3, Zenon DEF hpulogc_init_from_file
    <2> QED
      BY <1>3, <2>1, <2>2, InitEffect, Zenon
  <1>4. CASE hpulogc_flush \/ hpulogc_sync \/ hpulogc_get_stats \/ control_locked
    <2>1. Keep /\ state' = state /\ (pc' = pc \/ \E l : Goto("main", l))
      BY <1>4 DEF hpulogc_flush, hpulogc_sync, hpulogc_get_stats, control_call, control_locked
    <2> QED
      BY <2>1, OtherStill
  <1>5. CASE consumer_deliver
    <2>1. Keep /\ state' = state /\ \E l : Goto("consumer", l)
      BY <1>5 DEF consumer_deliver
    <2> QED
      BY <2>1, OtherStill
  <1>6. CASE submit
    <2>1. Keep /\ state' = state /\ \E l : Goto("logger", l)
      BY <1>6 DEF submit
    <2> QED
      BY <2>1, OtherStill
  <1>7. CASE EditFile
    <2>1. Keep /\ state' = state /\ pc' = pc
      BY <1>7 DEF EditFile
    <2> QED
      BY <2>1, OtherStill
  <1>8. CASE hpulogc_shutdown \/ hpu_hotreload_stop \/ drain_reload \/ stop_consumer
    <2>1. Keep /\ (state' = state \/ (state = "running" /\ state' = "shutdown"))
          /\ \E l : Goto("main", l)
      BY <1>8 DEF hpulogc_shutdown, hpu_hotreload_stop, drain_reload, stop_consumer
    <2>2. state' = "uninit" <=> state = "uninit"
      BY <2>1
    <2> QED
      BY <2>1, <2>2, OtherStill
  <1>9. CASE core_stop_tail
    <2>1. UNCHANGED <<loc, forked>> /\ pc["main"] \in Drained
      BY <1>9 DEF core_stop_tail, Drained
    <2>2. CASE UNCHANGED <<state, conf, heap, open, fast>> /\ \E l : Goto("main", l)
      BY <2>1, <2>2, OtherStill
    <2>3. CASE /\ heap' = Free(conf) /\ open' = open \ Handles(heap[conf].slots)
               /\ conf' = None /\ state' = "uninit" /\ pc' = [pc EXCEPT !["main"] = "out"]
      <3>1. state # "uninit"
        BY <2>1 DEF ControlInv, PhaseOK, Drained, Closing
      <3>2. Goto("main", "out") /\ "out" \in Places
        BY <2>3 DEF Goto, Places
      <3>3. \A u \in Reloaders : pc'[u] = pc[u]
        BY <3>2, OthersMove
      <3> QED
        BY <2>1, <2>3, <3>1, <3>3, Zenon DEF Effect, Ends
    <2> QED
      BY <1>9, <2>2, <2>3, Zenon DEF core_stop_tail
  <1>10. CASE watcher_loop
    <2>1. UNCHANGED <<conf, open, fast, forked, heap, loc, state>>
      BY <1>10 DEF watcher_loop
    <2>2. PICK l \in {"done", "wait", "changed", "enter", "top"} : Goto("watcher", l)
      BY <1>10 DEF watcher_loop
    <2>3. pc["watcher"] \in {"top", "wait", "changed"}
      BY <1>10 DEF watcher_loop
    <2>4. l \in Places /\ l \notin Building /\ l # "load" /\ pc["watcher"] \notin Building
      BY <2>2, <2>3 DEF Places, Building
    <2>5. pc'["watcher"] = l /\ Elsewhere("watcher")
      BY <2>2, <2>4, Alone, Names
    <2>6. Still
      BY <2>1, <2>3, <2>4, <2>5 DEF Still, Same, Elsewhere
    <2> QED
      BY <2>6 DEF Effect
  <1>11. CASE hpu_atfork_child
    <2>1. UNCHANGED <<conf, open, fast, heap, loc, state>> /\ state = "running" /\ forked' = TRUE
      BY <1>11 DEF hpu_atfork_child
    <2>2. \A t \in Reloaders : pc'[t] = "gone"
      BY <1>11, Names DEF hpu_atfork_child
    <2> QED
      BY <2>1, <2>2 DEF Effect, Forks, Building
  <1>12. CASE hpu_core_fork_check
    <2>1. /\ UNCHANGED <<loc, forked>> /\ state = "running" /\ fork.child /\ fork.dirty
          /\ Unallocated # {}
      BY <1>12 DEF hpu_core_fork_check
    <2>2. forked /\ \A t \in Reloaders : pc[t] \notin Building
      BY <2>1 DEF ControlInv, ThreadsOK, Building
    <2>3. CASE UNCHANGED <<heap, open, conf, fast, state, pc>>
      BY <2>1, <2>3, OtherStill
    <2>4. CASE Rebuildable /\ core_start(Min(Unallocated), RebuildContent, source)
      <3>1. RebuildContent \in Contents
        BY <2>4 DEF Rebuildable, RebuildContent, Contents, ControlInv, ControlTyped
      <3>2. ASSUME source
            PROVE  Checked(RebuildContent)
        <4>1. RebuildContent = file /\ file \in DOMAIN Files
              /\ FileLoads[file]["from file"] /\ Finalizes[file]
          BY <2>4, <3>2 DEF Rebuildable, RebuildContent, ControlInv, ControlTyped
        <4>2. Checked(file)
          BY <4>1, RuntimeAssumption DEF Checked
        <4> QED
          BY <4>1, <4>2, Zenon
      <3>3. ASSUME ~source
            PROVE  Checked(RebuildContent)
        <4>1. RebuildContent = saved /\ saved \in DOMAIN Codes /\ CodeStarts[saved]
          BY <2>4, <3>3 DEF Rebuildable, RebuildContent, ControlInv, ControlTyped, SavedOK
        <4>2. Checked(saved)
          BY <4>1, RuntimeAssumption DEF Checked
        <4> QED
          BY <4>1, <4>2, Zenon
      <3>4. Checked(RebuildContent)
        BY <3>2, <3>3, Zenon
      <3> QED
        BY <2>1, <2>2, <2>4, <3>1, <3>4, MinUnallocated, StartEffect
    <2> QED
      BY <1>12, <2>3, <2>4, Zenon DEF hpu_core_fork_check
  <1>13. ASSUME NEW t, deadline_passes(t)
         PROVE  Effect
    <2>1. Keep /\ state' = state /\ pc' = pc
      BY <1>13 DEF deadline_passes
    <2> QED
      BY <2>1, OtherStill
  <1> QED
    BY <1>1, <1>2, <1>3, <1>4, <1>5, <1>6, <1>7, <1>8, <1>9, <1>10, <1>11, <1>12, <1>13,
       ReloadEffect, Zenon DEF Next, MainCall, MainStep

-----------------------------------------------------------------------------
(* Snapshots *)

SnapInv == HeapTyped /\ ConfOK /\ BuildOK /\ LiveOK

(* One snapshot is replaced. *)
LEMMA HeapSet ==
    ASSUME heap \in [Snaps -> Snapshot], NEW s \in Snaps, NEW snapshot \in Snapshot,
           heap' = [heap EXCEPT ![s] = snapshot]
    PROVE  /\ heap' \in [Snaps -> Snapshot] /\ heap'[s] = snapshot
           /\ \A r \in Snaps : r # s => heap'[r] = heap[r]
  <1> HIDE DEF Snaps, Snapshot
  <1> QED
    OBVIOUS

(* The locals of one reloader are replaced. *)
LEMMA LocSet ==
    ASSUME loc \in [Reloaders -> Locals], NEW t \in Reloaders, NEW locals \in Locals,
           loc' = [loc EXCEPT ![t] = locals]
    PROVE  /\ loc' \in [Reloaders -> Locals] /\ loc'[t] = locals
           /\ \A u \in Reloaders : u # t => loc'[u] = loc[u]
  OBVIOUS

(* The records a snapshot is made of. *)
LEMMA Records ==
    /\ Unused \in Snapshot /\ [st |-> "freed", content |-> "none", slots |-> <<>>] \in Snapshot
    /\ [st |-> "live", content |-> "none", slots |-> <<>>] \in Snapshot
    /\ \A content \in Contents, slots \in Seq(Handle) :
          [st |-> "live", content |-> content, slots |-> slots] \in Snapshot
    /\ NoLocals \in Locals /\ NoHandle \in Handle
  <1>1. <<>> \in Seq(Handle) /\ <<>> \in Seq(Nat)
    OBVIOUS
  <1> QED
    BY <1>1 DEF Unused, Snapshot, NoLocals, Locals, NoHandle, Handle, None

(* What the plan of a reload says of each output. *)
LEMMA PlanTyped ==
    ASSUME NEW f \in DOMAIN Files, NEW old, NEW opened \in SUBSET (Nat \ {0})
    PROVE  LET plan == ReusePlan(FileConf[f], old, opened)
               outputs == FileConf[f].outputs
           IN /\ plan \in Seq(Nat) /\ Len(plan) = Len(outputs)
              /\ DOMAIN plan = DOMAIN outputs /\ DOMAIN outputs = 1 .. Len(outputs)
              /\ \A k \in DOMAIN plan : plan[k] # 0 =>
                    /\ plan[k] \in opened
                    /\ old.outputs[plan[k]].type = "file" /\ outputs[k].type = "file"
                    /\ SameFile(old.outputs[plan[k]], outputs[k])
  <1> DEFINE outputs == FileConf[f].outputs
             n == Len(outputs)
             js(i) == {j \in opened: /\ old.outputs[j].type = "file"
                                    /\ SameFile(old.outputs[j], outputs[i])}
             plan == ReusePlan(FileConf[f], old, opened)
  <1>1. ConfOf(f) = FileConf[f]
    BY RuntimeAssumption DEF ConfOf
  <1>2. n \in Nat /\ DOMAIN outputs = 1 .. n
    BY <1>1, OutputsListed, Zenon DEF Contents
  <1>3. plan = [i \in 1 .. n |-> IF outputs[i].type # "file" THEN 0
                                  ELSE IF js(i) = {} THEN 0 ELSE Min(js(i))]
    BY <1>2, Zenon DEF ReusePlan
  <1>4. \A i : js(i) \in SUBSET Nat
    OBVIOUS
  <1>5. \A i : js(i) # {} => Min(js(i)) \in js(i)
    BY <1>4, MinIsLeast, Zenon
  <1> HIDE DEF outputs, n, js, plan
  <1>6. \A i \in 1 .. n : /\ plan[i] \in Nat
                          /\ plan[i] # 0 => outputs[i].type = "file" /\ plan[i] \in js(i)
    BY <1>3, <1>4, <1>5
  <1>7. plan \in [1 .. n -> Nat]
    BY <1>3, <1>6
  <1>8. plan \in Seq(Nat) /\ Len(plan) = n /\ DOMAIN plan = 1 .. n
    BY <1>2, <1>7
  <1>9. \A i \in 1 .. n : plan[i] \in js(i) =>
            /\ plan[i] \in opened /\ old.outputs[plan[i]].type = "file"
            /\ SameFile(old.outputs[plan[i]], outputs[i])
    BY Zenon DEF js
  <1> QED
    BY <1>2, <1>6, <1>8, <1>9, Zenon DEF outputs, plan, n

(* The slots of the snapshot a reload made, once the kept handles are moved to it. *)
NewSlots(t) ==
    [i \in DOMAIN heap[loc[t].fresh].slots |->
        IF loc[t].plan[i] \in DOMAIN heap[conf].slots
        THEN heap[conf].slots[loc[t].plan[i]] ELSE heap[loc[t].fresh].slots[i]]

LEMMA SwapHeap ==
    ASSUME HeapTyped, NEW t \in Reloaders, reload_swap(t),
           conf \in Snaps, loc[t].fresh \in Snaps, loc[t].fresh # conf
    PROVE  /\ heap' \in [Snaps -> Snapshot]
           /\ heap'[conf] = [st |-> "freed", content |-> "none", slots |-> <<>>]
           /\ heap'[loc[t].fresh].st = heap[loc[t].fresh].st
           /\ heap'[loc[t].fresh].content = heap[loc[t].fresh].content
           /\ heap'[loc[t].fresh].slots = NewSlots(t)
           /\ \A s \in Snaps \ {conf, loc[t].fresh} : heap'[s] = heap[s]
           /\ NewSlots(t) \in Seq(Handle) /\ Len(NewSlots(t)) = Len(heap[loc[t].fresh].slots)
  <1> DEFINE fresh == loc[t].fresh
             mine == heap[fresh].slots
             old == heap[conf].slots
             plan == loc[t].plan
             new == NewSlots(t)
             n == Len(mine)
  <1>1. mine \in Seq(Handle) /\ old \in Seq(Handle) /\ heap[fresh] \in Snapshot
    BY DEF HeapTyped, Snapshot
  <1>2. n \in Nat /\ DOMAIN mine = 1 .. n /\ \A i \in DOMAIN mine : mine[i] \in Handle
    BY <1>1, LenProperties, ElementOfSeq
  <1>3. \A j \in DOMAIN old : old[j] \in Handle
    BY <1>1, LenProperties, ElementOfSeq
  <1>4. new = [i \in 1 .. n |-> IF plan[i] \in DOMAIN old THEN old[plan[i]] ELSE mine[i]]
    BY <1>2, Zenon DEF NewSlots
  <1>5. heap' = [[heap EXCEPT ![conf] = [st |-> "freed", content |-> "none", slots |-> <<>>]]
                   EXCEPT ![fresh].slots = new]
    BY Zenon DEF reload_swap, Free, NewSlots
  <1> HIDE DEF mine, old, plan, new, n, fresh
  <1>6. new \in [1 .. n -> Handle]
    <2>1. \A i \in 1 .. n :
              (IF plan[i] \in DOMAIN old THEN old[plan[i]] ELSE mine[i]) \in Handle
      BY <1>2, <1>3
    <2> QED
      BY <1>4, <2>1
  <1>7. new \in Seq(Handle) /\ Len(new) = n
    BY <1>2, <1>6
  <1> DEFINE freed == [st |-> "freed", content |-> "none", slots |-> <<>>]
             mid == [heap EXCEPT ![conf] = freed]
  <1>8. freed \in Snapshot
    BY Records
  <1> HIDE DEF freed
  <1>9. mid \in [Snaps -> Snapshot] /\ mid[conf] = freed /\ mid[fresh] = heap[fresh]
        /\ \A s \in Snaps \ {conf} : mid[s] = heap[s]
    BY <1>8 DEF HeapTyped, fresh
  <1>10. heap' = [mid EXCEPT ![fresh] = [heap[fresh] EXCEPT !.slots = new]]
    BY <1>5, <1>9 DEF freed, fresh
  <1>11. [heap[fresh] EXCEPT !.slots = new] \in Snapshot
    BY <1>1, <1>7 DEF Snapshot
  <1>12. /\ [heap[fresh] EXCEPT !.slots = new].st = heap[fresh].st
         /\ [heap[fresh] EXCEPT !.slots = new].content = heap[fresh].content
         /\ [heap[fresh] EXCEPT !.slots = new].slots = new
    BY <1>1 DEF Snapshot
  <1> HIDE DEF mid
  <1> DEFINE rec == [heap[fresh] EXCEPT !.slots = new]
  <1> HIDE DEF rec
  <1>13. /\ heap' \in [Snaps -> Snapshot] /\ heap'[fresh] = rec
         /\ \A s \in Snaps \ {fresh} : heap'[s] = mid[s]
    BY <1>9, <1>10, <1>11 DEF rec, fresh
  <1>14. /\ rec.st = heap[fresh].st /\ rec.content = heap[fresh].content /\ rec.slots = new
    BY <1>12 DEF rec
  <1>15. heap'[conf] = freed /\ \A s \in Snaps \ {conf, fresh} : heap'[s] = heap[s]
    BY <1>9, <1>13 DEF fresh
  <1> QED
    BY <1>7, <1>13, <1>14, <1>15, Zenon DEF freed, fresh, new, n, mine

(* A step without effect. *)
LEMMA SnapStill ==
    ASSUME SnapInv, Still
    PROVE  SnapInv'
  <1>1. HeapTyped'
    BY DEF SnapInv, HeapTyped, Still, Same
  <1>2. ConfOK' /\ LiveOK'
    BY DEF SnapInv, ConfOK, LiveOK, IsLive, Still, Same
  <1>3. BuildOK'
    <2>1. /\ UNCHANGED <<conf, heap, loc, forked>> /\ (state' = "uninit" <=> state = "uninit")
          /\ \A t \in Reloaders : pc'[t] \in Building <=> pc[t] \in Building
      BY DEF Still, Same
    <2> QED
      BY <2>1 DEF SnapInv, BuildOK, IsLive
  <1> QED
    BY <1>1, <1>2, <1>3 DEF SnapInv

LEMMA SnapForks ==
    ASSUME SnapInv, Forks
    PROVE  SnapInv'
  <1>1. HeapTyped'
    BY DEF SnapInv, HeapTyped, Forks
  <1>2. ConfOK' /\ LiveOK' /\ BuildOK'
    BY DEF SnapInv, ConfOK, LiveOK, BuildOK, IsLive, Forks
  <1> QED
    BY <1>1, <1>2 DEF SnapInv

LEMMA SnapStarts ==
    ASSUME ControlInv, SnapInv, NEW s \in Snaps, NEW content \in Contents, NEW slots,
           Starts(s, content, slots)
    PROVE  SnapInv'
  <1> DEFINE rec == [st |-> "live", content |-> content, slots |-> slots]
  <1>1. rec \in Snapshot /\ rec.st = "live"
    BY OpenedTyped, Records DEF Starts
  <1> HIDE DEF rec
  <1>2. /\ heap' \in [Snaps -> Snapshot] /\ heap'[s] = rec
        /\ \A r \in Snaps : r # s => heap'[r] = heap[r]
    BY <1>1, HeapSet DEF SnapInv, HeapTyped, Starts, rec
  <1>3. conf' = s /\ s # None /\ None \notin Snaps
    BY DEF Starts, Snaps, None
  <1>4. HeapTyped' /\ ConfOK'
    BY <1>1, <1>2, <1>3 DEF SnapInv, HeapTyped, ConfOK, IsLive, Starts
  <1>5. BuildOK'
    BY DEF SnapInv, BuildOK, Starts
  <1>6. ~forked => conf = None
    BY DEF Starts, ControlInv, PhaseOK
  <1>7. LiveOK'
    BY <1>2, <1>3, <1>6 DEF SnapInv, LiveOK, Starts
  <1> QED
    BY <1>4, <1>5, <1>7 DEF SnapInv

LEMMA SnapEnds ==
    ASSUME ControlInv, SnapInv, Ends
    PROVE  SnapInv'
  <1> DEFINE freed == [st |-> "freed", content |-> "none", slots |-> <<>>]
  <1>1. freed \in Snapshot /\ freed.st = "freed"
    BY Records
  <1>2. conf \in Snaps
    BY DEF SnapInv, HeapTyped, ConfOK, IsLive, Ends
  <1>3. heap' = [heap EXCEPT ![conf] = freed]
    BY DEF Ends, Free
  <1> HIDE DEF freed
  <1>4. /\ heap' \in [Snaps -> Snapshot] /\ heap'[conf] = freed
        /\ \A r \in Snaps : r # conf => heap'[r] = heap[r]
    BY <1>1, <1>2, <1>3, HeapSet DEF SnapInv, HeapTyped
  <1>5. HeapTyped' /\ ConfOK'
    BY <1>4 DEF SnapInv, HeapTyped, ConfOK, Ends
  <1>6. BuildOK'
    <2>1. \A t \in Reloaders : IsLive(loc[t].fresh) => loc[t].fresh \in Snaps
      BY DEF SnapInv, HeapTyped, Locals, IsLive
    <2> QED
      BY <1>4, <2>1 DEF SnapInv, BuildOK, Ends, IsLive, Snaps, None
  <1>7. LiveOK'
    BY <1>1, <1>4 DEF SnapInv, LiveOK, Ends
  <1> QED
    BY <1>5, <1>6, <1>7 DEF SnapInv

(* Who is in the middle of a reload is alone. *)
LEMMA OneBuilder ==
    ASSUME ControlInv, NEW t \in Reloaders, pc[t] \in Holding
    PROVE  \A u \in Reloaders : u # t => pc[u] \notin Building
  BY DEF ControlInv, SlotOK, Building, Holding

(* What a thread knows that builds a snapshot. *)
LEMMA InReload ==
    ASSUME ControlInv, SnapInv, NEW t \in Reloaders, pc[t] \in Building, state # "uninit"
    PROVE  /\ \A u \in Reloaders : u # t => /\ pc[u] \notin Building
                                            /\ ~forked => loc[u].fresh = None
           /\ conf \in Snaps /\ IsLive(conf)
           /\ loc[t].live = conf /\ loc[t].fresh # conf /\ loc[t].fresh \in Snaps
           /\ IsLive(loc[t].fresh)
  <1>1. pc[t] \in Holding
    BY DEF Holding, Building
  <1>2. \A u \in Reloaders : u # t => pc[u] \notin Building
    BY <1>1, OneBuilder
  <1>3. loc[t].fresh \in Snaps \cup {None} /\ conf \in Snaps \cup {None}
    BY DEF Locals, SnapInv, HeapTyped
  <1> QED
    BY <1>2, <1>3 DEF SnapInv, BuildOK, ConfOK, IsLive

(* The effects of the stages of a reload, spelled out. *)
LEMMA PreparesFacts ==
    ASSUME ControlInv, SnapInv, NEW t \in Reloaders, NEW s \in Snaps, Prepares(t, s)
    PROVE  /\ heap' \in [Snaps -> Snapshot]
           /\ heap'[s] = [st |-> "live", content |-> "none", slots |-> <<>>]
           /\ \A r \in Snaps : r # s => heap'[r] = heap[r]
           /\ loc' \in [Reloaders -> Locals] /\ loc'[t].fresh = s /\ loc'[t].live = conf
           /\ \A u \in Reloaders : u # t => loc'[u] = loc[u]
           /\ state # "uninit" /\ IsLive(conf) /\ conf # s /\ conf \in Snaps
           /\ \A u \in Reloaders : pc[u] \notin Building
  <1> DEFINE rec == [st |-> "live", content |-> "none", slots |-> <<>>]
  <1>1. PICK strict \in {"yes", "no"} :
            loc' = [loc EXCEPT ![t] = [NoLocals EXCEPT !.fresh = s, !.live = conf,
                                                       !.strict = strict]]
    BY Zenon DEF Prepares
  <1> DEFINE locals == [NoLocals EXCEPT !.fresh = s, !.live = conf, !.strict = strict]
  <1>2. locals \in Locals /\ locals.fresh = s /\ locals.live = conf
    <2>1. <<>> \in Seq(Nat) /\ conf \in Snaps \cup {None}
      BY DEF SnapInv, HeapTyped
    <2> QED
      BY <2>1 DEF Locals, NoLocals
  <1>3. rec \in Snapshot
    BY Records
  <1> HIDE DEF rec, locals
  <1>4. /\ heap' \in [Snaps -> Snapshot] /\ heap'[s] = rec
        /\ \A r \in Snaps : r # s => heap'[r] = heap[r]
    BY <1>3, HeapSet DEF Prepares, rec, SnapInv, HeapTyped
  <1>5. /\ loc' \in [Reloaders -> Locals] /\ loc'[t] = locals
        /\ \A u \in Reloaders : u # t => loc'[u] = loc[u]
    BY <1>1, <1>2, LocSet DEF locals, SnapInv, HeapTyped
  <1>6. pc[t] = "alloc" /\ "alloc" \in Holding \ Building
    BY DEF Prepares, Holding, Building
  <1>7. state # "uninit" /\ \A u \in Reloaders : pc[u] \notin Building
    BY <1>6, OneBuilder DEF Prepares
  <1>8. IsLive(conf) /\ conf # s /\ conf \in Snaps
    BY <1>7 DEF Prepares, SnapInv, ConfOK, HeapTyped, IsLive
  <1> QED
    BY <1>2, <1>4, <1>5, <1>7, <1>8 DEF rec

LEMMA PlansFacts ==
    ASSUME ControlInv, SnapInv, NEW t \in Reloaders, Plans(t)
    PROVE  LET fresh == loc[t].fresh
               slots == [i \in DOMAIN FileConf[file].outputs |-> NoHandle]
               opened == {j \in DOMAIN heap[conf].slots: heap[conf].slots[j] # NoHandle}
               plan == ReusePlan(FileConf[file], ConfOf(heap[conf].content), opened)
           IN /\ heap' \in [Snaps -> Snapshot]
              /\ heap'[fresh] = [st |-> "live", content |-> file, slots |-> slots]
              /\ slots \in Seq(Handle)
              /\ \A r \in Snaps : r # fresh => heap'[r] = heap[r]
              /\ loc' \in [Reloaders -> Locals]
              /\ loc'[t].fresh = fresh /\ loc'[t].live = loc[t].live
              /\ loc'[t].next = 1 /\ loc'[t].plan = plan
              /\ \A u \in Reloaders : u # t => loc'[u] = loc[u]
              /\ file \in DOMAIN Files /\ opened \in SUBSET (Nat \ {0})
              /\ pc[t] \in Building /\ pc'[t] \in Building
  <1> DEFINE fresh == loc[t].fresh
             slots == [i \in DOMAIN FileConf[file].outputs |-> NoHandle]
             opened == {j \in DOMAIN heap[conf].slots: heap[conf].slots[j] # NoHandle}
             plan == ReusePlan(FileConf[file], ConfOf(heap[conf].content), opened)
             rec == [st |-> "live", content |-> file, slots |-> slots]
             locals == [loc[t] EXCEPT !.next = 1, !.plan = plan]
  <1>1. pc[t] \in Building /\ pc'[t] \in Building /\ state # "uninit"
    BY DEF Plans, Building
  <1>2. loc[t].live = conf /\ conf \in Snaps /\ fresh \in Snaps
    BY <1>1, InReload
  <1>3. opened \in SUBSET (Nat \ {0})
    <2>1. heap[conf].slots \in Seq(Handle)
      BY <1>2 DEF SnapInv, HeapTyped, Snapshot
    <2>2. DOMAIN heap[conf].slots = 1 .. Len(heap[conf].slots) /\ Len(heap[conf].slots) \in Nat
      BY <2>1, LenProperties
    <2> QED
      BY <2>2
  <1>4. file \in DOMAIN Files
    BY DEF ControlInv, ControlTyped
  <1>5. /\ loc' = [loc EXCEPT ![t].next = 1, ![t].plan = plan]
        /\ heap' = [heap EXCEPT ![fresh] = rec]
    BY <1>2, Zenon DEF Plans
  <1> HIDE DEF opened
  <1>6. plan \in Seq(Nat) /\ DOMAIN FileConf[file].outputs = 1 .. Len(FileConf[file].outputs)
        /\ Len(FileConf[file].outputs) = Len(plan)
    BY <1>3, <1>4, PlanTyped, Zenon
  <1> HIDE DEF plan
  <1>7. slots \in Seq(Handle)
    <2>1. NoHandle \in Handle /\ Len(plan) \in Nat
      BY <1>6, Records, LenProperties
    <2> QED
      BY <1>6, <2>1
  <1>8. rec \in Snapshot
    BY <1>4, <1>7, Records DEF Contents
  <1>9. locals \in Locals /\ locals.fresh = fresh /\ locals.live = loc[t].live
        /\ locals.next = 1 /\ locals.plan = plan
    <2>1. loc[t] \in Locals
      BY DEF SnapInv, HeapTyped
    <2> QED
      BY <1>6, <2>1 DEF Locals
  <1>10. loc' = [loc EXCEPT ![t] = locals]
    BY <1>5
  <1> HIDE DEF rec, locals
  <1>11. /\ heap' \in [Snaps -> Snapshot] /\ heap'[fresh] = rec
         /\ \A r \in Snaps : r # fresh => heap'[r] = heap[r]
    BY <1>2, <1>5, <1>8, HeapSet DEF SnapInv, HeapTyped
  <1>12. /\ loc' \in [Reloaders -> Locals] /\ loc'[t] = locals
         /\ \A u \in Reloaders : u # t => loc'[u] = loc[u]
    BY <1>9, <1>10, LocSet DEF SnapInv, HeapTyped
  <1> QED
    BY <1>1, <1>3, <1>4, <1>7, <1>9, <1>11, <1>12, Zenon DEF rec, plan, opened

LEMMA DropsFacts ==
    ASSUME ControlInv, SnapInv, NEW t \in Reloaders, Drops(t)
    PROVE  /\ heap' \in [Snaps -> Snapshot]
           /\ heap'[loc[t].fresh] = Unused
           /\ \A r \in Snaps : r # loc[t].fresh => heap'[r] = heap[r]
           /\ loc' \in [Reloaders -> Locals] /\ loc'[t] = NoLocals
           /\ \A u \in Reloaders : u # t => loc'[u] = loc[u]
  <1>1. loc[t].fresh \in Snaps
    BY InReload DEF Drops
  <1>2. heap' = [heap EXCEPT ![loc[t].fresh] = Unused] /\ loc' = [loc EXCEPT ![t] = NoLocals]
    BY Zenon DEF Drops, Forget
  <1>3. /\ heap' \in [Snaps -> Snapshot] /\ heap'[loc[t].fresh] = Unused
        /\ \A r \in Snaps : r # loc[t].fresh => heap'[r] = heap[r]
    BY <1>1, <1>2, Records, HeapSet DEF SnapInv, HeapTyped
  <1>4. /\ loc' \in [Reloaders -> Locals] /\ loc'[t] = NoLocals
        /\ \A u \in Reloaders : u # t => loc'[u] = loc[u]
    BY <1>2, Records, LocSet DEF SnapInv, HeapTyped
  <1> QED
    BY <1>3, <1>4

LEMMA NextOutput ==
    ASSUME SnapInv, NEW t \in Reloaders, loc' = [loc EXCEPT ![t].next = loc[t].next + 1]
    PROVE  /\ loc' \in [Reloaders -> Locals]
           /\ loc'[t].fresh = loc[t].fresh /\ loc'[t].live = loc[t].live
           /\ loc'[t].plan = loc[t].plan /\ loc'[t].next = loc[t].next + 1
           /\ loc[t].next \in Nat /\ loc[t].plan \in Seq(Nat)
           /\ \A u \in Reloaders : u # t => loc'[u] = loc[u]
  <1> DEFINE locals == [loc[t] EXCEPT !.next = loc[t].next + 1]
  <1>1. loc[t] \in Locals
    BY DEF SnapInv, HeapTyped
  <1>2. loc[t].next + 1 \in Nat /\ loc[t].next \in Nat /\ loc[t].plan \in Seq(Nat)
    BY <1>1 DEF Locals
  <1>3. locals \in Locals /\ locals.fresh = loc[t].fresh /\ locals.live = loc[t].live
        /\ locals.plan = loc[t].plan /\ locals.next = loc[t].next + 1
    BY <1>1, <1>2 DEF Locals
  <1>4. loc' = [loc EXCEPT ![t] = locals]
    OBVIOUS
  <1> HIDE DEF locals
  <1>5. /\ loc' \in [Reloaders -> Locals] /\ loc'[t] = locals
        /\ \A u \in Reloaders : u # t => loc'[u] = loc[u]
    BY <1>3, <1>4, LocSet DEF SnapInv, HeapTyped
  <1> QED
    BY <1>2, <1>3, <1>5

LEMMA OpensFacts ==
    ASSUME ControlInv, SnapInv, NEW t \in Reloaders, Opens(t)
    PROVE  LET f == loc[t].fresh
               i == loc[t].next
           IN /\ heap' \in [Snaps -> Snapshot]
              /\ heap'[f].st = heap[f].st /\ heap'[f].content = heap[f].content
              /\ heap'[f].slots = [heap[f].slots EXCEPT ![i] = <<f, heap[f].content, i>>]
              /\ Len(heap'[f].slots) = Len(heap[f].slots)
              /\ \A s \in Snaps \ {f} : heap'[s] = heap[s]
  <1> DEFINE f == loc[t].fresh
             i == loc[t].next
             h == <<f, heap[f].content, i>>
  <1>1. heap' = [heap EXCEPT ![f].slots[i] = h]
    BY Zenon DEF Opens, FreshOf
  <1>2. f \in Snaps /\ i \in Nat
    BY InReload DEF Opens, Building, SnapInv, HeapTyped, Locals
  <1>3. h \in Handle
    <2>1. heap[f].content \in Contents \cup {"none"}
      BY <1>2 DEF SnapInv, HeapTyped, Snapshot
    <2> QED
      BY <1>2, <2>1 DEF Handle, Snaps
  <1>4. HeapTyped
    BY DEF SnapInv
  <1>5. PICK g \in Snaps, j \in Nat, k \in Handle : g = f /\ j = i /\ k = h
    BY <1>2, <1>3
  <1>6. heap' = [heap EXCEPT ![g].slots[j] = k]
    BY <1>1, <1>5, Zenon
  <1> HIDE DEF f, i, h
  <1> DEFINE new == [heap[g].slots EXCEPT ![j] = k]
             rec == [heap[g] EXCEPT !.slots = new]
  <1>7. heap[g] \in Snapshot /\ heap[g].slots \in Seq(Handle)
    BY <1>4 DEF HeapTyped, Snapshot
  <1>8. new \in Seq(Handle) /\ Len(new) = Len(heap[g].slots)
    <2>1. heap[g].slots \in [1 .. Len(heap[g].slots) -> Handle] /\ Len(heap[g].slots) \in Nat
      BY <1>7, LenProperties
    <2>2. new \in [1 .. Len(heap[g].slots) -> Handle]
      BY <2>1
    <2> HIDE DEF new
    <2> QED
      BY <2>1, <2>2
  <1>9. heap' = [heap EXCEPT ![g] = rec]
    BY <1>6, Zenon
  <1> HIDE DEF new
  <1>10. rec \in Snapshot /\ rec.st = heap[g].st /\ rec.content = heap[g].content
         /\ rec.slots = new
    BY <1>7, <1>8 DEF Snapshot
  <1> HIDE DEF rec
  <1>11. /\ heap' \in [Snaps -> Snapshot] /\ heap'[g] = rec
         /\ \A s \in Snaps : s # g => heap'[s] = heap[s]
    BY <1>4, <1>9, <1>10, HeapSet DEF HeapTyped
  <1>12. /\ heap' \in [Snaps -> Snapshot]
         /\ heap'[g].st = heap[g].st /\ heap'[g].content = heap[g].content
         /\ heap'[g].slots = [heap[g].slots EXCEPT ![j] = k]
         /\ Len(heap'[g].slots) = Len(heap[g].slots)
         /\ \A s \in Snaps \ {g} : heap'[s] = heap[s]
    BY <1>8, <1>10, <1>11, Zenon DEF new
  <1> QED
    BY <1>5, <1>12, Zenon DEF f, i, h

LEMMA SwapsFacts ==
    ASSUME ControlInv, SnapInv, NEW t \in Reloaders, Swaps(t)
    PROVE  /\ pc[t] \in Building /\ reload_swap(t)
           /\ conf' = loc[t].fresh /\ fast' = heap[loc[t].fresh].content
           /\ UNCHANGED <<state, forked>>
           /\ heap' \in [Snaps -> Snapshot]
           /\ heap'[conf] = [st |-> "freed", content |-> "none", slots |-> <<>>]
           /\ heap'[loc[t].fresh].st = "live"
           /\ heap'[loc[t].fresh].content = heap[loc[t].fresh].content
           /\ heap'[loc[t].fresh].slots = NewSlots(t)
           /\ \A s \in Snaps \ {conf, loc[t].fresh} : heap'[s] = heap[s]
           /\ NewSlots(t) \in Seq(Handle) /\ Len(NewSlots(t)) = Len(heap[loc[t].fresh].slots)
           /\ loc' \in [Reloaders -> Locals] /\ loc'[t] = NoLocals
           /\ \A u \in Reloaders : u # t => loc'[u] = loc[u]
  <1>1. pc[t] \in Building /\ reload_swap(t) /\ state # "uninit"
    BY DEF Swaps, reload_swap, Building
  <1>2. /\ conf' = loc[t].fresh /\ fast' = heap[loc[t].fresh].content
        /\ UNCHANGED <<state, forked>> /\ loc' = [loc EXCEPT ![t] = NoLocals]
    BY <1>1 DEF reload_swap
  <1>3. conf \in Snaps /\ loc[t].fresh \in Snaps /\ loc[t].fresh # conf
        /\ heap[loc[t].fresh].st = "live" /\ HeapTyped
    BY <1>1, InReload DEF IsLive, SnapInv
  <1>4. /\ loc' \in [Reloaders -> Locals] /\ loc'[t] = NoLocals
        /\ \A u \in Reloaders : u # t => loc'[u] = loc[u]
    BY <1>2, Records, LocSet DEF SnapInv, HeapTyped
  <1> QED
    BY <1>1, <1>2, <1>3, <1>4, SwapHeap

LEMMA SnapReloading ==
    ASSUME ControlInv, SnapInv, NEW t \in Reloaders, Reloading(t)
    PROVE  SnapInv'
  <1>0. None \notin Snaps /\ {"load", "open", "swap"} \subseteq Building
    BY DEF Snaps, None, Building
  <1>e. \A u \in Reloaders : u # t => pc'[u] = pc[u]
    BY DEF Reloading, Elsewhere
  <1>1. ASSUME NEW s \in Snaps, Prepares(t, s)
        PROVE  SnapInv'
    <2>1. /\ heap' \in [Snaps -> Snapshot] /\ heap'[s].st = "live"
          /\ \A r \in Snaps : r # s => heap'[r] = heap[r]
          /\ loc' \in [Reloaders -> Locals] /\ loc'[t].fresh = s /\ loc'[t].live = conf
          /\ \A u \in Reloaders : u # t => loc'[u] = loc[u]
          /\ state # "uninit" /\ IsLive(conf) /\ conf # s
          /\ \A u \in Reloaders : pc[u] \notin Building
      BY <1>1, PreparesFacts
    <2>2. /\ pc'[t] = "load" /\ conf # None
          /\ UNCHANGED <<conf, forked>> /\ (state' = "uninit" <=> state = "uninit")
      BY <1>1 DEF Prepares, Same
    <2>3. ~forked => \A u \in Reloaders : loc[u].fresh = None
      BY <2>1 DEF SnapInv, BuildOK
    <2>4. HeapTyped' /\ ConfOK'
      BY <2>1, <2>2 DEF SnapInv, HeapTyped, ConfOK, IsLive
    <2>5. BuildOK'
      BY <1>0, <1>e, <2>1, <2>2, <2>3 DEF BuildOK, IsLive
    <2>6. LiveOK'
      BY <1>0, <2>1, <2>2, <2>3 DEF SnapInv, LiveOK
    <2> QED
      BY <2>4, <2>5, <2>6 DEF SnapInv
  <1>2. ASSUME pc[t] \in Building, pc'[t] \in Building, state # "uninit",
               UNCHANGED <<conf, forked>>, state' = "uninit" <=> state = "uninit",
               heap' \in [Snaps -> Snapshot], loc' \in [Reloaders -> Locals],
               \A s \in Snaps : heap'[s].st = heap[s].st,
               loc'[t].fresh = loc[t].fresh, loc'[t].live = loc[t].live,
               \A u \in Reloaders : u # t => loc'[u] = loc[u]
        PROVE  SnapInv'
    <2>1. HeapTyped' /\ ConfOK'
      BY <1>2, InReload DEF SnapInv, HeapTyped, ConfOK, IsLive
    <2>2. BuildOK'
      BY <1>2, <1>e, InReload DEF BuildOK, IsLive
    <2>3. LiveOK'
      BY <1>2 DEF SnapInv, LiveOK
    <2> QED
      BY <2>1, <2>2, <2>3 DEF SnapInv
  <1>3. CASE Plans(t)
    <2> DEFINE slots == [i \in DOMAIN FileConf[file].outputs |-> NoHandle]
    <2>0. /\ heap' \in [Snaps -> Snapshot]
          /\ heap'[loc[t].fresh] = [st |-> "live", content |-> file, slots |-> slots]
          /\ \A r \in Snaps : r # loc[t].fresh => heap'[r] = heap[r]
          /\ loc' \in [Reloaders -> Locals]
          /\ loc'[t].fresh = loc[t].fresh /\ loc'[t].live = loc[t].live
          /\ \A u \in Reloaders : u # t => loc'[u] = loc[u]
          /\ pc[t] \in Building /\ pc'[t] \in Building
      BY <1>3, PlansFacts, Zenon
    <2>l. state # "uninit"
      BY <1>3 DEF Plans
    <2> HIDE DEF slots
    <2>1. heap'[loc[t].fresh].st = "live"
      BY <2>0
    <2>2. \A s \in Snaps : heap'[s].st = heap[s].st
      BY <2>l, <2>0, <2>1, InReload DEF IsLive
    <2>3. UNCHANGED <<conf, forked>> /\ (state' = "uninit" <=> state = "uninit")
      BY <1>3 DEF Plans, Same
    <2> QED
      BY <2>l, <1>2, <2>0, <2>2, <2>3
  <1>4. CASE Drops(t)
    <2>1. /\ pc[t] \in Building /\ pc'[t] \notin Building /\ state # "uninit"
          /\ UNCHANGED <<conf, fast, forked>> /\ (state' = "uninit" <=> state = "uninit")
      BY <1>4 DEF Drops
    <2>2. /\ heap' \in [Snaps -> Snapshot] /\ heap'[loc[t].fresh] = Unused
          /\ \A r \in Snaps : r # loc[t].fresh => heap'[r] = heap[r]
          /\ loc' \in [Reloaders -> Locals] /\ loc'[t] = NoLocals
          /\ \A u \in Reloaders : u # t => loc'[u] = loc[u]
      BY <1>4, DropsFacts
    <2>3. Unused.st = "unused" /\ NoLocals.fresh = None
      BY DEF Unused, NoLocals
    <2>4. HeapTyped' /\ ConfOK'
      BY <2>1, <2>2, InReload DEF SnapInv, HeapTyped, ConfOK, IsLive
    <2>5. BuildOK'
      BY <1>e, <2>1, <2>2, <2>3, InReload DEF BuildOK
    <2>6. LiveOK'
      BY <2>1, <2>2, <2>3 DEF SnapInv, LiveOK
    <2> QED
      BY <2>4, <2>5, <2>6 DEF SnapInv
  <1>5. CASE Skips(t)
    <2>1. /\ pc[t] = "open" /\ pc' = pc /\ heap' = heap /\ state # "uninit"
          /\ UNCHANGED <<conf, forked>> /\ (state' = "uninit" <=> state = "uninit")
          /\ loc' = [loc EXCEPT ![t].next = loc[t].next + 1]
      BY <1>5 DEF Skips, Same
    <2>2. heap' \in [Snaps -> Snapshot] /\ \A s \in Snaps : heap'[s].st = heap[s].st
      BY <2>1 DEF SnapInv, HeapTyped
    <2> QED
      BY <1>0, <1>2, <2>1, <2>2, NextOutput
  <1>6. CASE Opens(t)
    <2>1. /\ pc[t] = "open" /\ pc' = pc /\ state # "uninit"
          /\ UNCHANGED <<conf, fast, forked>> /\ (state' = "uninit" <=> state = "uninit")
          /\ loc' = [loc EXCEPT ![t].next = loc[t].next + 1]
      BY <1>6 DEF Opens
    <2>2. /\ heap' \in [Snaps -> Snapshot]
          /\ heap'[loc[t].fresh].st = heap[loc[t].fresh].st
          /\ \A s \in Snaps \ {loc[t].fresh} : heap'[s] = heap[s]
      BY <1>6, OpensFacts
    <2>3. \A s \in Snaps : heap'[s].st = heap[s].st
      BY <2>2
    <2> QED
      BY <1>0, <1>2, <2>1, <2>2, <2>3, NextOutput
  <1>7. CASE Swaps(t)
    <2>1. pc'[t] \notin Building /\ state # "uninit"
      BY <1>7 DEF Swaps
    <2>2. /\ pc[t] \in Building /\ conf' = loc[t].fresh /\ UNCHANGED <<state, forked>>
          /\ heap' \in [Snaps -> Snapshot] /\ heap'[conf].st = "freed"
          /\ heap'[loc[t].fresh].st = "live"
          /\ \A s \in Snaps \ {conf, loc[t].fresh} : heap'[s] = heap[s]
          /\ loc' \in [Reloaders -> Locals] /\ loc'[t] = NoLocals
          /\ \A u \in Reloaders : u # t => loc'[u] = loc[u]
      BY <1>7, SwapsFacts
    <2>3. NoLocals.fresh = None /\ loc[t].fresh \in Snaps
      BY <2>1, <2>2, InReload DEF NoLocals
    <2>4. HeapTyped' /\ ConfOK'
      BY <1>0, <2>2, <2>3 DEF HeapTyped, ConfOK, IsLive
    <2>5. BuildOK'
      BY <1>e, <2>1, <2>2, <2>3, InReload DEF BuildOK
    <2>6. LiveOK'
      BY <2>2, <2>3 DEF SnapInv, LiveOK
    <2> QED
      BY <2>4, <2>5, <2>6 DEF SnapInv
  <1> QED
    BY <1>1, <1>3, <1>4, <1>5, <1>6, <1>7 DEF Reloading

LEMMA SnapInit == Init => SnapInv
  <1> SUFFICES ASSUME Init
               PROVE  SnapInv
    OBVIOUS
  <1>1. /\ conf = None /\ heap = [s \in Snaps |-> Unused] /\ loc = [t \in Reloaders |-> NoLocals]
        /\ state = "uninit"
    BY DEF Init
  <1>2. HeapTyped
    BY <1>1, Records DEF HeapTyped
  <1>3. Unused.st = "unused" /\ NoLocals.fresh = None
    BY DEF Unused, NoLocals
  <1>4. \A t \in Reloaders : pc[t] \notin Building
    BY Names DEF Init, Building
  <1>5. ConfOK /\ BuildOK /\ LiveOK
    BY <1>1, <1>3, <1>4 DEF ConfOK, BuildOK, LiveOK
  <1> QED
    BY <1>2, <1>5 DEF SnapInv

LEMMA EffectOrStutter ==
    ASSUME ControlInv, SavedOK, [Next]_vars
    PROVE  Effect
  <1>1. CASE Next
    BY <1>1, StepEffect
  <1>2. CASE UNCHANGED vars
    BY <1>2 DEF vars, Effect, Still, Same
  <1> QED
    BY <1>1, <1>2

LEMMA SnapStep ==
    ASSUME ControlInv, SavedOK, SnapInv, [Next]_vars
    PROVE  SnapInv'
  <1>1. Effect
    BY EffectOrStutter
  <1> QED
    BY <1>1, SnapStill, SnapForks, SnapStarts, SnapEnds, SnapReloading, Zenon DEF Effect

(* The structure saved for a child passed its checks, and without throttling no logger
   keeps a pointer. *)
LEMMA AsideInit == Init => SavedOK /\ LoggerOK
  BY DEF Init, SavedOK, LoggerOK

LEMMA AsideStep ==
    ASSUME SavedOK, LoggerOK, [Next]_vars
    PROVE  SavedOK' /\ LoggerOK'
  <1>1. ASSUME saved' \in {saved, "none"} \/ CodeStarts[saved'],
               snap' = snap \/ (~Throttled => snap' = None)
        PROVE  SavedOK' /\ LoggerOK'
    BY <1>1 DEF SavedOK, LoggerOK
  <1>2. CASE \E k \in DOMAIN Codes : hpulogc_init(k)
    <2>1. (saved' = "none" \/ CodeStarts[saved']) /\ snap' = snap
      BY <1>2 DEF hpulogc_init, init_common
    <2> QED
      BY <1>1, <2>1
  <1>3. CASE hpulogc_init_default \/ hpulogc_init_from_file
    <2>1. saved' \in {saved, "none"} /\ snap' = snap
      BY <1>3 DEF hpulogc_init_default, hpulogc_init_from_file, init_common
    <2> QED
      BY <1>1, <2>1
  <1>4. CASE hpulogc_flush \/ hpulogc_sync \/ hpulogc_get_stats \/ hpu_atfork_child
             \/ hpu_core_fork_check \/ hpulogc_shutdown \/ MainStep \/ EditFile
             \/ watcher_loop \/ consumer_deliver
    <2>1. saved' \in {saved, "none"} /\ snap' = snap
      BY <1>4 DEF hpulogc_flush, hpulogc_sync, hpulogc_get_stats, control_call, hpu_atfork_child,
         hpu_core_fork_check, hpulogc_shutdown, MainStep, control_locked, hpu_hotreload_stop,
         drain_reload, stop_consumer, core_stop_tail, EditFile, watcher_loop, consumer_deliver
    <2> QED
      BY <1>1, <2>1
  <1>5. CASE submit
    <2>1. saved' = saved /\ (~Throttled => snap' = None)
      BY <1>5 DEF submit
    <2> QED
      BY <1>1, <2>1
  <1>6. ASSUME NEW t \in Reloaders, hpu_core_trigger_reload(t)
        PROVE  SavedOK' /\ LoggerOK'
    <2>1. saved' = saved /\ snap' = snap
      BY <1>6 DEF hpu_core_trigger_reload, reload_call, reload_try_enter, trigger_prepare,
         finalize_reload, open_next, swap_lock, reload_swap
    <2> QED
      BY <1>1, <2>1
  <1>7. CASE UNCHANGED vars
    BY <1>1, <1>7 DEF vars
  <1>8. ASSUME NEW t, deadline_passes(t)
        PROVE  SavedOK' /\ LoggerOK'
    BY <1>1, <1>8 DEF deadline_passes
  <1> QED
    BY <1>2, <1>3, <1>4, <1>5, <1>6, <1>7, <1>8, Zenon DEF Next, MainCall

-----------------------------------------------------------------------------
(* Nobody uses what was freed *)

LifeInv == ControlInv /\ SavedOK /\ LoggerOK /\ SnapInv

LEMMA LifeInvariant == Spec => []LifeInv
  <1>1. Init => LifeInv
    BY ControlInit, AsideInit, SnapInit DEF LifeInv
  <1>2. LifeInv /\ [Next]_vars => LifeInv'
    BY ControlStep, AsideStep, SnapStep DEF LifeInv
  <1> QED
    BY <1>1, <1>2, PTL DEF Spec

(* A reload that is under way when the runtime is gone is one that shutdown stopped waiting
   for. *)
LEMMA LeftBehind ==
    ASSUME ControlInv, state = "uninit", NEW t \in Reloaders, pc[t] \in Holding
    PROVE  Abandoned /\ "main" \in late
  BY DEF ControlInv, PhaseOK, Quiet, Abandoned, SlotHeld, Holding

(* A reload compares with, and a consumer renders with, a snapshot that is alive, and whoever
   is in the library has a lock to take: for any number of triggering threads, whatever they
   do while main shuts down or forks, unless a reload was left behind.  A logger that asks
   the throttle is exempt: in a throttle build it may be overtaken (trigger_reload,
   hpu_core_stop, hpu_pipeline_process). *)
LEMMA LifeImpliesAlive ==
    ASSUME LifeInv, ~Throttled
    PROVE  StaleOnlyIfOverdue
  <1> USE DEF LifeInv, ControlInv, SnapInv
  <1>0. CASE state = "uninit" /\ \E t \in Reloaders : pc[t] \in Holding
    BY <1>0, LeftBehind DEF StaleOnlyIfOverdue
  <1>n. CASE ~(state = "uninit" /\ \E t \in Reloaders : pc[t] \in Holding)
    <2>1. \A t \in Reloaders : pc[t] \in {"load", "open"} => IsLive(loc[t].live)
      <3> SUFFICES ASSUME NEW t \in Reloaders, pc[t] \in {"load", "open"}
                   PROVE  IsLive(loc[t].live)
        OBVIOUS
      <3>1. pc[t] \in Holding /\ pc[t] \in Building
        BY DEF Holding, Building
      <3>2. state # "uninit" /\ loc[t].live = conf
        BY <1>n, <3>1 DEF BuildOK
      <3> QED
        BY <3>2 DEF ConfOK
    <2>2. \A t \in Reloaders : pc[t] \in Holding => IsLive(conf) /\ conf_lock # "none"
      BY <1>n DEF ConfOK, PhaseOK
    <2>3. pc["consumer"] \in {"idle", "deliver"} => state # "uninit"
      BY DEF PhaseOK
    <2>4. pc["main"] = "control" => state # "uninit"
      BY DEF PhaseOK
    <2>5. pc["consumer"] = "deliver" => IsLive(conf)
      BY <2>3 DEF ConfOK
    <2>6. pc["consumer"] = "idle" \/ pc["main"] = "control" => conf_lock # "none"
      BY <2>3, <2>4 DEF PhaseOK
    <2>7. snap = None
      BY DEF LoggerOK
    <2> QED
      BY <2>1, <2>2, <2>5, <2>6, <2>7 DEF StaleOnlyIfOverdue, NoStaleSnapshot, Holding
  <1> QED
    BY <1>0, <1>n

(* Nobody reads a snapshot after it was freed and nobody waits for a lock that was destroyed,
   but for one case: a reload that has the slot when the 6 s of a shutdown run out, and still
   when shutdown frees the snapshot and the lock.  In every other interleaving a reload keeps
   the snapshot it compares with alive while it holds the slot, and shutdown frees it when no
   thread but main is left (hpu_core_trigger_reload, hpu_core_stop).  The throttle reads
   g_rt.conf without the lock, so this is about builds without it. *)
THEOREM StaleOnlyWhenOverdue ==
    ASSUME ~Throttled
    PROVE  Spec => []StaleOnlyIfOverdue
  BY LifeInvariant, LifeImpliesAlive, PTL

-----------------------------------------------------------------------------
(* Checked contents *)

(* A content is one of the names, and a file is never taken for a structure. *)
LEMMA ContentNames ==
    /\ "none" \notin Contents /\ DOMAIN Files \subseteq Contents
    /\ \A f \in DOMAIN Files : ConfOf(f) = FileConf[f] /\ f \notin DOMAIN Codes
  <1>1. "none" # "default" /\ "none" \notin DOMAIN Files \cup DOMAIN Codes
        /\ DOMAIN Files \cap DOMAIN Codes = {}
    BY RuntimeAssumption
  <1>2. \A f \in DOMAIN Files : ConfOf(f) = FileConf[f]
    BY RuntimeAssumption DEF ConfOf
  <1> QED
    BY <1>1, <1>2 DEF Contents

LEMMA CheckedInit == Init => CheckedOK
  <1> SUFFICES ASSUME Init
               PROVE  CheckedOK
    OBVIOUS
  <1>1. state = "uninit" /\ \A t \in Reloaders : pc[t] \notin {"open", "swap"}
    BY Names DEF Init
  <1> QED
    BY <1>1 DEF CheckedOK

(* What is checked is what a start, or the plan of a reload, was given. *)
LEMMA CheckedReloading ==
    ASSUME ControlInv, SnapInv, CheckedOK, NEW t \in Reloaders, Reloading(t)
    PROVE  CheckedOK'
  <1>0. {"load", "open", "swap"} \subseteq Building /\ {"load", "open", "swap"} \subseteq Holding
    BY DEF Building, Holding
  <1>e. \A u \in Reloaders : u # t => pc'[u] = pc[u]
    BY DEF Reloading, Elsewhere
  <1>1. ASSUME UNCHANGED <<conf, fast>>, state' = "uninit" <=> state = "uninit",
               state # "uninit" => heap'[conf].content = heap[conf].content,
               \A u \in Reloaders : u # t => pc[u] \notin Building,
               pc'[t] \in {"open", "swap"} =>
                   heap'[loc'[t].fresh].content \in DOMAIN Files
                   /\ Checked(heap'[loc'[t].fresh].content)
        PROVE  CheckedOK'
    <2>1. state' # "uninit" => /\ heap'[conf'].content \in Contents
                               /\ Checked(heap'[conf'].content)
                               /\ fast' = heap'[conf'].content
      BY <1>1 DEF CheckedOK
    <2>2. ASSUME NEW u \in Reloaders, pc'[u] \in {"open", "swap"}
          PROVE  heap'[loc'[u].fresh].content \in DOMAIN Files
                 /\ Checked(heap'[loc'[u].fresh].content)
      BY <1>0, <1>1, <1>e, <2>2
    <2> QED
      BY <2>1, <2>2, Zenon DEF CheckedOK, Checked
  <1>2. ASSUME NEW s \in Snaps, Prepares(t, s)
        PROVE  CheckedOK'
    <2>1. /\ UNCHANGED <<conf, fast>> /\ (state' = "uninit" <=> state = "uninit")
          /\ pc'[t] = "load"
      BY <1>2 DEF Prepares, Same
    <2>2. /\ \A u \in Reloaders : pc[u] \notin Building
          /\ \A r \in Snaps : r # s => heap'[r] = heap[r]
          /\ conf # s /\ conf \in Snaps
      BY <1>2, PreparesFacts
    <2> QED
      BY <1>1, <2>1, <2>2
  <1>3. CASE Plans(t)
    <2> DEFINE slots == [i \in DOMAIN FileConf[file].outputs |-> NoHandle]
    <2>1. /\ heap'[loc[t].fresh] = [st |-> "live", content |-> file, slots |-> slots]
          /\ \A r \in Snaps : r # loc[t].fresh => heap'[r] = heap[r]
          /\ loc'[t].fresh = loc[t].fresh
          /\ file \in DOMAIN Files /\ pc[t] \in Building
      BY <1>3, PlansFacts, Zenon
    <2> HIDE DEF slots
    <2>2. heap'[loc[t].fresh].content = file
      BY <2>1
    <2>3. /\ UNCHANGED <<conf, fast>> /\ (state' = "uninit" <=> state = "uninit")
          /\ state # "uninit" /\ FileLoads[file][loc[t].strict] /\ Reloads[file]
      BY <1>3 DEF Plans, Same
    <2>4. loc[t].strict \in {"yes", "no", "from file"}
      BY DEF SnapInv, HeapTyped, Locals
    <2>5. Checked(file)
      BY <2>1, <2>3, <2>4, ContentNames DEF Checked
    <2>6. /\ \A u \in Reloaders : u # t => pc[u] \notin Building
          /\ conf \in Snaps /\ loc[t].fresh # conf
      BY <2>1, <2>3, InReload
    <2> QED
      BY <1>1, <2>1, <2>2, <2>3, <2>5, <2>6
  <1>4. CASE Drops(t)
    <2>1. /\ UNCHANGED <<conf, fast>> /\ (state' = "uninit" <=> state = "uninit")
          /\ pc[t] \in Building /\ pc'[t] \notin Building /\ state # "uninit"
      BY <1>4 DEF Drops
    <2>2. \A r \in Snaps : r # loc[t].fresh => heap'[r] = heap[r]
      BY <1>4, DropsFacts
    <2>3. /\ \A u \in Reloaders : u # t => pc[u] \notin Building
          /\ conf \in Snaps /\ loc[t].fresh # conf
      BY <2>1, InReload
    <2> QED
      BY <1>0, <1>1, <2>1, <2>2, <2>3
  <1>5. CASE Skips(t)
    <2>1. /\ UNCHANGED <<conf, fast, heap>> /\ (state' = "uninit" <=> state = "uninit")
          /\ pc[t] = "open" /\ loc' = [loc EXCEPT ![t].next = loc[t].next + 1]
          /\ state # "uninit"
      BY <1>5 DEF Skips, Same
    <2>2. loc'[t].fresh = loc[t].fresh
      BY <2>1, NextOutput
    <2>3. \A u \in Reloaders : u # t => pc[u] \notin Building
      BY <1>0, <2>1, InReload
    <2> QED
      BY <1>1, <2>1, <2>2, <2>3 DEF CheckedOK
  <1>6. CASE Opens(t)
    <2>1. /\ UNCHANGED <<conf, fast>> /\ (state' = "uninit" <=> state = "uninit")
          /\ pc[t] = "open" /\ loc' = [loc EXCEPT ![t].next = loc[t].next + 1]
          /\ state # "uninit"
      BY <1>6 DEF Opens
    <2>2. loc'[t].fresh = loc[t].fresh
      BY <2>1, NextOutput
    <2>3. /\ heap'[loc[t].fresh].content = heap[loc[t].fresh].content
          /\ \A s \in Snaps \ {loc[t].fresh} : heap'[s] = heap[s]
      BY <1>6, OpensFacts
    <2>4. /\ \A u \in Reloaders : u # t => pc[u] \notin Building
          /\ conf \in Snaps /\ loc[t].fresh # conf
      BY <1>0, <2>1, InReload
    <2> QED
      BY <1>1, <2>1, <2>2, <2>3, <2>4 DEF CheckedOK
  <1>7. CASE Swaps(t)
    <2>1. pc'[t] \notin Building /\ pc[t] = "swap" /\ state # "uninit"
      BY <1>7 DEF Swaps, reload_swap
    <2>2. /\ conf' = loc[t].fresh /\ fast' = heap[loc[t].fresh].content
          /\ heap'[loc[t].fresh].content = heap[loc[t].fresh].content
      BY <1>7, SwapsFacts
    <2>3. \A u \in Reloaders : u # t => pc[u] \notin Building
      BY <1>0, <2>1, InReload
    <2>4. \A u \in Reloaders : pc'[u] \notin {"open", "swap"}
      BY <1>0, <1>e, <2>1, <2>3
    <2>5. heap[loc[t].fresh].content \in DOMAIN Files /\ Checked(heap[loc[t].fresh].content)
      BY <2>1 DEF CheckedOK
    <2> QED
      BY <2>2, <2>4, <2>5, ContentNames DEF CheckedOK, Checked
  <1> QED
    BY <1>2, <1>3, <1>4, <1>5, <1>6, <1>7 DEF Reloading

LEMMA CheckedStep ==
    ASSUME ControlInv, SavedOK, SnapInv, CheckedOK, [Next]_vars
    PROVE  CheckedOK'
  <1>1. Effect
    BY EffectOrStutter
  <1>0. {"load", "open", "swap"} \subseteq Building
    BY DEF Building
  <1>2. CASE Still
    <2>1. \A t \in Reloaders : pc'[t] \in {"open", "swap"} => pc[t] \in {"open", "swap"}
      BY <1>2 DEF Still, Building
    <2> QED
      BY <1>2, <2>1 DEF Still, Same, CheckedOK, Checked
  <1>3. CASE Forks
    BY <1>0, <1>3 DEF Forks, CheckedOK, Checked
  <1>4. CASE Ends
    <2>1. conf \in Snaps /\ \A r \in Snaps : r # conf => heap'[r] = heap[r]
      BY <1>4 DEF Ends, Free, SnapInv, HeapTyped, ConfOK, IsLive
    <2>2. \A t \in Reloaders : pc[t] \in {"open", "swap"} =>
              loc[t].fresh \in Snaps /\ loc[t].fresh # conf
      BY <1>0 DEF SnapInv, HeapTyped, Locals, BuildOK, IsLive
    <2>3. /\ UNCHANGED loc /\ state' = "uninit"
          /\ \A t \in Reloaders : pc'[t] = pc[t]
      BY <1>4 DEF Ends
    <2>4. \A t \in Reloaders : pc'[t] \in {"open", "swap"} =>
              /\ pc[t] \in {"open", "swap"}
              /\ heap'[loc'[t].fresh].content = heap[loc[t].fresh].content
      BY <2>1, <2>2, <2>3
    <2> QED
      BY <2>3, <2>4, Zenon DEF CheckedOK, Checked
  <1>5. ASSUME NEW s \in Snaps, NEW content \in Contents, NEW slots, Starts(s, content, slots)
        PROVE  CheckedOK'
    <2>1. /\ heap' = [heap EXCEPT ![s] = [st |-> "live", content |-> content, slots |-> slots]]
          /\ conf' = s /\ fast' = content /\ Checked(content)
          /\ \A t \in Reloaders : pc'[t] \notin {"open", "swap"}
      BY <1>0, <1>5 DEF Starts
    <2>2. heap'[s].content = content
      BY <2>1 DEF SnapInv, HeapTyped
    <2> QED
      BY <2>1, <2>2 DEF CheckedOK, Checked
  <1> QED
    BY <1>1, <1>2, <1>3, <1>4, <1>5, CheckedReloading, Zenon DEF Effect

-----------------------------------------------------------------------------
(* Handles *)

HandleInv == SlotsOK /\ UniqueOK /\ OpenOK /\ PlanOK

(* The slots of a live snapshot are those of its outputs, and a handle in one of them bears
   the number of an output. *)
LEMMA SlotsListed ==
    ASSUME HeapTyped, SlotsOK, NEW s \in Snaps
    PROVE  /\ heap[s].slots \in Seq(Handle) /\ Len(heap[s].slots) \in Nat
           /\ DOMAIN heap[s].slots = 1 .. Len(heap[s].slots)
           /\ heap[s].content \in Contents \cup {"none"}
           /\ heap[s].st = "live" /\ heap[s].content # "none" =>
                  DOMAIN heap[s].slots = DOMAIN ConfOf(heap[s].content).outputs
  <1>1. heap[s].slots \in Seq(Handle) /\ heap[s].content \in Contents \cup {"none"}
    BY DEF HeapTyped, Snapshot
  <1>2. Len(heap[s].slots) \in Nat /\ DOMAIN heap[s].slots = 1 .. Len(heap[s].slots)
    BY <1>1, LenProperties, Zenon
  <1>3. ASSUME heap[s].st = "live", heap[s].content # "none"
        PROVE  DOMAIN heap[s].slots = DOMAIN ConfOf(heap[s].content).outputs
    <2>1. heap[s].content \in Contents
      BY <1>1, <1>3
    <2>2. DOMAIN ConfOf(heap[s].content).outputs = 1 .. Len(ConfOf(heap[s].content).outputs)
      BY <2>1, OutputsListed, Zenon
    <2>3. Len(heap[s].slots) = Len(ConfOf(heap[s].content).outputs)
      BY <1>3 DEF SlotsOK
    <2> QED
      BY <1>2, <2>2, <2>3
  <1> QED
    BY <1>1, <1>2, <1>3

(* A handle in a slot was opened for it, or was left by a snapshot that is freed. *)
LEMMA FilledBy ==
    ASSUME HeapTyped, SlotsOK, NEW s \in Snaps, NEW i \in Nat, Filled(s, i)
    PROVE  \/ heap[s].slots[i] = <<s, heap[s].content, i>>
           \/ Inherited(heap[s].slots[i], s, i)
  BY DEF SlotsOK, Filled

(* What a freed snapshot left stays so. *)
LEMMA InheritedStays ==
    ASSUME NEW h, NEW s \in Snaps, NEW r \in Snaps, NEW i, Inherited(h, s, i),
           heap'[r].content = heap[s].content,
           \A x \in Snaps : heap[x].st = "freed" => heap'[x].st = "freed"
    PROVE  Inherited(h, r, i)'
  BY DEF Inherited, Fits, SameFile, conf_kv_equal

(* Opening outputs of one snapshot: slots of it that were empty get handles of their own. *)
LEMMA HandlesAdded ==
    ASSUME HeapTyped, SlotsOK, UniqueOK, OpenOK, NEW s \in Snaps, NEW N \in SUBSET Nat, NEW c,
           heap[s].st # "freed",
           \A r \in Snaps : r # s => heap'[r] = heap[r],
           \A k \in N : ~Filled(s, k) /\ Filled(s, k)' /\ heap'[s].slots[k] = <<s, c, k>>,
           \A k \in Nat \ N : /\ Filled(s, k)' <=> Filled(s, k)
                              /\ Filled(s, k) => heap'[s].slots[k] = heap[s].slots[k],
           open' = open \cup {<<s, c, k>> : k \in N}
    PROVE  UniqueOK' /\ OpenOK'
  <1>1. \A r \in Snaps : \A i \in Nat : r # s => (Filled(r, i)' <=> Filled(r, i))
    BY DEF Filled
  <1>2. ASSUME NEW r \in Snaps, NEW i \in Nat, Filled(r, i), NEW k \in N
        PROVE  heap[r].slots[i] # <<s, c, k>>
    <2>1. CASE heap[r].slots[i] = <<r, heap[r].content, i>>
      BY <1>2, <2>1
    <2>2. CASE Inherited(heap[r].slots[i], r, i)
      <3>1. heap[heap[r].slots[i][1]].st = "freed"
        BY <2>2 DEF Inherited
      <3>2. <<s, c, k>>[1] = s
        OBVIOUS
      <3> QED
        BY <3>1, <3>2
    <2> QED
      BY <1>2, <2>1, <2>2, FilledBy
  <1>3. \A r \in Snaps : \A i \in Nat : Filled(r, i)' =>
            \/ Filled(r, i) /\ heap'[r].slots[i] = heap[r].slots[i]
            \/ r = s /\ i \in N /\ heap'[r].slots[i] = <<s, c, i>>
    BY <1>1
  <1>4. \A k, m : <<s, c, k>> = <<s, c, m>> => k = m
    OBVIOUS
  <1>5. UniqueOK'
    <2> SUFFICES ASSUME NEW r \in Snaps, NEW q \in Snaps, NEW i \in Nat, NEW j \in Nat,
                        Filled(r, i)', Filled(q, j)',
                        heap'[r].slots[i] = heap'[q].slots[j]
                 PROVE  r = q /\ i = j
      BY DEF UniqueOK
    <2>1. CASE Filled(r, i) /\ heap'[r].slots[i] = heap[r].slots[i]
      <3>1. CASE Filled(q, j) /\ heap'[q].slots[j] = heap[q].slots[j]
        <4>1. heap[r].slots[i] = heap[q].slots[j] /\ Filled(r, i) /\ Filled(q, j)
          BY <2>1, <3>1, Zenon
        <4>2. Filled(r, i) /\ Filled(q, j) /\ heap[r].slots[i] = heap[q].slots[j]
                => r = q /\ i = j
          BY Zenon DEF UniqueOK
        <4> QED
          BY <4>1, <4>2
      <3>2. CASE q = s /\ j \in N /\ heap'[q].slots[j] = <<s, c, j>>
        <4>1. heap[r].slots[i] = <<s, c, j>>
          BY <2>1, <3>2, Zenon
        <4> QED
          BY <1>2, <2>1, <3>2, <4>1, Zenon
      <3> QED
        BY <1>3, <3>1, <3>2
    <2>2. CASE r = s /\ i \in N /\ heap'[r].slots[i] = <<s, c, i>>
      BY <2>2, <1>2, <1>3, <1>4
    <2> QED
      BY <1>3, <2>1, <2>2
  <1>6. OpenOK'
    <2>1. ASSUME NEW h, h \in open'
          PROVE  \E r \in Snaps : \E i \in Nat : Filled(r, i)' /\ heap'[r].slots[i] = h
      <3>1. CASE h \in open
        <4>1. PICK r \in Snaps : \E i \in Nat : Filled(r, i) /\ heap[r].slots[i] = h
          BY <3>1 DEF OpenOK
        <4>2. PICK i \in Nat : Filled(r, i) /\ heap[r].slots[i] = h
          BY <4>1
        <4>3. Filled(r, i)' /\ heap'[r].slots[i] = h
          BY <1>1, <4>2
        <4> QED
          BY <4>3
      <3>2. CASE \E k \in N : h = <<s, c, k>>
        <4>1. PICK k \in N : h = <<s, c, k>>
          BY <3>2
        <4>2. k \in Nat /\ Filled(s, k)' /\ heap'[s].slots[k] = h
          BY <4>1
        <4> QED
          BY <4>2
      <3> QED
        BY <2>1, <3>1, <3>2
    <2>2. ASSUME NEW r \in Snaps, NEW i \in Nat, Filled(r, i)'
          PROVE  heap'[r].slots[i] \in open'
      <3>1. CASE Filled(r, i) /\ heap'[r].slots[i] = heap[r].slots[i]
        BY <3>1 DEF OpenOK
      <3>2. CASE r = s /\ i \in N /\ heap'[r].slots[i] = <<s, c, i>>
        BY <3>2
      <3> QED
        BY <1>3, <2>2, <3>1, <3>2
    <2> QED
      BY <2>1, <2>2 DEF OpenOK
  <1> QED
    BY <1>5, <1>6

(* Closing a snapshot with the handles it still has. *)
LEMMA HandlesClosed ==
    ASSUME HeapTyped, SlotsOK, UniqueOK, OpenOK, NEW x \in Snaps,
           heap[x].st = "live", heap'[x].st # "live",
           \A r \in Snaps : r # x => heap'[r] = heap[r],
           open' = open \ Handles(heap[x].slots)
    PROVE  SlotsOK' /\ UniqueOK' /\ OpenOK'
  <1>1. \A r \in Snaps : \A i \in Nat : (Filled(r, i)' <=> r # x /\ Filled(r, i))
    BY DEF Filled
  <1>2. SlotsOK'
    <2> SUFFICES ASSUME NEW s \in Snaps, heap'[s].st = "live"
                 PROVE  /\ IF heap'[s].content = "none" THEN heap'[s].slots = <<>>
                           ELSE Len(heap'[s].slots) = Len(ConfOf(heap'[s].content).outputs)
                        /\ \A i \in DOMAIN heap'[s].slots :
                             \/ heap'[s].slots[i] \in {NoHandle, <<s, heap'[s].content, i>>}
                             \/ Inherited(heap[s].slots[i], s, i)'
      BY Zenon DEF SlotsOK, Inherited
    <2>1. heap'[s] = heap[s] /\ heap[s].st = "live"
      OBVIOUS
    <2>2. \A i : Inherited(heap[s].slots[i], s, i) => Inherited(heap[s].slots[i], s, i)'
      BY <2>1, InheritedStays
    <2> QED
      BY <2>1, <2>2 DEF SlotsOK
  <1>3. UniqueOK'
    BY <1>1 DEF UniqueOK
  <1>4. \A h : h \in Handles(heap[x].slots) <=> \E j \in Nat : Filled(x, j) /\ heap[x].slots[j] = h
    BY SlotsListed DEF Handles, Filled
  <1>5. OpenOK'
    <2>1. ASSUME NEW h, h \in open'
          PROVE  \E r \in Snaps : \E i \in Nat : Filled(r, i)' /\ heap'[r].slots[i] = h
      <3>1. PICK r \in Snaps : \E i \in Nat : Filled(r, i) /\ heap[r].slots[i] = h
        BY <2>1 DEF OpenOK
      <3>2. PICK i \in Nat : Filled(r, i) /\ heap[r].slots[i] = h
        BY <3>1
      <3>3. r # x
        BY <1>4, <2>1, <3>2
      <3> QED
        BY <1>1, <3>2, <3>3
    <2>2. ASSUME NEW r \in Snaps, NEW i \in Nat, Filled(r, i)'
          PROVE  heap'[r].slots[i] \in open'
      <3>1. r # x /\ Filled(r, i) /\ heap'[r] = heap[r]
        BY <1>1, <2>2
      <3>2. heap[r].slots[i] \in open
        BY <3>1 DEF OpenOK
      <3>3. heap[r].slots[i] \notin Handles(heap[x].slots)
        BY <1>4, <3>1 DEF UniqueOK
      <3> QED
        BY <3>1, <3>2, <3>3
    <2> QED
      BY <2>1, <2>2 DEF OpenOK
  <1> QED
    BY <1>2, <1>3, <1>5

(* The plan of a reload: no handle of the active snapshot is kept for two outputs, because
   no two outputs of a checked file share a path. *)
LEMMA PlanKeepsApart ==
    ASSUME NEW f \in DOMAIN Files, Reloads[f],
           NEW old, NEW j, NEW k \in DOMAIN FileConf[f].outputs, NEW m \in DOMAIN FileConf[f].outputs,
           FileConf[f].outputs[k].type = "file", FileConf[f].outputs[m].type = "file",
           SameFile(old.outputs[j], FileConf[f].outputs[k]),
           SameFile(old.outputs[j], FileConf[f].outputs[m])
    PROVE  k = m
  <1> DEFINE outputs == FileConf[f].outputs
  <1>1. outputs[k].path = outputs[m].path
    BY DEF SameFile
  <1>2. check_dup_paths(FileConf[f])
    BY DEF Reloads, FinalizeReloadChecks
  <1>3. \A i, l \in DOMAIN outputs :
            i < l /\ outputs[i].type = "file" /\ outputs[l].type = "file" =>
                NormalForm[outputs[i].path] # NormalForm[outputs[l].path]
    BY <1>2, Zenon DEF check_dup_paths
  <1>4. DOMAIN outputs = 1 .. Len(outputs) /\ Len(outputs) \in Nat
    BY OutputsListed, ContentNames, Zenon
  <1> HIDE DEF outputs
  <1>5. k \in Nat /\ m \in Nat /\ k \in DOMAIN outputs /\ m \in DOMAIN outputs
        /\ outputs[k].type = "file" /\ outputs[m].type = "file"
    BY <1>4 DEF outputs
  <1>6. ~(k < m) /\ ~(m < k)
    BY <1>1, <1>3, <1>5
  <1> QED
    BY <1>5, <1>6

(* Keeping a file open through two reloads. *)
LEMMA FitsTwice ==
    ASSUME NEW c, NEW i, NEW d, NEW j, NEW e, NEW k, Fits(c, i, d, j), Fits(d, j, e, k)
    PROVE  Fits(c, i, e, k)
  BY DEF Fits, SameFile, conf_kv_equal

(* A swap moves the kept handles to the new snapshot and closes the rest of the old one. *)
LEMMA HandlesMoved ==
    ASSUME ControlInv, SnapInv, CheckedOK, HandleInv, NEW t \in Reloaders, Swaps(t)
    PROVE  SlotsOK' /\ UniqueOK' /\ OpenOK'
  <1>1. pc[t] = "swap" /\ pc[t] \in Building /\ state # "uninit"
    BY DEF Swaps, reload_swap, Building
  <1>f. PICK f \in Snaps : f = loc[t].fresh
    BY <1>1, InReload
  <1> DEFINE old == heap[conf].slots
             mine == heap[f].slots
             plan == loc[t].plan
             new == NewSlots(t)
             Left(h, s, i) == /\ h[1] \in Snaps /\ heap'[h[1]].st = "freed"
                              /\ h[2] \in Contents
                              /\ Fits(h[2], h[3], heap'[s].content, i)
  <1>2. f \in Snaps /\ conf \in Snaps /\ f # conf /\ heap[f].st = "live"
        /\ heap[conf].st = "live" /\ state # "uninit"
    BY <1>1, <1>f, InReload DEF IsLive
  <1>3. /\ heap'[conf].st = "freed" /\ heap'[f].st = "live"
        /\ heap'[f].content = heap[f].content /\ heap'[f].slots = new
        /\ \A s \in Snaps \ {conf, f} : heap'[s] = heap[s]
        /\ Len(new) = Len(mine) /\ new \in Seq(Handle)
    BY <1>f, SwapsFacts
  <1>4. /\ mine \in Seq(Handle) /\ old \in Seq(Handle) /\ DOMAIN mine = 1 .. Len(mine)
        /\ DOMAIN old = 1 .. Len(old) /\ Len(old) \in Nat /\ Len(mine) \in Nat
    BY <1>2, SlotsListed DEF HandleInv, SnapInv
  <1>5. plan \in Seq(Nat) /\ Len(plan) = Len(mine) /\ DOMAIN plan = DOMAIN mine
        /\ DOMAIN new = DOMAIN mine
    <2>1. plan \in Seq(Nat) /\ Len(plan) = Len(mine)
      BY <1>1, <1>f DEF HandleInv, PlanOK, PlanOf, SnapInv, HeapTyped, Locals
    <2>2. DOMAIN plan = 1 .. Len(plan) /\ DOMAIN new = 1 .. Len(new)
      BY <1>3, <2>1, LenProperties
    <2> QED
      BY <1>3, <1>4, <2>1, <2>2
  <1>6. \A k \in DOMAIN plan : plan[k] # 0 =>
            /\ Filled(conf, plan[k]) /\ mine[k] = NoHandle
            /\ Fits(heap[conf].content, plan[k], heap[f].content, k)
    BY <1>1, <1>f DEF HandleInv, PlanOK, PlanOf
  <1>7. \A k, m \in DOMAIN plan : plan[k] # 0 /\ plan[k] = plan[m] => k = m
    BY <1>1 DEF HandleInv, PlanOK, PlanOf
  <1>8. \A k \in DOMAIN mine :
            new[k] = IF plan[k] # 0 THEN old[plan[k]] ELSE mine[k]
    <2> SUFFICES ASSUME NEW k \in DOMAIN mine
                 PROVE  new[k] = IF plan[k] # 0 THEN old[plan[k]] ELSE mine[k]
      OBVIOUS
    <2>1. new[k] = IF plan[k] \in DOMAIN old THEN old[plan[k]] ELSE mine[k]
      BY <1>f DEF NewSlots
    <2>2. plan[k] \in DOMAIN old <=> plan[k] # 0
      BY <1>4, <1>5, <1>6 DEF Filled
    <2> QED
      BY <2>1, <2>2
  <1>9. /\ \A k \in DOMAIN plan : k \in Nat
        /\ \A k \in DOMAIN plan : plan[k] \in Nat
    BY <1>4, <1>5, ElementOfSeq
  <1>m. /\ SlotsOK /\ UniqueOK /\ OpenOK /\ HeapTyped
        /\ open' = open \ {old[j] : j \in DOMAIN old
                                          \ ({plan[i] : i \in DOMAIN plan} \cap DOMAIN old)}
    BY DEF HandleInv, SnapInv, Swaps, reload_swap
  <1> HIDE DEF old, mine, plan, new, Left
  \* a filled slot of the new heap, and where its handle was
  <1>10. ASSUME NEW s \in Snaps, NEW i \in Nat, Filled(s, i)'
         PROVE  /\ s # conf
                /\ \/ /\ s = f /\ i \in DOMAIN plan /\ plan[i] # 0 /\ Filled(conf, plan[i])
                      /\ heap'[s].slots[i] = heap[conf].slots[plan[i]]
                   \/ /\ s = f => i \in DOMAIN plan /\ plan[i] = 0
                      /\ Filled(s, i) /\ heap'[s].slots[i] = heap[s].slots[i]
    <2>1. s # conf
      BY <1>3, <1>10 DEF Filled
    <2>2. CASE s = f
      <3>1. i \in DOMAIN plan /\ new[i] # NoHandle
        BY <1>3, <1>5, <1>10, <2>2 DEF Filled
      <3>2. CASE plan[i] # 0
        BY <1>3, <1>5, <1>6, <1>8, <2>1, <2>2, <3>1, <3>2 DEF old
      <3>3. CASE plan[i] = 0
        <4>1. new[i] = mine[i] /\ i \in DOMAIN mine
          BY <1>5, <1>8, <3>1, <3>3
        <4>2. Filled(f, i)
          BY <1>2, <3>1, <4>1 DEF Filled, mine
        <4> QED
          BY <1>3, <2>1, <2>2, <3>1, <3>3, <4>1, <4>2 DEF mine
      <3> QED
        BY <3>2, <3>3
    <2>3. CASE s # f
      BY <1>3, <1>10, <2>1, <2>3 DEF Filled
    <2> QED
      BY <2>2, <2>3
  <1>11. ASSUME NEW i \in DOMAIN plan, plan[i] # 0
         PROVE  Filled(f, i)' /\ heap'[f].slots[i] = heap[conf].slots[plan[i]]
    <2>1. new[i] = old[plan[i]] /\ old[plan[i]] # NoHandle
      BY <1>5, <1>6, <1>8, <1>11 DEF Filled, old
    <2> QED
      BY <1>3, <1>5, <2>1 DEF Filled, old
  <1>12. ASSUME NEW s \in Snaps, NEW i \in Nat, Filled(s, i), s # conf
         PROVE  Filled(s, i)' /\ heap'[s].slots[i] = heap[s].slots[i]
    <2>1. CASE s = f
      <3>1. i \in DOMAIN plan /\ mine[i] # NoHandle
        BY <1>5, <1>12, <2>1 DEF Filled, mine
      <3>2. new[i] = mine[i]
        BY <1>5, <1>6, <1>8, <3>1
      <3> QED
        BY <1>3, <1>5, <2>1, <3>1, <3>2 DEF Filled, mine
    <2>2. CASE s # f
      BY <1>3, <1>12, <2>2 DEF Filled
    <2> QED
      BY <2>1, <2>2
  <1>13. \A s, r \in Snaps : \A i, j \in Nat :
            Filled(s, i) /\ Filled(r, j) /\ heap[s].slots[i] = heap[r].slots[j]
              => s = r /\ i = j
    BY <1>m, Zenon DEF UniqueOK
  <1>14. UniqueOK'
    <2> SUFFICES ASSUME NEW s \in Snaps, NEW r \in Snaps, NEW i \in Nat, NEW j \in Nat,
                        Filled(s, i)', Filled(r, j)',
                        heap'[s].slots[i] = heap'[r].slots[j]
                 PROVE  s = r /\ i = j
      BY DEF UniqueOK
    <2>1. s # conf /\ r # conf
      BY <1>10
    <2>2. CASE s = f /\ i \in DOMAIN plan /\ plan[i] # 0 /\ Filled(conf, plan[i])
               /\ heap'[s].slots[i] = heap[conf].slots[plan[i]]
      <3>1. CASE r = f /\ j \in DOMAIN plan /\ plan[j] # 0 /\ Filled(conf, plan[j])
                 /\ heap'[r].slots[j] = heap[conf].slots[plan[j]]
        <4>1. plan[i] = plan[j]
          BY <1>2, <1>9, <1>13, <2>2, <3>1
        <4> QED
          BY <1>7, <2>2, <3>1, <4>1
      <3>2. CASE Filled(r, j) /\ heap'[r].slots[j] = heap[r].slots[j]
        <4>1. r = conf
          BY <1>2, <1>9, <1>13, <2>2, <3>2
        <4> QED
          BY <2>1, <4>1
      <3> QED
        BY <1>10, <3>1, <3>2
    <2>3. CASE Filled(s, i) /\ heap'[s].slots[i] = heap[s].slots[i]
      <3>1. CASE r = f /\ j \in DOMAIN plan /\ plan[j] # 0 /\ Filled(conf, plan[j])
                 /\ heap'[r].slots[j] = heap[conf].slots[plan[j]]
        <4>1. s = conf
          BY <1>2, <1>9, <1>13, <2>3, <3>1
        <4> QED
          BY <2>1, <4>1
      <3>2. CASE Filled(r, j) /\ heap'[r].slots[j] = heap[r].slots[j]
        BY <1>13, <2>3, <3>2
      <3> QED
        BY <1>10, <3>1, <3>2
    <2> QED
      BY <1>10, <2>2, <2>3
  <1>15. OpenOK'
    <2>1. ASSUME NEW h, h \in open'
          PROVE  \E s \in Snaps : \E i \in Nat : Filled(s, i)' /\ heap'[s].slots[i] = h
      <3>1. PICK s \in Snaps : \E i \in Nat : Filled(s, i) /\ heap[s].slots[i] = h
        BY <1>m, <2>1 DEF OpenOK
      <3>2. PICK i \in Nat : Filled(s, i) /\ heap[s].slots[i] = h
        BY <3>1
      <3>3. CASE s # conf
        BY <1>12, <3>2, <3>3
      <3>4. CASE s = conf
        <4>1. i \in DOMAIN old /\ h = old[i]
          BY <3>2, <3>4 DEF Filled, old
        <4>2. i \in {plan[k] : k \in DOMAIN plan}
          BY <1>m, <2>1, <4>1
        <4>3. PICK k \in DOMAIN plan : i = plan[k]
          BY <4>2
        <4>4. plan[k] # 0
          BY <1>4, <4>1, <4>3
        <4>5. Filled(f, k)' /\ heap'[f].slots[k] = h
          BY <1>11, <3>2, <3>4, <4>3, <4>4
        <4> QED
          BY <1>2, <1>9, <4>5
      <3> QED
        BY <3>3, <3>4
    <2>2. ASSUME NEW s \in Snaps, NEW i \in Nat, Filled(s, i)'
          PROVE  heap'[s].slots[i] \in open'
      <3> DEFINE h == heap'[s].slots[i]
      <3>1. h \in open
        BY <1>2, <1>9, <1>10, <1>m, <2>2 DEF OpenOK
      <3>2. ASSUME NEW j \in DOMAIN old, h = old[j]
            PROVE  \E k \in DOMAIN plan : j = plan[k]
        <4>1. h # NoHandle
          BY <2>2 DEF Filled
        <4>2. Filled(conf, j) /\ j \in Nat
          BY <1>2, <1>4, <3>2, <4>1 DEF Filled, old
        <4>3. CASE s = f /\ i \in DOMAIN plan /\ plan[i] # 0 /\ Filled(conf, plan[i])
                   /\ h = heap[conf].slots[plan[i]]
          <5>1. plan[i] = j
            BY <1>2, <1>9, <1>13, <3>2, <4>2, <4>3 DEF old
          <5> QED
            BY <4>3, <5>1
        <4>4. CASE Filled(s, i) /\ h = heap[s].slots[i]
          <5>1. s = conf
            BY <1>2, <1>13, <3>2, <4>2, <4>4 DEF old
          <5> QED
            BY <1>10, <2>2, <5>1
        <4> QED
          BY <1>10, <2>2, <4>3, <4>4
      <3> HIDE DEF h
      <3>3. h \notin {old[j] : j \in DOMAIN old \ ({plan[k] : k \in DOMAIN plan} \cap DOMAIN old)}
        BY <3>2
      <3> QED
        BY <1>m, <3>1, <3>3 DEF h
    <2> QED
      BY <2>1, <2>2 DEF OpenOK
  <1>16. \A x \in Snaps : heap[x].st = "freed" => heap'[x].st = "freed"
    BY <1>2, <1>3
  <1>17. ASSUME NEW i \in DOMAIN new
         PROVE  \/ new[i] \in {NoHandle, <<f, heap[f].content, i>>}
                \/ Left(new[i], f, i)
    <2>0. i \in DOMAIN mine /\ i \in DOMAIN plan
      BY <1>5, <1>17
    <2>1. CASE plan[i] = 0
      <3>1. new[i] = mine[i]
        BY <1>8, <2>0, <2>1
      <3>2. mine[i] \in {NoHandle, <<f, heap[f].content, i>>} \/ Inherited(mine[i], f, i)
        BY <1>2, <1>m, <2>0 DEF SlotsOK, mine
      <3>3. Inherited(mine[i], f, i) => Left(mine[i], f, i)
        BY <1>3, <1>16 DEF Inherited, Left
      <3> QED
        BY <3>1, <3>2, <3>3
    <2>2. CASE plan[i] # 0
      <3> DEFINE j == plan[i]
                 h == heap[conf].slots[j]
                 c == heap[conf].content
      <3>1. new[i] = h /\ Filled(conf, j) /\ Fits(c, j, heap[f].content, i) /\ j \in Nat
        BY <1>6, <1>8, <1>9, <2>0, <2>2 DEF old
      <3>2. c \in Contents
        BY <1>2 DEF CheckedOK
      <3>3. CASE h = <<conf, c, j>>
        <4>1. h[1] = conf /\ h[2] = c /\ h[3] = j
          BY <3>3
        <4> HIDE DEF h, c, j
        <4>2. heap'[h[1]].st = "freed" /\ h[1] \in Snaps /\ h[2] \in Contents
              /\ Fits(h[2], h[3], heap'[f].content, i)
          BY <1>2, <1>3, <3>1, <3>2, <4>1
        <4>3. Left(h, f, i)
          BY <4>2 DEF Left
        <4> QED
          BY <3>1, <4>3
      <3>4. CASE Inherited(h, conf, j)
        <4> HIDE DEF j
        <4>1. /\ heap[h[1]].st = "freed" /\ h[1] \in Snaps /\ h[2] \in Contents
              /\ Fits(h[2], h[3], c, j)
          BY <3>4 DEF Inherited
        <4> HIDE DEF h, c
        <4>2. Fits(h[2], h[3], heap'[f].content, i)
          BY <1>3, <3>1, <4>1, FitsTwice
        <4>3. heap'[h[1]].st = "freed"
          BY <1>16, <4>1
        <4>4. Left(h, f, i)
          BY <4>1, <4>2, <4>3 DEF Left
        <4> QED
          BY <3>1, <4>4
      <3> QED
        BY <1>2, <1>m, <3>1, <3>3, <3>4, FilledBy
    <2> QED
      BY <2>1, <2>2
  <1>18. SlotsOK'
    <2>1. ASSUME NEW s \in Snaps, heap'[s].st = "live"
          PROVE  IF heap'[s].content = "none" THEN heap'[s].slots = <<>>
                 ELSE Len(heap'[s].slots) = Len(ConfOf(heap'[s].content).outputs)
      <3>1. CASE s = f
        <4>1. heap[f].content # "none"
          BY <1>1, <1>f, ContentNames DEF CheckedOK
        <4>2. Len(mine) = Len(ConfOf(heap[f].content).outputs)
          BY <1>2, <1>m, <4>1 DEF SlotsOK, mine
        <4> QED
          BY <1>3, <3>1, <4>1, <4>2
      <3>2. CASE s # f
        <4>1. heap'[s] = heap[s]
          BY <1>3, <2>1, <3>2
        <4> QED
          BY <1>m, <2>1, <4>1 DEF SlotsOK
      <3> QED
        BY <3>1, <3>2
    <2>2. ASSUME NEW s \in Snaps, heap'[s].st = "live", NEW i \in DOMAIN heap'[s].slots
          PROVE  \/ heap'[s].slots[i] \in {NoHandle, <<s, heap'[s].content, i>>}
                 \/ Left(heap'[s].slots[i], s, i)
      <3>1. CASE s = f
        BY <1>3, <1>17, <3>1
      <3>2. CASE s # f
        <4>1. heap'[s] = heap[s]
          BY <1>3, <2>2, <3>2
        <4>2. heap[s].slots[i] \in {NoHandle, <<s, heap[s].content, i>>}
              \/ Inherited(heap[s].slots[i], s, i)
          BY <1>m, <2>2, <4>1 DEF SlotsOK
        <4>3. Inherited(heap[s].slots[i], s, i) => Left(heap[s].slots[i], s, i)
          BY <1>16, <4>1 DEF Inherited, Left
        <4> QED
          BY <3>2, <4>1, <4>2, <4>3
      <3> QED
        BY <3>1, <3>2
    <2> QED
      BY <2>1, <2>2, Zenon DEF SlotsOK, Inherited, Left
  <1> QED
    BY <1>14, <1>15, <1>18

(* One snapshot is given slots, each empty, with a handle of its own, or as it was. *)
LEMMA SlotsSet ==
    ASSUME HeapTyped, SlotsOK, NEW s \in Snaps,
           heap[s].st # "freed", heap'[s].st = "live",
           \A r \in Snaps : r # s => heap'[r] = heap[r],
           IF heap'[s].content = "none" THEN heap'[s].slots = <<>>
           ELSE Len(heap'[s].slots) = Len(ConfOf(heap'[s].content).outputs),
           \A i \in DOMAIN heap'[s].slots :
               \/ heap'[s].slots[i] \in {NoHandle, <<s, heap'[s].content, i>>}
               \/ /\ heap[s].st = "live" /\ i \in DOMAIN heap[s].slots
                  /\ heap'[s].content = heap[s].content
                  /\ heap'[s].slots[i] = heap[s].slots[i]
    PROVE  SlotsOK'
  <1> DEFINE Left(h, r, i) == /\ h[1] \in Snaps /\ heap'[h[1]].st = "freed"
                              /\ h[2] \in Contents
                              /\ Fits(h[2], h[3], heap'[r].content, i)
  <1>1. \A x \in Snaps : heap[x].st = "freed" => heap'[x].st = "freed"
    OBVIOUS
  <1>2. ASSUME NEW r \in Snaps, heap'[r].st = "live"
        PROVE  IF heap'[r].content = "none" THEN heap'[r].slots = <<>>
               ELSE Len(heap'[r].slots) = Len(ConfOf(heap'[r].content).outputs)
    <2>1. CASE r = s
      BY <2>1
    <2>2. CASE r # s
      BY <1>2, <2>2 DEF SlotsOK
    <2> QED
      BY <2>1, <2>2
  <1>3. ASSUME NEW r \in Snaps, heap'[r].st = "live", NEW i \in DOMAIN heap'[r].slots
        PROVE  \/ heap'[r].slots[i] \in {NoHandle, <<r, heap'[r].content, i>>}
               \/ Left(heap'[r].slots[i], r, i)
    <2>1. CASE r = s /\ heap'[s].slots[i] \in {NoHandle, <<s, heap'[s].content, i>>}
      BY <2>1
    <2>2. CASE /\ heap[r].st = "live" /\ i \in DOMAIN heap[r].slots
               /\ heap'[r].content = heap[r].content
               /\ heap'[r].slots[i] = heap[r].slots[i]
      <3>1. heap[r].slots[i] \in {NoHandle, <<r, heap[r].content, i>>}
            \/ Inherited(heap[r].slots[i], r, i)
        BY <2>2 DEF SlotsOK
      <3>2. Inherited(heap[r].slots[i], r, i) => Left(heap[r].slots[i], r, i)
        BY <1>1, <2>2 DEF Inherited
      <3> HIDE DEF Left
      <3> QED
        BY <2>2, <3>1, <3>2
    <2>3. CASE r # s
      <3>1. heap'[r] = heap[r]
        BY <2>3
      <3> HIDE DEF Left
      <3> QED
        BY <1>3, <2>2, <3>1
    <2> HIDE DEF Left
    <2> QED
      BY <2>1, <2>2, <2>3
  <1> QED
    BY <1>2, <1>3, Zenon DEF SlotsOK, Inherited

LEMMA HandlesStarted ==
    ASSUME SnapInv, SlotsOK, UniqueOK, OpenOK,
           NEW s \in Snaps, NEW content \in Contents, NEW slots, Starts(s, content, slots)
    PROVE  SlotsOK' /\ UniqueOK' /\ OpenOK'
  <1> DEFINE rec == [st |-> "live", content |-> content, slots |-> slots]
             N == {i \in Nat : i \in DOMAIN slots /\ slots[i] # NoHandle}
  <1>1. /\ slots \in Seq(Handle) /\ Len(slots) = Len(ConfOf(content).outputs)
        /\ \A i \in DOMAIN slots : slots[i] \in {NoHandle, <<s, content, i>>}
        /\ heap[s].st = "unused" /\ open' = open \cup Handles(slots)
        /\ heap' = [heap EXCEPT ![s] = rec]
    BY OpenedTyped DEF Starts
  <1>2. rec \in Snapshot /\ rec.st = "live" /\ rec.content = content /\ rec.slots = slots
    BY <1>1, Records
  <1> HIDE DEF rec
  <1>3. /\ heap'[s].st = "live" /\ heap'[s].content = content /\ heap'[s].slots = slots
        /\ \A r \in Snaps : r # s => heap'[r] = heap[r]
    BY <1>1, <1>2, HeapSet DEF SnapInv, HeapTyped
  <1>4. content # "none"
    BY ContentNames
  <1>5. SlotsOK'
    BY <1>1, <1>3, <1>4, SlotsSet DEF SnapInv
  <1>6. DOMAIN slots \subseteq Nat
    BY <1>1, LenProperties
  <1>7. \A k \in N : ~Filled(s, k) /\ Filled(s, k)' /\ heap'[s].slots[k] = <<s, content, k>>
    BY <1>1, <1>3 DEF Filled
  <1>8. \A k \in Nat \ N : /\ Filled(s, k)' <=> Filled(s, k)
                           /\ Filled(s, k) => heap'[s].slots[k] = heap[s].slots[k]
    BY <1>1, <1>3 DEF Filled
  <1>9. Handles(slots) = {<<s, content, k>> : k \in N}
    <2>1. Handles(slots) = {slots[k] : k \in N}
      BY <1>6 DEF Handles
    <2> QED
      BY <1>1, <2>1
  <1> HIDE DEF N
  <1>10. N \in SUBSET Nat
    BY DEF N
  <1>11. UniqueOK' /\ OpenOK'
    <2>1. HeapTyped /\ heap[s].st # "freed" /\ open' = open \cup {<<s, content, k>> : k \in N}
      BY <1>1, <1>9 DEF SnapInv
    <2> QED
      BY <1>3, <1>7, <1>8, <1>10, <2>1, HandlesAdded
  <1> QED
    BY <1>5, <1>11

(* A snapshot that begins to be built has no handles. *)
LEMMA NothingAdded ==
    ASSUME HeapTyped, SlotsOK, UniqueOK, OpenOK, NEW s \in Snaps,
           heap[s].st # "freed", \A k \in Nat : ~Filled(s, k),
           heap'[s].st = "live", \A k \in DOMAIN heap'[s].slots : heap'[s].slots[k] = NoHandle,
           IF heap'[s].content = "none" THEN heap'[s].slots = <<>>
           ELSE Len(heap'[s].slots) = Len(ConfOf(heap'[s].content).outputs),
           \A r \in Snaps : r # s => heap'[r] = heap[r], open' = open
    PROVE  SlotsOK' /\ UniqueOK' /\ OpenOK'
  <1>1. SlotsOK'
    BY SlotsSet
  <1>2. \A k \in Nat : ~Filled(s, k)'
    BY DEF Filled
  <1>3. open' = open \cup {<<s, "none", k>> : k \in {}}
    OBVIOUS
  <1>4. UniqueOK' /\ OpenOK'
    <2>1. {} \in SUBSET Nat
      OBVIOUS
    <2>2. \A k \in Nat \ {} : /\ Filled(s, k)' <=> Filled(s, k)
                              /\ Filled(s, k) => heap'[s].slots[k] = heap[s].slots[k]
      BY <1>2
    <2>3. \A k \in {} : ~Filled(s, k) /\ Filled(s, k)' /\ heap'[s].slots[k] = <<s, "none", k>>
      OBVIOUS
    <2> QED
      BY <1>3, <2>1, <2>2, <2>3, HandlesAdded, Zenon
  <1> QED
    BY <1>1, <1>4

(* Only the snapshot under construction has a plan. *)
LEMMA PlanOfOne ==
    ASSUME NEW t \in Reloaders, \A u \in Reloaders : u # t => pc'[u] \notin Building,
           pc'[t] # "load", pc'[t] \in {"open", "swap"} => PlanOf(t)'
    PROVE  PlanOK'
  <1>1. {"load", "open", "swap"} \subseteq Building
    BY DEF Building
  <1> QED
    BY <1>1 DEF PlanOK

(* The plan stays good when the old snapshot does, and slots ahead are still empty. *)
LEMMA PlanNext ==
    ASSUME NEW t \in Reloaders, NEW plan, NEW next, NEW slots, NEW content, NEW c,
           loc'[t].plan = plan, loc'[t].next = next, next # 0,
           heap'[loc'[t].fresh].slots = slots, heap'[loc'[t].fresh].content = content,
           heap'[conf'].content = c, Len(plan) = Len(slots),
           \A k \in DOMAIN plan : k >= next => slots[k] = NoHandle,
           \A k \in DOMAIN plan : plan[k] # 0 =>
              heap'[conf'].st = "live" /\ plan[k] \in DOMAIN heap'[conf'].slots
              /\ heap'[conf'].slots[plan[k]] # NoHandle,
           \A k \in DOMAIN plan : plan[k] # 0 => slots[k] = NoHandle,
           \A k \in DOMAIN plan : plan[k] # 0 => Fits(c, plan[k], content, k),
           \A k, m \in DOMAIN plan : plan[k] # 0 /\ plan[k] = plan[m] => k = m
    PROVE  PlanOf(t)'
  BY DEF PlanOf, Filled, Fits, SameFile, conf_kv_equal

LEMMA PlanStays ==
    ASSUME NEW t \in Reloaders, PlanOf(t), loc'[t].plan = loc[t].plan,
           loc'[t].fresh = loc[t].fresh, loc'[t].next # 0,
           conf' = conf, heap'[conf] = heap[conf],
           heap'[loc[t].fresh].content = heap[loc[t].fresh].content,
           Len(heap'[loc[t].fresh].slots) = Len(heap[loc[t].fresh].slots),
           \A k \in DOMAIN loc[t].plan :
               /\ k >= loc'[t].next => k >= loc[t].next
               /\ k >= loc'[t].next \/ loc[t].plan[k] # 0 =>
                      heap'[loc[t].fresh].slots[k] = heap[loc[t].fresh].slots[k]
    PROVE  PlanOf(t)'
  <1> DEFINE plan == loc[t].plan
             old == heap[loc[t].fresh].slots
             slots == heap'[loc'[t].fresh].slots
             content == heap[loc[t].fresh].content
             c == heap[conf].content
  <1>1. /\ Len(plan) = Len(old)
        /\ \A k \in DOMAIN plan : k >= loc[t].next => old[k] = NoHandle
        /\ \A k \in DOMAIN plan : plan[k] # 0 =>
              /\ Filled(conf, plan[k]) /\ old[k] = NoHandle
              /\ Fits(c, plan[k], content, k)
        /\ \A k, m \in DOMAIN plan : plan[k] # 0 /\ plan[k] = plan[m] => k = m
    BY Zenon DEF PlanOf
  <1>2. \A k \in DOMAIN plan : plan[k] # 0 =>
            heap'[conf'].st = "live" /\ plan[k] \in DOMAIN heap'[conf'].slots
            /\ heap'[conf'].slots[plan[k]] # NoHandle
    BY <1>1 DEF Filled
  <1>3. /\ heap'[loc'[t].fresh].content = content /\ heap'[conf'].content = c
        /\ Len(plan) = Len(slots)
        /\ \A k \in DOMAIN plan : k >= loc'[t].next => slots[k] = NoHandle
        /\ \A k \in DOMAIN plan : plan[k] # 0 => slots[k] = NoHandle
    BY <1>1
  <1>4. \A k \in DOMAIN plan : plan[k] # 0 => Fits(c, plan[k], content, k)
    BY <1>1
  <1>5. loc'[t].plan = plan /\ heap'[loc'[t].fresh].slots = slots
    OBVIOUS
  <1> HIDE DEF plan, slots, content, c
  <1> QED
    BY <1>1, <1>2, <1>3, <1>4, <1>5, PlanNext

(* Nothing happens to the handles. *)
LEMMA HandlesSame ==
    ASSUME SlotsOK, UniqueOK, OpenOK, UNCHANGED <<heap, open>>
    PROVE  SlotsOK' /\ UniqueOK' /\ OpenOK'
  <1>1. SlotsOK'
    <2> DEFINE Left(h, r, i) == /\ h[1] \in Snaps /\ heap'[h[1]].st = "freed"
                                /\ h[2] \in Contents
                                /\ Fits(h[2], h[3], heap'[r].content, i)
    <2>1. \A h, r, i : Inherited(h, r, i) <=> Left(h, r, i)
      BY DEF Inherited
    <2> HIDE DEF Left
    <2>2. ASSUME NEW s \in Snaps, heap'[s].st = "live"
          PROVE  /\ IF heap'[s].content = "none" THEN heap'[s].slots = <<>>
                    ELSE Len(heap'[s].slots) = Len(ConfOf(heap'[s].content).outputs)
                 /\ \A i \in DOMAIN heap'[s].slots :
                      \/ heap'[s].slots[i] \in {NoHandle, <<s, heap'[s].content, i>>}
                      \/ Left(heap'[s].slots[i], s, i)
      BY <2>1, <2>2 DEF SlotsOK
    <2> QED
      BY <2>2, Zenon DEF SlotsOK, Inherited, Left
  <1>2. UniqueOK'
    BY DEF UniqueOK, Filled
  <1>3. OpenOK'
    BY DEF OpenOK, Filled
  <1> QED
    BY <1>1, <1>2, <1>3

(* A reload that begins: its snapshot has no outputs yet. *)
LEMMA HandlesPrepared ==
    ASSUME ControlInv, SnapInv, HandleInv, NEW t \in Reloaders, NEW s \in Snaps,
           Prepares(t, s), Elsewhere(t)
    PROVE  HandleInv'
  <1>1. /\ heap'[s] = [st |-> "live", content |-> "none", slots |-> <<>>]
        /\ \A r \in Snaps : r # s => heap'[r] = heap[r]
        /\ loc'[t].fresh = s
        /\ \A u \in Reloaders : pc[u] \notin Building
    BY PreparesFacts
  <1>2. heap[s].st = "unused" /\ open' = open /\ pc'[t] = "load"
    BY DEF Prepares, Same
  <1>3. \A k \in Nat : ~Filled(s, k)
    BY <1>2 DEF Filled
  <1>4. SlotsOK' /\ UniqueOK' /\ OpenOK'
    BY <1>1, <1>2, <1>3, NothingAdded DEF SnapInv, HandleInv
  <1>5. PlanOK'
    <2>1. heap'[s].content = "none" /\ {"load", "open", "swap"} \subseteq Building
      BY <1>1 DEF Building
    <2> QED
      BY <1>1, <1>2, <2>1 DEF PlanOK, Elsewhere
  <1> QED
    BY <1>4, <1>5 DEF HandleInv

(* A reload whose file was accepted: it has its outputs, and the plan of which to keep. *)
LEMMA HandlesPlanned ==
    ASSUME ControlInv, SnapInv, CheckedOK, HandleInv, NEW t \in Reloaders,
           Plans(t), Elsewhere(t)
    PROVE  HandleInv'
  <1>1. PICK f \in Snaps : f = loc[t].fresh
    BY InReload DEF Plans, Building
  <1> DEFINE slots == [i \in DOMAIN FileConf[file].outputs |-> NoHandle]
             opened == {j \in DOMAIN heap[conf].slots: heap[conf].slots[j] # NoHandle}
             c == heap[conf].content
             plan == ReusePlan(FileConf[file], ConfOf(c), opened)
             outputs == FileConf[file].outputs
  <1>2. /\ heap'[f] = [st |-> "live", content |-> file, slots |-> slots]
        /\ slots \in Seq(Handle)
        /\ \A r \in Snaps : r # f => heap'[r] = heap[r]
        /\ loc'[t].fresh = f /\ loc'[t].next = 1 /\ loc'[t].plan = plan
        /\ file \in DOMAIN Files /\ opened \in SUBSET (Nat \ {0})
        /\ pc[t] \in Building
    BY <1>1, PlansFacts, Zenon
  <1>l. state # "uninit"
    BY DEF Plans
  <1>3. /\ conf \in Snaps /\ f # conf /\ heap[f].st = "live" /\ heap[conf].st = "live"
        /\ state # "uninit" /\ \A u \in Reloaders : u # t => pc[u] \notin Building
    BY <1>1, <1>l, <1>2, InReload DEF IsLive
  <1>4. open' = open /\ conf' = conf /\ pc[t] = "load" /\ pc'[t] = "open" /\ Reloads[file]
    BY DEF Plans, Same
  <1>5. c \in Contents /\ c # "none"
    BY <1>3, ContentNames DEF CheckedOK
  <1>6. /\ plan \in Seq(Nat) /\ Len(plan) = Len(outputs)
        /\ DOMAIN plan = DOMAIN outputs /\ DOMAIN outputs = 1 .. Len(outputs)
        /\ \A k \in DOMAIN plan : plan[k] # 0 =>
              /\ plan[k] \in opened
              /\ ConfOf(c).outputs[plan[k]].type = "file" /\ outputs[k].type = "file"
              /\ SameFile(ConfOf(c).outputs[plan[k]], outputs[k])
    BY <1>2, PlanTyped, Zenon
  <1>7. ConfOf(file) = FileConf[file] /\ file \in Contents /\ file # "none"
    BY <1>2, ContentNames
  <1>8. opened \subseteq DOMAIN ConfOf(c).outputs
    BY <1>3, <1>5, SlotsListed DEF HandleInv, SnapInv
  <1>9. \A k, m \in DOMAIN plan : plan[k] # 0 /\ plan[k] = plan[m] => k = m
    <2> SUFFICES ASSUME NEW k \in DOMAIN plan, NEW m \in DOMAIN plan,
                        plan[k] # 0, plan[k] = plan[m]
                 PROVE  k = m
      BY Zenon
    <2>1. /\ k \in DOMAIN outputs /\ m \in DOMAIN outputs
          /\ outputs[k].type = "file" /\ outputs[m].type = "file"
          /\ SameFile(ConfOf(c).outputs[plan[k]], outputs[k])
          /\ SameFile(ConfOf(c).outputs[plan[k]], outputs[m])
      BY <1>6, Zenon
    <2> QED
      BY <1>2, <1>4, <2>1, PlanKeepsApart, Zenon
  <1>10. Len(slots) = Len(outputs) /\ DOMAIN slots = DOMAIN outputs
         /\ \A k \in DOMAIN slots : slots[k] = NoHandle
    <2>1. Len(outputs) \in Nat /\ DOMAIN slots = 1 .. Len(outputs)
      BY <1>6, LenProperties
    <2> QED
      BY <1>2, <1>6, <2>1, LenProperties
  <1> HIDE DEF slots
  <1>11. heap'[f].st = "live" /\ heap'[f].content = file /\ heap'[f].slots = slots
    BY <1>2
  <1>12. \A k \in Nat : ~Filled(f, k)
    <2>1. heap[f].content = "none"
      BY <1>1, <1>4 DEF HandleInv, PlanOK
    <2>2. heap[f].slots = <<>>
      BY <1>3, <2>1 DEF HandleInv, SlotsOK
    <2> QED
      BY <2>2 DEF Filled
  <1>13. SlotsOK' /\ UniqueOK' /\ OpenOK'
    <2>1. heap[f].st # "freed" /\ heap'[f].content # "none"
          /\ Len(heap'[f].slots) = Len(ConfOf(heap'[f].content).outputs)
          /\ \A k \in DOMAIN heap'[f].slots : heap'[f].slots[k] = NoHandle
      BY <1>3, <1>7, <1>10, <1>11
    <2> QED
      BY <1>2, <1>4, <1>11, <1>12, <2>1, NothingAdded DEF HandleInv, SnapInv
  <1>14. PlanOK'
    <2>1. heap'[conf] = heap[conf]
      BY <1>2, <1>3
    <2>2. \A k \in DOMAIN plan : plan[k] # 0 =>
              /\ plan[k] \in DOMAIN heap[conf].slots /\ heap[conf].slots[plan[k]] # NoHandle
              /\ plan[k] \in DOMAIN ConfOf(c).outputs /\ k \in DOMAIN ConfOf(file).outputs
              /\ ConfOf(c).outputs[plan[k]].type = "file"
              /\ ConfOf(file).outputs[k].type = "file"
              /\ SameFile(ConfOf(c).outputs[plan[k]], ConfOf(file).outputs[k])
      BY <1>6, <1>7, <1>8
    <2> HIDE DEF plan, c, outputs
    <2>3. \A k \in DOMAIN plan : plan[k] # 0 => Fits(c, plan[k], file, k)
      BY <2>2, Zenon DEF Fits
    <2>4. \A k \in DOMAIN plan : slots[k] = NoHandle
      BY <1>6, <1>10
    <2>5. Len(plan) = Len(slots) /\ heap'[conf'].content = c /\ heap'[conf'].st = "live"
          /\ heap'[conf'].slots = heap[conf].slots
      BY <1>3, <1>4, <1>6, <1>10, <2>1 DEF c
    <2>6. \A k \in DOMAIN plan : plan[k] # 0 =>
              heap'[conf'].st = "live" /\ plan[k] \in DOMAIN heap'[conf'].slots
              /\ heap'[conf'].slots[plan[k]] # NoHandle
      BY <2>2, <2>5
    <2>7. PlanOf(t)'
      BY <1>2, <1>9, <1>11, <2>3, <2>4, <2>5, <2>6, PlanNext
    <2> QED
      BY <1>3, <1>4, <2>7, PlanOfOne DEF Elsewhere
  <1> QED
    BY <1>13, <1>14 DEF HandleInv

(* A reload that fails closes what it opened. *)
LEMMA HandlesDropped ==
    ASSUME ControlInv, SnapInv, HandleInv, NEW t \in Reloaders, Drops(t), Elsewhere(t)
    PROVE  HandleInv'
  <1>1. PICK f \in Snaps : f = loc[t].fresh /\ heap[f].st = "live"
    BY InReload DEF Drops, IsLive
  <1>2. heap'[f] = Unused /\ \A r \in Snaps : r # f => heap'[r] = heap[r]
    BY <1>1, DropsFacts, Zenon
  <1>3. open' = open \ Handles(heap[f].slots) /\ pc'[t] \notin Building
    BY <1>1 DEF Drops, FreshOf
  <1>4. SlotsOK' /\ UniqueOK' /\ OpenOK'
    <2>1. heap'[f].st # "live"
      BY <1>2 DEF Unused
    <2> QED
      BY <1>1, <1>2, <1>3, <2>1, HandlesClosed DEF HandleInv, SnapInv
  <1>5. PlanOK'
    <2>1. \A u \in Reloaders : pc'[u] \notin Building
      BY <1>3, InReload DEF Elsewhere, Drops
    <2> QED
      BY <2>1 DEF PlanOK, Building
  <1> QED
    BY <1>4, <1>5 DEF HandleInv

(* An output that is kept, or one that is opened. *)
LEMMA HandlesSkipped ==
    ASSUME ControlInv, SnapInv, HandleInv, NEW t \in Reloaders, Skips(t), Elsewhere(t)
    PROVE  HandleInv'
  <1>1. /\ UNCHANGED <<heap, open, conf>> /\ pc[t] = "open" /\ pc' = pc
        /\ state # "uninit"
        /\ loc' = [loc EXCEPT ![t].next = loc[t].next + 1]
    BY DEF Skips, Same
  <1>2. /\ loc'[t].fresh = loc[t].fresh /\ loc'[t].plan = loc[t].plan
        /\ loc'[t].next = loc[t].next + 1 /\ loc[t].next \in Nat /\ loc[t].plan \in Seq(Nat)
    BY <1>1, NextOutput
  <1>3. SlotsOK' /\ UniqueOK' /\ OpenOK'
    BY <1>1, HandlesSame DEF HandleInv
  <1>4. PlanOf(t)
    BY <1>1 DEF HandleInv, PlanOK
  <1>5. DOMAIN loc[t].plan \subseteq Nat
    BY <1>2, LenProperties
  <1>6. PlanOf(t)'
    <2>1. loc'[t].next # 0 /\ \A k \in DOMAIN loc[t].plan :
              k >= loc'[t].next => k >= loc[t].next
      BY <1>2, <1>5
    <2>2. heap'[conf] = heap[conf] /\ heap'[loc[t].fresh] = heap[loc[t].fresh]
      BY <1>1
    <2> QED
      BY <1>1, <1>2, <1>4, <2>1, <2>2, PlanStays
  <1>7. PlanOK'
    <2>1. \A u \in Reloaders : u # t => pc'[u] \notin Building
      BY <1>1, InReload DEF Building
    <2> QED
      BY <1>1, <1>6, <2>1, PlanOfOne
  <1> QED
    BY <1>3, <1>7 DEF HandleInv

LEMMA HandlesOpened ==
    ASSUME ControlInv, SnapInv, CheckedOK, HandleInv, NEW t \in Reloaders,
           Opens(t), Elsewhere(t)
    PROVE  HandleInv'
  <1>1. PICK f \in Snaps : f = loc[t].fresh /\ heap[f].st = "live" /\ f # conf
    BY InReload DEF Opens, Building, IsLive
  <1>2. PICK i : i = loc[t].next
    OBVIOUS
  <1>3. PICK c : c = heap[f].content
    OBVIOUS
  <1>4. /\ heap'[f].st = heap[f].st /\ heap'[f].content = c
        /\ heap'[f].slots = [heap[f].slots EXCEPT ![i] = <<f, c, i>>]
        /\ Len(heap'[f].slots) = Len(heap[f].slots)
        /\ \A s \in Snaps \ {f} : heap'[s] = heap[s]
    BY <1>1, <1>2, <1>3, OpensFacts, Zenon
  <1>5. /\ pc[t] = "open" /\ pc' = pc /\ conf' = conf /\ state # "uninit"
        /\ i <= Len(loc[t].plan) /\ loc[t].plan[i] = 0
        /\ open' = open \cup {<<f, c, i>>}
        /\ loc' = [loc EXCEPT ![t].next = loc[t].next + 1]
    BY <1>1, <1>2, <1>3 DEF Opens, FreshOf
  <1>6. /\ loc'[t].fresh = f /\ loc'[t].plan = loc[t].plan /\ loc'[t].next = i + 1
        /\ i \in Nat /\ loc[t].plan \in Seq(Nat)
    BY <1>1, <1>2, <1>5, NextOutput
  <1>7. PlanOf(t) /\ SlotsOK /\ UniqueOK /\ OpenOK /\ HeapTyped
    BY <1>5 DEF HandleInv, PlanOK, SnapInv
  <1>8. /\ Len(loc[t].plan) = Len(heap[f].slots) /\ i # 0
        /\ \A k \in DOMAIN loc[t].plan : k >= i => heap[f].slots[k] = NoHandle
    BY <1>1, <1>2, <1>7 DEF PlanOf
  <1>9. /\ DOMAIN heap[f].slots = 1 .. Len(heap[f].slots) /\ Len(heap[f].slots) \in Nat
        /\ DOMAIN loc[t].plan = 1 .. Len(loc[t].plan)
    BY <1>6, <1>7, SlotsListed, LenProperties
  <1>10. i \in DOMAIN heap[f].slots /\ heap[f].slots[i] = NoHandle
         /\ i \in DOMAIN loc[t].plan
    BY <1>5, <1>6, <1>8, <1>9
  <1>11. /\ DOMAIN heap'[f].slots = DOMAIN heap[f].slots /\ heap'[f].slots[i] = <<f, c, i>>
         /\ \A k \in DOMAIN heap[f].slots : k # i => heap'[f].slots[k] = heap[f].slots[k]
    BY <1>4, <1>10
  <1>12. SlotsOK'
    <2>1. IF heap'[f].content = "none" THEN heap'[f].slots = <<>>
          ELSE Len(heap'[f].slots) = Len(ConfOf(heap'[f].content).outputs)
      <3>1. c \in DOMAIN Files
        BY <1>1, <1>3, <1>5 DEF CheckedOK
      <3>2. c # "none"
        BY <3>1, ContentNames
      <3> QED
        BY <1>1, <1>3, <1>4, <1>7, <3>2 DEF SlotsOK
    <2>2. \A k \in DOMAIN heap'[f].slots :
              \/ heap'[f].slots[k] \in {NoHandle, <<f, heap'[f].content, k>>}
              \/ /\ heap[f].st = "live" /\ k \in DOMAIN heap[f].slots
                 /\ heap'[f].content = heap[f].content
                 /\ heap'[f].slots[k] = heap[f].slots[k]
      BY <1>1, <1>3, <1>4, <1>11
    <2>3. heap[f].st # "freed" /\ heap'[f].st = "live"
          /\ \A r \in Snaps : r # f => heap'[r] = heap[r]
      BY <1>1, <1>4
    <2> QED
      BY <1>7, <2>1, <2>2, <2>3, SlotsSet
  <1>13. UniqueOK' /\ OpenOK'
    <2> DEFINE N == {i}
    <2>1. heap[f].st # "freed" /\ \A r \in Snaps : r # f => heap'[r] = heap[r]
      BY <1>1, <1>4
    <2>2. N \in SUBSET Nat /\ open' = open \cup {<<f, c, k>> : k \in N}
      BY <1>5, <1>6
    <2>3. \A k \in N : ~Filled(f, k) /\ Filled(f, k)' /\ heap'[f].slots[k] = <<f, c, k>>
      <3>1. <<f, c, i>> # NoHandle
        BY DEF NoHandle, Snaps
      <3> QED
        BY <1>1, <1>4, <1>10, <1>11, <3>1 DEF Filled
    <2>4. \A k \in Nat \ N : /\ Filled(f, k)' <=> Filled(f, k)
                             /\ Filled(f, k) => heap'[f].slots[k] = heap[f].slots[k]
      BY <1>4, <1>11 DEF Filled
    <2> HIDE DEF N
    <2> QED
      BY <1>7, <2>1, <2>2, <2>3, <2>4, HandlesAdded
  <1>14. PlanOK'
    <2>1. heap'[conf] = heap[conf]
      BY <1>1, <1>4, <1>5, InReload DEF Building
    <2>2. \A k \in DOMAIN loc[t].plan :
               /\ k >= loc'[t].next => k >= loc[t].next
               /\ k >= loc'[t].next \/ loc[t].plan[k] # 0 =>
                      heap'[loc[t].fresh].slots[k] = heap[loc[t].fresh].slots[k]
      <3> SUFFICES ASSUME NEW k \in DOMAIN loc[t].plan
                   PROVE  /\ k >= loc'[t].next => k >= loc[t].next
                          /\ k >= loc'[t].next \/ loc[t].plan[k] # 0 =>
                                 heap'[loc[t].fresh].slots[k] = heap[loc[t].fresh].slots[k]
        OBVIOUS
      <3>1. k \in Nat /\ k \in DOMAIN heap[f].slots
        BY <1>8, <1>9
      <3>2. k >= loc'[t].next => k >= loc[t].next /\ k # i
        BY <1>2, <1>6, <3>1
      <3>3. loc[t].plan[k] # 0 => k # i
        BY <1>5
      <3>4. k # i => heap'[f].slots[k] = heap[f].slots[k]
        BY <1>11, <3>1
      <3> QED
        BY <1>1, <3>2, <3>3, <3>4
    <2>3. /\ loc'[t].next # 0 /\ loc'[t].plan = loc[t].plan /\ loc'[t].fresh = loc[t].fresh
          /\ heap'[loc[t].fresh].content = heap[loc[t].fresh].content
          /\ Len(heap'[loc[t].fresh].slots) = Len(heap[loc[t].fresh].slots)
      BY <1>1, <1>3, <1>4, <1>6
    <2>4. PlanOf(t)'
      BY <1>5, <1>7, <2>1, <2>2, <2>3, PlanStays
    <2>5. \A u \in Reloaders : u # t => pc'[u] \notin Building
      BY <1>5, InReload DEF Building
    <2> QED
      BY <1>5, <2>4, <2>5, PlanOfOne
  <1> QED
    BY <1>12, <1>13, <1>14 DEF HandleInv

(* A step that leaves nobody building a snapshot leaves no plan to keep. *)
LEMMA NoPlan ==
    ASSUME \A t \in Reloaders : pc'[t] \notin Building
    PROVE  PlanOK'
  BY DEF PlanOK, Building

LEMMA HandleInit == Init => HandleInv
  <1> SUFFICES ASSUME Init
               PROVE  HandleInv
    OBVIOUS
  <1>1. \A s \in Snaps : heap[s].st = "unused"
    BY DEF Init, Unused
  <1>2. \A s \in Snaps : \A i \in Nat : ~Filled(s, i)
    BY <1>1 DEF Filled
  <1>3. SlotsOK
    BY <1>1 DEF SlotsOK
  <1>4. UniqueOK /\ OpenOK
    BY <1>2 DEF Init, UniqueOK, OpenOK
  <1>5. PlanOK
    BY Names DEF Init, PlanOK
  <1> QED
    BY <1>3, <1>4, <1>5 DEF HandleInv

LEMMA HandleStep ==
    ASSUME ControlInv, SavedOK, SnapInv, CheckedOK, HandleInv, [Next]_vars
    PROVE  HandleInv'
  <1>1. Effect
    BY EffectOrStutter
  <1> USE DEF HandleInv
  <1>2. CASE Still
    <2>1. SlotsOK' /\ UniqueOK' /\ OpenOK'
      BY <1>2, HandlesSame DEF Still, Same
    <2>2. ASSUME NEW t \in Reloaders
          PROVE  /\ pc'[t] = "load" => heap'[loc'[t].fresh].content = "none"
                 /\ pc'[t] \in {"open", "swap"} /\ state' # "uninit" => PlanOf(t)'
      <3>1. pc'[t] = "load" <=> pc[t] = "load"
        BY <1>2 DEF Still
      <3>2. pc'[t] \in {"open", "swap"} => pc[t] \in {"open", "swap"}
        BY <1>2 DEF Still, Building
      <3>3. UNCHANGED <<heap, loc, conf>> /\ (state' = "uninit" <=> state = "uninit")
        BY <1>2 DEF Still, Same
      <3>4. ASSUME PlanOf(t), pc[t] \in {"open", "swap"}
            PROVE  PlanOf(t)'
        <4>1. loc'[t].next # 0
          BY <3>3, <3>4 DEF PlanOf
        <4> QED
          BY <3>3, <3>4, <4>1, PlanStays
      <3> QED
        BY <3>1, <3>2, <3>3, <3>4 DEF PlanOK
    <2>3. PlanOK'
      BY <2>2, Zenon DEF PlanOK
    <2> QED
      BY <2>1, <2>3
  <1>3. CASE Forks
    BY <1>3, HandlesSame, NoPlan DEF Forks
  <1>4. CASE Ends
    <2>1. conf \in Snaps /\ heap[conf].st = "live"
      BY <1>4 DEF Ends, SnapInv, HeapTyped, ConfOK, IsLive
    <2>2. heap' = [heap EXCEPT ![conf] = [st |-> "freed", content |-> "none", slots |-> <<>>]]
      BY <1>4 DEF Ends, Free
    <2>3. heap'[conf].st = "freed" /\ \A r \in Snaps : r # conf => heap'[r] = heap[r]
      BY <2>1, <2>2 DEF SnapInv, HeapTyped
    <2>4. SlotsOK' /\ UniqueOK' /\ OpenOK'
      BY <1>4, <2>1, <2>3, HandlesClosed DEF Ends, SnapInv
    <2>5. PlanOK'
      <3>1. \A t \in Reloaders : pc[t] = "load" =>
                loc[t].fresh \in Snaps /\ loc[t].fresh # conf
        BY DEF SnapInv, HeapTyped, Locals, BuildOK, Building, IsLive
      <3>2. /\ UNCHANGED loc /\ state' = "uninit"
            /\ \A t \in Reloaders : pc'[t] = pc[t]
        BY <1>4 DEF Ends
      <3> QED
        BY <2>3, <3>1, <3>2 DEF PlanOK
    <2> QED
      BY <2>4, <2>5
  <1>5. ASSUME NEW s \in Snaps, NEW content \in Contents, NEW slots, Starts(s, content, slots)
        PROVE  HandleInv'
    <2>1. \A t \in Reloaders : pc'[t] \notin Building
      BY <1>5 DEF Starts
    <2> QED
      BY <1>5, <2>1, HandlesStarted, NoPlan
  <1>6. ASSUME NEW t \in Reloaders, Reloading(t)
        PROVE  HandleInv'
    <2>1. Elsewhere(t)
      BY <1>6 DEF Reloading
    <2>2. CASE Swaps(t)
      <3>1. \A u \in Reloaders : pc'[u] \notin Building
        <4>1. pc[t] \in Building /\ pc'[t] \notin Building /\ state # "uninit"
          BY <2>2 DEF Swaps, reload_swap, Building
        <4> QED
          BY <2>1, <4>1, InReload DEF Elsewhere
      <3> QED
        BY <2>2, <3>1, HandlesMoved, NoPlan
    <2> HIDE DEF HandleInv
    <2> QED
      BY <1>6, <2>1, <2>2, HandlesPrepared, HandlesPlanned, HandlesDropped, HandlesSkipped,
         HandlesOpened, Zenon DEF Reloading
  <1> HIDE DEF HandleInv
  <1> QED
    BY <1>1, <1>2, <1>3, <1>4, <1>5, <1>6, Zenon DEF Effect

-----------------------------------------------------------------------------
(* Every handle has its place *)

RuntimeInv == LifeInv /\ CheckedOK /\ HandleInv

LEMMA RuntimeInvariant == Spec => []RuntimeInv
  <1>1. Init => RuntimeInv
    BY ControlInit, AsideInit, SnapInit, CheckedInit, HandleInit DEF LifeInv, RuntimeInv
  <1>2. RuntimeInv /\ [Next]_vars => RuntimeInv'
    BY ControlStep, AsideStep, SnapStep, CheckedStep, HandleStep DEF LifeInv, RuntimeInv
  <1> QED
    BY <1>1, <1>2, PTL DEF Spec

LEMMA RuntimeImpliesOwned ==
    ASSUME RuntimeInv
    PROVE  HandlesOwned
  <1> USE DEF RuntimeInv, LifeInv, HandleInv, SnapInv
  <1> DEFINE filled == {p \in UNION {SlotsOf(s) : s \in LiveSnaps}: heap[p[1]].slots[p[2]] # NoHandle}
             holds(p) == heap[p[1]].slots[p[2]]
  <1>1. ASSUME NEW p \in filled
        PROVE  /\ p[1] \in Snaps /\ p[2] \in Nat /\ Filled(p[1], p[2])
               /\ p = <<p[1], p[2]>>
    <2>1. PICK s \in LiveSnaps : p \in SlotsOf(s)
      OBVIOUS
    <2>2. PICK i \in DOMAIN heap[s].slots : p = <<s, i>>
      BY <2>1 DEF SlotsOf
    <2>3. s \in Snaps /\ heap[s].st = "live"
      BY DEF LiveSnaps
    <2>4. i \in Nat
      BY <2>3, SlotsListed
    <2>5. p[1] = s /\ p[2] = i
      BY <2>2
    <2> QED
      BY <2>2, <2>3, <2>4, <2>5 DEF Filled
  <1>2. ASSUME NEW s \in Snaps, NEW i \in Nat, Filled(s, i)
        PROVE  <<s, i>> \in filled
    <2>1. s \in LiveSnaps /\ <<s, i>> \in SlotsOf(s)
      BY <1>2 DEF LiveSnaps, SlotsOf, Filled
    <2> QED
      BY <1>2, <2>1 DEF Filled
  <1> HIDE DEF filled
  <1>3. open = {holds(p) : p \in filled}
    <2>1. ASSUME NEW h, h \in open
          PROVE  h \in {holds(p) : p \in filled}
      <3>1. PICK s \in Snaps : \E i \in Nat : Filled(s, i) /\ heap[s].slots[i] = h
        BY <2>1 DEF OpenOK
      <3>2. PICK i \in Nat : Filled(s, i) /\ heap[s].slots[i] = h
        BY <3>1
      <3>3. <<s, i>> \in filled /\ holds(<<s, i>>) = h
        BY <1>2, <3>2
      <3> QED
        BY <3>3
    <2>2. ASSUME NEW p \in filled
          PROVE  holds(p) \in open
      BY <1>1 DEF OpenOK
    <2> QED
      BY <2>1, <2>2
  <1>4. \A p, q \in filled : p # q => holds(p) # holds(q)
    <2> SUFFICES ASSUME NEW p \in filled, NEW q \in filled, holds(p) = holds(q)
                 PROVE  p = q
      OBVIOUS
    <2>1. /\ p[1] \in Snaps /\ p[2] \in Nat /\ Filled(p[1], p[2]) /\ p = <<p[1], p[2]>>
          /\ q[1] \in Snaps /\ q[2] \in Nat /\ Filled(q[1], q[2]) /\ q = <<q[1], q[2]>>
      BY <1>1
    <2>3. heap[p[1]].slots[p[2]] = heap[q[1]].slots[q[2]]
      OBVIOUS
    <2>4. PICK s \in Snaps, i \in Nat, r \in Snaps, j \in Nat :
              s = p[1] /\ i = p[2] /\ r = q[1] /\ j = q[2]
      BY <2>1
    <2>5. s = r /\ i = j
      BY <2>1, <2>3, <2>4 DEF UniqueOK
    <2>2. p[1] = q[1] /\ p[2] = q[2]
      BY <2>4, <2>5
    <2> QED
      BY <2>1, <2>2, Zenon
  <1>5. ~forked => LiveSnaps = ({conf} \cup {loc[t].fresh : t \in Reloaders}) \ {None}
    <2> SUFFICES ASSUME ~forked
                 PROVE  LiveSnaps = ({conf} \cup {loc[t].fresh : t \in Reloaders}) \ {None}
      OBVIOUS
    <2>1. ASSUME NEW s \in LiveSnaps
          PROVE  s \in ({conf} \cup {loc[t].fresh : t \in Reloaders}) \ {None}
      <3>1. s \in Snaps /\ heap[s].st = "live" /\ s # None
        BY DEF LiveSnaps, Snaps, None
      <3> QED
        BY <3>1 DEF LiveOK
    <2>2. conf # None => conf \in LiveSnaps
      <3>1. state = "uninit" => conf = None
        BY DEF ControlInv, PhaseOK
      <3> QED
        BY <3>1 DEF ConfOK, IsLive, LiveSnaps, HeapTyped
    <2>3. ASSUME NEW t \in Reloaders, loc[t].fresh # None
          PROVE  loc[t].fresh \in LiveSnaps
      <3>1. loc[t].fresh \in Snaps
        BY <2>3 DEF HeapTyped, Locals
      <3>2. IsLive(loc[t].fresh)
        BY <2>3 DEF BuildOK
      <3> QED
        BY <3>1, <3>2 DEF IsLive, LiveSnaps
    <2> QED
      BY <2>1, <2>2, <2>3
  <1>6. fork.child \/ state = "uninit" \/ conf \in LiveSnaps
    BY DEF ConfOK, IsLive, LiveSnaps, HeapTyped
  <1> QED
    BY <1>3, <1>4, <1>5, <1>6, Zenon DEF HandlesOwned, filled

(* Every open handle is in one slot of one live snapshot, and nothing but the active snapshot
   and those under construction is live outside a forked child: through every reload, whether
   it succeeds or rolls back, and every shutdown (reload_swap, finalize_reload,
   hpu_core_stop). *)
THEOREM HandlesHaveOneOwner == Spec => []HandlesOwned
  BY RuntimeInvariant, RuntimeImpliesOwned, PTL

(* An output with everything a reload may change taken from another one. *)
Changed(o, p) ==
    [o EXCEPT !.name = p.name, !.stream = p.stream, !.color = p.color,
              !.enabled = p.enabled, !.async = p.async, !.queue_size = p.queue_size]

(* Two outputs one of which was kept for the other differ in nothing else. *)
LEMMA KeptOutput ==
    ASSUME NEW c \in Contents, NEW d \in Contents, NEW i, NEW j, Fits(c, i, d, j)
    PROVE  Changed(ConfOf(c).outputs[i], ConfOf(d).outputs[j]) = ConfOf(d).outputs[j]
  <1> DEFINE opened == ConfOf(c).outputs[i]
             serves == ConfOf(d).outputs[j]
             F == {"name", "enabled", "async", "queue_size", "type", "type_name", "kv",
                   "stream", "color", "path", "rotate", "max_size", "time_unit", "max_files",
                   "fsync", "symlink_latest", "rotate_naming", "file_mode", "dir_mode"}
             free == {"name", "stream", "color", "enabled", "async", "queue_size"}
  <1>1. DOMAIN new_output("", "file") = F
    BY DEF new_output
  <1>2. /\ opened = [field \in F |-> opened[field]] /\ opened.type_name = "file"
        /\ serves = [field \in F |-> serves[field]] /\ serves.type_name = "file"
        /\ opened.type = serves.type
    <2> DEFINE D == DOMAIN new_output("", "file")
    <2>1. /\ i \in DOMAIN ConfOf(c).outputs /\ j \in DOMAIN ConfOf(d).outputs
          /\ opened.type = "file" /\ serves.type = "file"
      BY DEF Fits
    <2>2. opened = [field \in D |-> opened[field]] /\ (opened.type = "file" => opened.type_name = "file")
      BY <2>1, ContentsTyped, Zenon
    <2>3. serves = [field \in D |-> serves[field]] /\ (serves.type = "file" => serves.type_name = "file")
      BY <2>1, ContentsTyped, Zenon
    <2>4. D = F
      BY <1>1
    <2> HIDE DEF D, F, opened, serves
    <2> QED
      BY <2>1, <2>2, <2>3, <2>4
  <1>3. \A field \in F \ free : opened[field] = serves[field]
    BY <1>2 DEF Fits, SameFile, conf_kv_equal
  <1> HIDE DEF opened, serves
  <1> DEFINE e == Changed(opened, serves)
  <1>4. e = [field \in F |-> e[field]]
    BY <1>2 DEF Changed
  <1>5. \A field \in F : e[field] = serves[field]
    BY <1>2, <1>3 DEF Changed
  <1>6. e = [field \in F |-> serves[field]]
    BY <1>4, <1>5
  <1> QED
    BY <1>2, <1>6 DEF opened, serves

LEMMA RuntimeImpliesFitting ==
    ASSUME RuntimeInv
    PROVE  HandleFitsOutput
  <1> USE DEF RuntimeInv, LifeInv, HandleInv, SnapInv
  <1>1. ASSUME NEW s \in LiveSnaps, NEW j \in DOMAIN heap[s].slots,
               heap[s].slots[j] # NoHandle
        PROVE  LET h == heap[s].slots[j]
                   opened == ConfOf(h[2]).outputs[h[3]]
                   serves == ConfOf(heap[s].content).outputs[j]
               IN /\ Changed(opened, serves) = serves
                  /\ h[1] # s => opened.type = "file"
    <2>1. s \in Snaps /\ heap[s].st = "live"
      BY DEF LiveSnaps
    <2>2. j \in Nat /\ Filled(s, j)
      BY <1>1, <2>1, SlotsListed DEF Filled
    <2>3. PICK c : c = heap[s].content
      OBVIOUS
    <2>4. c \in Contents
      <3>1. c # "none"
        BY <2>1, <2>2, <2>3 DEF SlotsOK, Filled
      <3> QED
        BY <2>1, <2>3, <3>1, SlotsListed
    <2>5. j \in DOMAIN ConfOf(c).outputs
      BY <2>1, <2>3, <2>4, ContentNames, SlotsListed
    <2>6. PICK h : h = heap[s].slots[j]
      OBVIOUS
    <2>7. CASE h = <<s, c, j>>
      <3> DEFINE o == ConfOf(c).outputs[j]
                 F == DOMAIN new_output("", "file")
      <3>1. o = [field \in F |-> o[field]]
        BY <2>4, <2>5, ContentsTyped, Zenon
      <3>2. h[1] = s /\ h[2] = c /\ h[3] = j
        BY <2>7
      <3> HIDE DEF o, F
      <3>3. Changed(o, o) = o
        BY <3>1 DEF Changed
      <3> QED
        BY <2>3, <2>6, <3>2, <3>3, Zenon DEF o
    <2>8. CASE Inherited(h, s, j)
      <3>1. h[2] \in Contents /\ Fits(h[2], h[3], c, j)
        BY <2>3, <2>8 DEF Inherited
      <3>2. ConfOf(h[2]).outputs[h[3]].type = "file"
        BY <3>1 DEF Fits
      <3> QED
        <4>1. Changed(ConfOf(h[2]).outputs[h[3]], ConfOf(c).outputs[j]) = ConfOf(c).outputs[j]
          BY <2>4, <3>1, KeptOutput
        <4> QED
          BY <2>3, <2>6, <3>2, <4>1, Zenon
    <2> QED
      BY <2>1, <2>2, <2>3, <2>6, <2>7, <2>8, FilledBy
  <1> QED
    BY <1>1, Zenon DEF HandleFitsOutput, Changed

(* A handle serves an output it could have been opened for: its own, or, when a reload kept a
   file open, one with the same path and the same rotation, through any number of reloads
   (hpu_conf_finalize_reload, reload_swap). *)
THEOREM HandlesFitTheirOutputs == Spec => []HandleFitsOutput
  BY RuntimeInvariant, RuntimeImpliesFitting, PTL
-----------------------------------------------------------------------------
(* What an active configuration can rely on *)

(* The checks that init and reload have in common, and what they are good for. *)
Passed(c) ==
    /\ check_dup_paths(c)
    /\ \A i \in DOMAIN c.default_output_names :
           hpu_conf_find_output(c, c.default_output_names[i]) # 0
    /\ resolve_rules(c)
Sound(c) ==
    LET files == {i \in DOMAIN c.outputs : c.outputs[i].type = "file"}
    IN /\ \A i \in DOMAIN c.default_output_idx :
             c.outputs[c.default_output_idx[i]].name = c.default_output_names[i]
       /\ \A i \in DOMAIN c.rules :
             /\ c.rules[i].format_name \in ToSet(c.formats)
             /\ ToSet(c.rules[i].output_idx) \subseteq DOMAIN c.outputs
       /\ \A i, k \in files : NormalForm[c.outputs[i].path] = NormalForm[c.outputs[k].path]
                                 => i = k

(* A record with the fields of a snapshot and no others. *)
Complete(c) == c = [field \in DOMAIN hpu_conf_defaults |-> c[field]]

LEMMA ContentComplete ==
    ASSUME NEW content \in Contents
    PROVE  Complete(ConfOf(content))
  BY ContentsTyped, Zenon DEF Complete

LEMMA FoundOutput ==
    ASSUME NEW c, c.outputs \in Seq(ToSet(c.outputs)), NEW name,
           hpu_conf_find_output(c, name) # 0
    PROVE  c.outputs[hpu_conf_find_output(c, name)].name = name
  <1> DEFINE I == {i \in 1 .. Len(c.outputs) : c.outputs[i].name = name}
  <1>1. hpu_conf_find_output(c, name) = IF I # {} THEN Min(I) ELSE 0
    BY Zenon DEF hpu_conf_find_output, SelectInSeq
  <1>2. I \in SUBSET Nat /\ I # {}
    BY <1>1, LenProperties
  <1>3. Min(I) \in I
    BY <1>2, MinIsLeast
  <1> HIDE DEF I
  <1>4. hpu_conf_find_output(c, name) \in I
    BY <1>1, <1>2, <1>3
  <1> QED
    BY <1>4 DEF I

(* Resolving the defaults changes nothing but their numbers. *)
LEMMA Resolved ==
    ASSUME NEW c0, NEW c, c = resolve_default_outputs(c0),
           Complete(c)
    PROVE  /\ DOMAIN c.default_output_idx = DOMAIN c.default_output_names
           /\ \A i \in DOMAIN c.default_output_names :
                  c.default_output_idx[i] = hpu_conf_find_output(c, c.default_output_names[i])
           /\ \A field \in DOMAIN hpu_conf_defaults \ {"default_output_idx"} : c0[field] = c[field]
  <1> DEFINE D == DOMAIN hpu_conf_defaults
             idx == [i \in DOMAIN c0.default_output_names |->
                        hpu_conf_find_output(c0, c0.default_output_names[i])]
  <1>1. {"default_output_idx", "default_output_names", "outputs"} \subseteq D
    BY DEF hpu_conf_defaults
  <1>2. c = [c0 EXCEPT !.default_output_idx = idx]
    BY Zenon DEF resolve_default_outputs
  <1> HIDE DEF D, idx
  <1>0. c = [field \in D |-> c[field]]
    BY DEF Complete, D
  <1>3. DOMAIN c0 = D
    BY <1>0, <1>2
  <1>4. c.default_output_idx = idx /\ \A field \in D \ {"default_output_idx"} : c0[field] = c[field]
    BY <1>1, <1>2, <1>3
  <1>5. c.default_output_names = c0.default_output_names /\ c.outputs = c0.outputs
    BY <1>1, <1>4
  <1>6. \A name : hpu_conf_find_output(c, name) = hpu_conf_find_output(c0, name)
    BY <1>5, Zenon DEF hpu_conf_find_output, SelectInSeq
  <1>7. idx = [i \in DOMAIN c.default_output_names |->
                  hpu_conf_find_output(c, c.default_output_names[i])]
    BY <1>5, <1>6, Zenon DEF idx
  <1>8. c.default_output_idx = [i \in DOMAIN c.default_output_names |->
                                  hpu_conf_find_output(c, c.default_output_names[i])]
    BY <1>4, <1>7, Zenon
  <1>9. \A field \in DOMAIN hpu_conf_defaults \ {"default_output_idx"} : c0[field] = c[field]
    BY <1>4, Zenon DEF D
  <1> QED
    BY <1>8, <1>9

LEMMA PassedIsSound ==
    ASSUME NEW content \in Contents, NEW c0, ConfOf(content) = resolve_default_outputs(c0),
           Passed(ConfOf(content))
    PROVE  Sound(ConfOf(content))
  <1> DEFINE c == ConfOf(content)
  <1>1. /\ Complete(c)
        /\ c.outputs \in Seq(ToSet(c.outputs))
        /\ Len(c.outputs) \in Nat /\ DOMAIN c.outputs = 1 .. Len(c.outputs)
    BY ContentComplete, ContentsTyped, OutputsListed, Zenon
  <1>2. /\ DOMAIN c.default_output_idx = DOMAIN c.default_output_names
        /\ \A i \in DOMAIN c.default_output_names :
               c.default_output_idx[i] = hpu_conf_find_output(c, c.default_output_names[i])
    BY <1>1, Resolved
  <1> HIDE DEF c
  <1>3. \A i \in DOMAIN c.default_output_idx :
            c.outputs[c.default_output_idx[i]].name = c.default_output_names[i]
    <2> SUFFICES ASSUME NEW i \in DOMAIN c.default_output_names
                 PROVE  c.outputs[hpu_conf_find_output(c, c.default_output_names[i])].name
                            = c.default_output_names[i]
      BY <1>2
    <2>1. hpu_conf_find_output(c, c.default_output_names[i]) # 0
      BY DEF Passed, c
    <2> QED
      BY <1>1, <2>1, FoundOutput
  <1>4. ASSUME NEW i \in DOMAIN c.rules
        PROVE  /\ c.rules[i].format_name \in ToSet(c.formats)
               /\ ToSet(c.rules[i].output_idx) \subseteq DOMAIN c.outputs
    <2>1. /\ \E k \in DOMAIN c.formats : c.formats[k] = c.rules[i].format_name
          /\ \A k \in DOMAIN c.rules[i].output_idx :
                 c.rules[i].output_idx[k] \in DOMAIN c.outputs
      BY <1>4, Zenon DEF Passed, resolve_rules, hpu_conf_find_format, c
    <2> QED
      BY <2>1 DEF ToSet
  <1>5. ASSUME NEW i \in DOMAIN c.outputs, NEW k \in DOMAIN c.outputs,
               c.outputs[i].type = "file", c.outputs[k].type = "file",
               NormalForm[c.outputs[i].path] = NormalForm[c.outputs[k].path]
        PROVE  i = k
    <2>1. \A l, m \in DOMAIN c.outputs :
              l < m /\ c.outputs[l].type = "file" /\ c.outputs[m].type = "file" =>
                  NormalForm[c.outputs[l].path] # NormalForm[c.outputs[m].path]
      BY Zenon DEF Passed, check_dup_paths, c
    <2>2. ~(i < k) /\ ~(k < i)
      BY <1>5, <2>1
    <2> QED
      BY <1>1, <1>5, <2>2
  <1> QED
    BY <1>3, <1>4, <1>5, Zenon DEF Sound, c

(* What has passed the checks of a dry run, or those of a reload, is sound. *)
LEMMA ResolvedFiles ==
    ASSUME NEW f \in DOMAIN Files
    PROVE  ConfOf(f) = resolve_default_outputs(hpu_conf_load_file(Files[f], "no").c)
  BY ContentNames, Zenon DEF FileConf

LEMMA ResolvedCodes ==
    ASSUME NEW k \in DOMAIN Codes
    PROVE  ConfOf(k) = resolve_default_outputs(hpu_conf_from_code(Codes[k]))
  <1>1. k \notin DOMAIN Files
    BY RuntimeAssumption
  <1> QED
    BY <1>1 DEF ConfOf, CodeConf

LEMMA FinalizedPassed ==
    ASSUME NEW c0, NEW c, c = resolve_default_outputs(c0),
           Complete(c),
           hpu_conf_finalize_impl(c) \/ FinalizeReloadChecks(c)
    PROVE  Passed(c)
  <1>1. /\ check_dup_paths(c) /\ resolve_rules(c)
        /\ \A i \in DOMAIN c.default_output_names :
               resolve_default_outputs(c).default_output_idx[i] # 0
    BY Zenon DEF hpu_conf_finalize_impl, FinalizeReloadChecks
  <1>2. "default_output_idx" \in DOMAIN c
    <2>1. DOMAIN c = DOMAIN hpu_conf_defaults
      BY Zenon DEF Complete
    <2>2. "default_output_idx" \in DOMAIN hpu_conf_defaults
      BY DEF hpu_conf_defaults
    <2> QED
      BY <2>1, <2>2
  <1>3. resolve_default_outputs(c).default_output_idx
            = [i \in DOMAIN c.default_output_names |->
                  hpu_conf_find_output(c, c.default_output_names[i])]
    BY <1>2 DEF resolve_default_outputs
  <1> QED
    BY <1>1, <1>3, Zenon DEF Passed

LEMMA DefaultIsSound == Sound(ConfOf("default"))
  <1> DEFINE o == [new_output("stderr", "console") EXCEPT !.stream = "stderr", !.color = TRUE]
             c0 == conf_add_default_console
             c == ConfOf("default")
  <1>1. "default" \in Contents /\ c = resolve_default_outputs(c0)
    BY RuntimeAssumption DEF Contents, ConfOf, DefaultConf
  <1>2. o.name = "stderr" /\ o.type = "console"
    BY DEF new_output
  <1> HIDE DEF o
  <1>3. c0.outputs = <<o>> /\ c0.default_output_names = <<"stderr">> /\ c0.rules = <<>>
    BY DEF conf_add_default_console, hpu_conf_defaults, o
  <1> HIDE DEF c0
  <1>4. Complete(c)
    BY <1>1, ContentComplete
  <1>5. {"outputs", "default_output_names", "rules"}
            \subseteq DOMAIN hpu_conf_defaults \ {"default_output_idx"}
    BY DEF hpu_conf_defaults
  <1> HIDE DEF c
  <1>6. \A field \in DOMAIN hpu_conf_defaults \ {"default_output_idx"} : c0[field] = c[field]
    BY <1>1, <1>4, Resolved
  <1>7. c.outputs = <<o>> /\ c.default_output_names = <<"stderr">> /\ c.rules = <<>>
    BY <1>3, <1>5, <1>6
  <1>8. hpu_conf_find_output(c, "stderr") # 0
    <2> DEFINE I == {i \in 1 .. Len(c.outputs) : c.outputs[i].name = "stderr"}
    <2>1. hpu_conf_find_output(c, "stderr") = IF I # {} THEN Min(I) ELSE 0
      BY Zenon DEF hpu_conf_find_output, SelectInSeq
    <2>2. 1 \in I /\ I \in SUBSET Nat /\ 0 \notin I
      BY <1>2, <1>7
    <2>3. Min(I) \in I
      BY <2>2, MinIsLeast
    <2> HIDE DEF I
    <2> QED
      BY <2>1, <2>2, <2>3
  <1>9. Passed(c)
    <2>1. check_dup_paths(c)
      BY <1>2, <1>7 DEF check_dup_paths
    <2>2. resolve_rules(c)
      BY <1>7 DEF resolve_rules
    <2>3. \A i \in DOMAIN c.default_output_names : c.default_output_names[i] = "stderr"
      BY <1>7
    <2> QED
      BY <1>8, <2>1, <2>2, <2>3 DEF Passed
  <1> QED
    BY <1>1, <1>9, PassedIsSound DEF c


(* The checks do not look at the numbers, so a dry run of a file that was loaded
   leniently agrees with them. *)
LEMMA FinalizedUnresolved ==
    ASSUME NEW c0, NEW c, c = resolve_default_outputs(c0),
           Complete(c),
           hpu_conf_finalize_impl(c) \/ FinalizeReloadChecks(c)
    PROVE  hpu_conf_finalize_impl(c0)
  <1> DEFINE checked == {"default_format", "formats", "overflow_policy", "consumer_threads",
                       "outputs", "default_output_names", "rules"}
  <1>1. hpu_conf_finalize_impl(c)
    BY Zenon DEF hpu_conf_finalize_impl, FinalizeReloadChecks
  <1>2. \A field \in DOMAIN hpu_conf_defaults \ {"default_output_idx"} : c0[field] = c[field]
    BY Resolved
  <1>3. checked \subseteq DOMAIN hpu_conf_defaults \ {"default_output_idx"}
    BY DEF hpu_conf_defaults
  <1>4. \A field \in checked : c0[field] = c[field]
    BY <1>2, <1>3
  <1>5. /\ c0.default_format = c.default_format /\ c0.formats = c.formats
        /\ c0.overflow_policy = c.overflow_policy
        /\ c0.consumer_threads = c.consumer_threads
        /\ c0.outputs = c.outputs /\ c0.default_output_names = c.default_output_names
        /\ c0.rules = c.rules
    BY <1>4
  <1>6. \A name : hpu_conf_find_output(c0, name) = hpu_conf_find_output(c, name)
    BY <1>5, Zenon DEF hpu_conf_find_output, SelectInSeq
  <1>7. \A name : hpu_conf_find_format(c0, name) <=> hpu_conf_find_format(c, name)
    BY <1>5, Zenon DEF hpu_conf_find_format
  <1>8. /\ hpu_conf_find_format(c0, c0.default_format)
        /\ check_overflow_policy(c0) /\ check_consumer_threads(c0)
        /\ check_dup_paths(c0) /\ check_naming(c0)
    <2>1. /\ hpu_conf_find_format(c, c.default_format)
          /\ check_overflow_policy(c) /\ check_consumer_threads(c)
          /\ check_dup_paths(c) /\ check_naming(c)
      BY <1>1, Zenon DEF hpu_conf_finalize_impl
    <2>2. hpu_conf_find_format(c0, c0.default_format)
      BY <1>5, <1>7, <2>1
    <2>3. check_overflow_policy(c0) /\ check_consumer_threads(c0)
      BY <1>5, <2>1 DEF check_overflow_policy, check_consumer_threads
    <2>4. check_dup_paths(c0)
      BY <1>5, <2>1 DEF check_dup_paths
    <2>5. check_naming(c0)
      BY <1>5, <2>1 DEF check_naming
    <2> QED
      BY <2>2, <2>3, <2>4, <2>5
  <1>9. resolve_rules(c0)
    BY <1>1, <1>5, <1>7, Zenon DEF hpu_conf_finalize_impl, resolve_rules
  <1>10. ASSUME NEW i \in DOMAIN c0.default_output_names
         PROVE  resolve_default_outputs(c0).default_output_idx[i] # 0
    <2>1. hpu_conf_find_output(c, c.default_output_names[i]) # 0
      BY <1>1, <1>5, <1>10, FinalizedPassed, Zenon DEF Passed
    <2>2. resolve_default_outputs(c0).default_output_idx[i]
              = hpu_conf_find_output(c, c.default_output_names[i])
      BY <1>5, <1>10, Resolved
    <2> QED
      BY <2>1, <2>2
  <1> QED
    BY <1>8, <1>9, <1>10, Zenon DEF hpu_conf_finalize_impl

LEMMA CheckedIsAccepted ==
    ASSUME NEW f \in DOMAIN Files, Checked(f)
    PROVE  Accepted[f]
  <1> DEFINE ps == hpu_conf_load_file(Files[f], "no")
             c == ConfOf(f)
  <1>1. f \in Contents /\ c = FileConf[f]
    BY ContentNames DEF Contents
  <1>2. Complete(c)
    BY <1>1, ContentComplete
  <1>3. FileLoads[f]["no"]
    BY StrictIsStricter DEF Checked
  <1>4. ~ps.err
    <2>1. FileLoads[f]["no"] = ~ps.err
      BY Zenon DEF FileLoads
    <2> QED
      BY <1>3, <2>1
  <1>5. hpu_conf_finalize_impl(c) \/ FinalizeReloadChecks(c)
    BY <1>1 DEF Checked, Finalizes, Reloads
  <1>6. c = resolve_default_outputs(ps.c)
    BY ResolvedFiles
  <1> HIDE DEF ps, c
  <1>7. hpu_conf_finalize_impl(ps.c)
    BY <1>2, <1>5, <1>6, FinalizedUnresolved
  <1>8. hpulogc_conf_validate(Files[f], "no")
    BY <1>4, <1>7, Zenon DEF hpulogc_conf_validate, ps
  <1> QED
    BY <1>8, Zenon DEF Accepted

(* Two records of the longest length fit the buffer of a structure. *)
LEMMA CodeBuffer ==
    ASSUME NEW k \in DOMAIN Codes, CodeStarts[k]
    PROVE  ConfOf(k).buffer_size >= 2 * max_record_size(ConfOf(k).max_log_length)
  <1> DEFINE cfg == Codes[k]
             c == ConfOf(k)
             c0 == hpu_conf_from_code(cfg)
             log == IF cfg.max_log_length = 0 THEN hpu_conf_defaults.max_log_length
                                              ELSE cfg.max_log_length
             size == IF cfg.buffer_size = 0 THEN hpu_conf_defaults.buffer_size
                                            ELSE cfg.buffer_size
             raised == RaiseBuffer(size, hpu_conf_defaults.max_log_length)
  <1>1. hpu_conf_defaults.max_log_length = 4096 /\ hpu_conf_defaults.buffer_size = 1024 * 1024
    BY Zenon DEF hpu_conf_defaults
  <1>2. cfg.max_log_length \in Nat
    BY ContentsTyped, Zenon
  <1>0. cfg.buffer_size \in Nat
    BY ContentsTyped, Zenon
  <1> HIDE DEF cfg
  <1>3. log \in Int
    BY <1>1, <1>2
  <1>4. size \in Int
    BY <1>0, <1>1
  <1> HIDE DEF size
  <1>5. raised \in Int
    BY <1>1, <1>4 DEF RaiseBuffer, max_record_size, CONF_BUFFER_MIN
  <1>6. {"buffer_size", "max_log_length"} \subseteq DOMAIN hpu_conf_defaults \ {"default_output_idx"}
    BY DEF hpu_conf_defaults
  <1> HIDE DEF raised, log
  <1>7. c0.max_log_length = log /\ c0.buffer_size = ReraiseBuffer(raised, log)
    BY DEF hpu_conf_from_code, hpu_conf_defaults, raised, log, size, c0
  <1>8. k \in Contents
    BY DEF Contents
  <1>9. Complete(c)
    BY <1>8, ContentComplete
  <1>10. c = resolve_default_outputs(c0)
    BY ResolvedCodes DEF cfg
  <1> HIDE DEF c0, c
  <1>11. \A field \in DOMAIN hpu_conf_defaults \ {"default_output_idx"} : c0[field] = c[field]
    BY <1>9, <1>10, Resolved
  <1>12. c.max_log_length = log /\ c.buffer_size = ReraiseBuffer(raised, log)
    BY <1>6, <1>7, <1>11
  <1>13. ReraiseBuffer(raised, log) >= 2 * max_record_size(log)
    BY <1>3, <1>5 DEF ReraiseBuffer, max_record_size
  <1> QED
    BY <1>12, <1>13 DEF c

LEMMA CheckedIsSound ==
    ASSUME NEW content \in Contents, Checked(content)
    PROVE  Sound(ConfOf(content))
  <1>1. Complete(ConfOf(content))
    BY ContentComplete
  <1>2. CASE content \in DOMAIN Files
    <2>1. hpu_conf_finalize_impl(ConfOf(content)) \/ FinalizeReloadChecks(ConfOf(content))
      BY <1>2, ContentNames DEF Checked, Finalizes, Reloads
    <2>2. ConfOf(content) = resolve_default_outputs(hpu_conf_load_file(Files[content], "no").c)
      BY <1>2, ResolvedFiles
    <2>3. Passed(ConfOf(content))
      BY <1>1, <2>1, <2>2, FinalizedPassed
    <2> QED
      BY <2>2, <2>3, PassedIsSound
  <1>3. CASE content \in DOMAIN Codes
    <2>1. hpu_conf_finalize_impl(CodeConf[content])
      BY <1>3, Zenon DEF Checked, CodeStarts
    <2>2. ConfOf(content) = CodeConf[content]
      BY <1>3, RuntimeAssumption DEF ConfOf
    <2>3. ConfOf(content) = resolve_default_outputs(hpu_conf_from_code(Codes[content]))
      BY <1>3, ResolvedCodes
    <2>4. Passed(ConfOf(content))
      BY <1>1, <2>1, <2>2, <2>3, FinalizedPassed
    <2> QED
      BY <2>3, <2>4, PassedIsSound
  <1> QED
    BY <1>2, <1>3, DefaultIsSound DEF Contents

LEMMA RuntimeImpliesSound ==
    ASSUME ControlInv, CheckedOK
    PROVE  LiveIsSound
  <1> SUFFICES ASSUME conf # None
               PROVE  LiveIsSound
    BY Zenon DEF LiveIsSound
  <1> DEFINE content == heap[conf].content
             c == ConfOf(content)
  <1>1. state # "uninit"
    BY DEF ControlInv, PhaseOK
  <1>2. content \in Contents /\ Checked(content) /\ fast = content
    BY <1>1 DEF CheckedOK
  <1>3. Sound(c)
    BY <1>2, CheckedIsSound
  <1>4. content \in DOMAIN Files => Accepted[content]
    BY <1>2, CheckedIsAccepted
  <1>5. content \in DOMAIN Codes => c.buffer_size >= 2 * max_record_size(c.max_log_length)
    BY <1>2, CodeBuffer DEF Checked
  <1> QED
    BY <1>2, <1>3, <1>4, <1>5, Zenon DEF LiveIsSound, Sound

(* Whatever path made a configuration active, an init, a reload or a rebuild after a fork, it
   has passed every check the code behind it relies on; the second list of checks, the one of
   a reload, misses none of them (hpu_conf_finalize_reload, hpu_core_fork_check). *)
THEOREM ActiveIsSound == Spec => []LiveIsSound
  <1>1. RuntimeInv => LiveIsSound
    BY RuntimeImpliesSound DEF RuntimeInv, LifeInv
  <1> QED
    BY <1>1, RuntimeInvariant, PTL
=============================================================================
