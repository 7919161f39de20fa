--------------------------- MODULE PipelineProofs ---------------------------
(***************************************************************************)
(* Proofs about Pipeline: for any number of loggers, categories, rules and *)
(* reloads, no cached route is stale, no category is registered twice, a   *)
(* call is let through exactly if it meets an acknowledged override and    *)
(* the global level, and no bucket gives out more than a burst and the     *)
(* rate allow.                                                             *)
(***************************************************************************)
EXTENDS Pipeline, WellFoundedInduction, TLAPS

RouteSet == {Routes(c, cat) : c \in Confs, cat \in Categories} \cup {NoRoutes}

Entry == [name : Categories, override : Int, gen : Nat, route : RouteSet,
          tokens : Int, last : Int]

Locals == [cat : Categories, level : -1 .. OFF, thr : Int, slot : Nat,
           th : [rate : Nat, burst : Nat \ {0}, sampling : Nat],
           floor : [level : Int, call : Nat]]

Places == {"out", "register", "override", "filter", "throttle", "bucket", "sample", "put"}

TypeOK ==
    /\ conf \in Confs
    /\ conf_gen \in Nat \ {0}
    /\ level_atomic \in Int
    /\ now \in Nat /\ controls \in Nat
    /\ reg \in Seq(Entry)
    /\ pc \in [Threads -> Places]
    /\ loc \in [Threads -> Locals]
    /\ promised \in [Categories -> [level : Int, call : Nat]]

(* No entry was filled under a generation that is still to come. *)
GenBound == \A i \in Slots : reg[i].gen <= conf_gen

(* A thread that found a slot found the slot of its category, for good. *)
SlotOK ==
    \A t \in Threads : pc[t] \in Places \ {"out", "register"} /\ loc[t].slot # 0 =>
        loc[t].slot \in Slots /\ reg[loc[t].slot].name = loc[t].cat

(* A logger that saw no entry had no promise to obey. *)
NoSlotNoPromise ==
    \A t \in Loggers : pc[t] = "register" \/ (pc[t] = "filter" /\ loc[t].slot = 0) =>
        loc[t].floor = NoPromise

(* What was acknowledged is in the table. *)
PromiseKept ==
    \A cat \in Categories : promised[cat] # NoPromise =>
        \E i \in Slots : reg[i].name = cat /\ reg[i].override = promised[cat].level

(* Nothing is promised about a category while its override is being set... *)
InFlight == pc[Admin] # "out" => promised[loc[Admin].cat] = NoPromise

(* ... and no promise made or noted before is as young as the one it makes. *)
Older(promise) ==
    /\ promise.call <= controls
    /\ pc[Admin] # "out" => promise.call < controls

Calls ==
    /\ \A cat \in Categories : Older(promised[cat])
    /\ \A t \in Loggers : Older(loc[t].floor)

RegInv == TypeOK /\ RegistryUnique /\ GenBound /\ RoutesCurrent

(* A call that passed the filter meets both levels, unless the promise was  *)
(* taken back meanwhile.                                                   *)
PassedMeets ==
    \A t \in Loggers :
        /\ pc[t] \in {"throttle", "bucket", "sample", "put"}
        /\ loc[t].floor # NoPromise /\ loc[t].floor = promised[loc[t].cat]
        => MeetsBoth(t)

CallInv == SlotOK /\ NoSlotNoPromise /\ PromiseKept /\ InFlight /\ Calls /\ PassedMeets

IInv == RegInv /\ CallInv

-----------------------------------------------------------------------------

(* hpu_registry_find answers NULL exactly when no entry has the name, and  *)
(* otherwise an entry that has it.                                         *)
LEMMA FindCorrect ==
    ASSUME reg \in Seq(Entry), NEW cat
    PROVE  /\ hpu_registry_find(cat) \in Nat
           /\ hpu_registry_find(cat) = 0 <=> Slot(cat) = {}
           /\ hpu_registry_find(cat) # 0 =>
                 hpu_registry_find(cat) \in Slots /\ reg[hpu_registry_find(cat)].name = cat
<1>1. CASE Slot(cat) = {}
  BY <1>1 DEF hpu_registry_find
<1>2. CASE Slot(cat) # {}
  <2>1. Slot(cat) \subseteq Nat /\ Slot(cat) \subseteq Slots
    BY DEF Slot, Slots
  <2>2. PICK i \in Slot(cat) : \A j \in Slot(cat) : ~(<<j, i>> \in OpToRel(<, Nat))
    BY <1>2, <2>1, WFMin, NatLessThanWellFounded, Zenon
  <2>3. \A j \in Slot(cat) : i <= j
    <3> SUFFICES ASSUME NEW j \in Slot(cat)
                 PROVE  ~(j < i)
      BY <2>1
    <3>1. <<j, i>> \in Nat \X Nat
      BY <2>1
    <3>2. <<j, i>>[1] = j /\ <<j, i>>[2] = i
      OBVIOUS
    <3>3. <<j, i>> \in OpToRel(<, Nat) <=> (<<j, i>> \in Nat \X Nat /\ <<j, i>>[1] < <<j, i>>[2])
      BY Zenon DEF OpToRel
    <3> QED  BY <2>2, <3>1, <3>2, <3>3
  <2>4. hpu_registry_find(cat) \in Slot(cat)
    BY <1>2, <2>3 DEF hpu_registry_find
  <2>5. 0 \notin Slots
    BY DEF Slots
  <2> QED  BY <1>2, <2>1, <2>4, <2>5 DEF Slot
<1> QED  BY <1>1, <1>2

(* A refresh changes the route and the generation of one entry, to those   *)
(* of the active snapshot.                                                 *)
LEMMA RefreshCorrect ==
    ASSUME TypeOK, NEW slot \in Slots
    PROVE  LET fresh == hpu_registry_refresh_route(slot)
           IN /\ fresh \in Seq(Entry)
              /\ Len(fresh) = Len(reg)
              /\ \A i \in Slots : /\ fresh[i].name = reg[i].name
                                  /\ fresh[i].override = reg[i].override
                                  /\ \/ fresh[i] = reg[i]
                                     \/ /\ fresh[i].gen = conf_gen
                                        /\ fresh[i].route = Routes(conf, reg[i].name)
<1> DEFINE e == [reg[slot] EXCEPT !.route = Routes(conf, reg[slot].name), !.gen = conf_gen]
<1>1. CASE reg[slot].gen = conf_gen
  BY <1>1 DEF hpu_registry_refresh_route, TypeOK
<1>2. CASE reg[slot].gen # conf_gen
  <2>1. reg[slot] \in Entry
    BY DEF TypeOK, Slots
  <2>2. Routes(conf, reg[slot].name) \in RouteSet
    BY <2>1 DEF TypeOK, RouteSet, Entry
  <2>3. e \in Entry /\ e.name = reg[slot].name /\ e.override = reg[slot].override
        /\ e.gen = conf_gen /\ e.route = Routes(conf, reg[slot].name)
    BY <2>1, <2>2 DEF Entry, TypeOK
  <2>4. hpu_registry_refresh_route(slot) = [reg EXCEPT ![slot] = e]
    BY <1>2 DEF hpu_registry_refresh_route, TypeOK, Slots
  <2> HIDE DEF e
  <2> QED  BY <2>3, <2>4 DEF TypeOK, Slots
<1> QED  BY <1>1, <1>2

-----------------------------------------------------------------------------
(* Types *)

LEMMA Parameters ==
    /\ Admin \in Threads /\ Loggers \subseteq Threads /\ Admin \notin Loggers
    /\ LogLevels \subseteq 0 .. 5 /\ Overrides \subseteq -1 .. OFF
    /\ NoLocals \in Locals /\ NoPromise \in [level : Int, call : Nat]
    /\ NoPromise.level = -1 /\ NoPromise.call = 0 /\ NoLocals.floor = NoPromise
    /\ \A c \in Confs : /\ c.level \in Nat
                        /\ c.throttle \in [rate : Nat, burst : Nat \ {0}, sampling : Nat]
    /\ \A cat \in Categories : NewEntry(cat) \in Entry
BY ParametersAssumption, ConfsAssumption
   DEF Threads, Levels, OFF, NoOverride, NoLocals, NoPromise, NoThrottle, Locals, Entry, NewEntry,
       RouteSet

(* A bucket keeps everything of its entry but its tokens and its time. *)
LEMMA BucketEntry ==
    ASSUME TypeOK, NEW e \in Entry, NEW th \in [rate : Nat, burst : Nat \ {0}, sampling : Nat]
    PROVE  LET b == throttle_bucket(e, th)
           IN /\ b \in Entry /\ [b EXCEPT !.tokens = @ - 1] \in Entry
              /\ \A x \in {b, [b EXCEPT !.tokens = @ - 1]} :
                    /\ x.name = e.name /\ x.override = e.override
                    /\ x.gen = e.gen /\ x.route = e.route
<1> DEFINE n == IF e.last = 0 THEN th.burst
                ELSE IF now > e.last THEN Least(e.tokens + th.rate * (now - e.last), th.burst)
                ELSE e.tokens
<1>1. n \in Int
  <2>1. th.rate \in Int /\ th.burst \in Int /\ e.tokens \in Int /\ now - e.last \in Int
    BY DEF Entry, TypeOK
  <2>2. th.rate * (now - e.last) \in Int
    BY <2>1
  <2> QED  BY <2>1, <2>2 DEF Least
<1>2. throttle_bucket(e, th) = [e EXCEPT !.last = now, !.tokens = n]
  BY DEF throttle_bucket, Entry
<1> HIDE DEF n
<1>3. throttle_bucket(e, th) \in Entry
  <2>1. now \in Int
    BY DEF TypeOK
  <2>2. [e EXCEPT !.last = now] \in Entry
    BY <2>1 DEF Entry
  <2>3. ASSUME NEW d \in Entry, NEW k \in Int
        PROVE  [d EXCEPT !.tokens = k] \in Entry
    BY DEF Entry
  <2>4. [e EXCEPT !.last = now, !.tokens = n] = [[e EXCEPT !.last = now] EXCEPT !.tokens = n]
    BY DEF Entry
  <2> QED  BY <1>1, <1>2, <2>2, <2>3, <2>4, Zenon
<1>4. ASSUME NEW b \in Entry
      PROVE  [b EXCEPT !.tokens = @ - 1] \in Entry
  BY DEF Entry
<1>5. ASSUME NEW b \in Entry
      PROVE  LET x == [b EXCEPT !.tokens = @ - 1]
             IN x.name = b.name /\ x.override = b.override /\ x.gen = b.gen /\ x.route = b.route
  BY DEF Entry
<1>6. LET b == throttle_bucket(e, th)
      IN b.name = e.name /\ b.override = e.override /\ b.gen = e.gen /\ b.route = e.route
  BY <1>2 DEF Entry
<1> QED  BY <1>3, <1>4, <1>5, <1>6

(* Where a call that looks its category up goes. *)
LEMMA StartLookupCorrect ==
    ASSUME TypeOK, NEW t \in Threads, NEW locals \in Locals, StartLookup(t, locals)
    PROVE  LET slot == hpu_registry_find(locals.cat)
           IN /\ loc' = [loc EXCEPT ![t] = [locals EXCEPT !.slot = slot]]
              /\ [locals EXCEPT !.slot = slot] \in Locals
              /\ \E l \in {"register", "filter", "override"} :
                    /\ pc' = [pc EXCEPT ![t] = l]
                    /\ t # Admin => l # "override"
                    /\ l = "register" => slot = 0
<1>1. hpu_registry_find(locals.cat) \in Nat
  BY FindCorrect DEF TypeOK
<1>2. AfterLookup(t) \in {"filter", "override"} /\ (t # Admin => AfterLookup(t) # "override")
  BY DEF AfterLookup
<1>3. pc' = [pc EXCEPT ![t] = IF hpu_registry_find(locals.cat) # 0 \/ locals.cat \in LongNames
                              THEN AfterLookup(t) ELSE "register"]
  BY DEF StartLookup, Goto
<1>4. /\ loc' = [loc EXCEPT ![t] = [locals EXCEPT !.slot = hpu_registry_find(locals.cat)]]
      /\ [locals EXCEPT !.slot = hpu_registry_find(locals.cat)] \in Locals
  BY <1>1 DEF StartLookup, Locals
<1> QED  BY <1>2, <1>3, <1>4

LEMMA LookupTypes ==
    ASSUME TypeOK, NEW t \in Threads, NEW locals \in Locals, StartLookup(t, locals)
    PROVE  pc' \in [Threads -> Places] /\ loc' \in [Threads -> Locals]
<1> DEFINE w == [locals EXCEPT !.slot = hpu_registry_find(locals.cat)]
<1>1. w \in Locals /\ loc' = [loc EXCEPT ![t] = w]
  BY StartLookupCorrect, Zenon
<1>2. \E l \in Places : pc' = [pc EXCEPT ![t] = l]
  BY StartLookupCorrect DEF Places
<1> HIDE DEF w
<1> QED  BY <1>1, <1>2 DEF TypeOK

(* The step of hpu_pipeline_process: the registry keeps names, overrides   *)
(* and length, and what it refreshes is current.                           *)
Refreshed ==
    /\ reg' \in Seq(Entry) /\ Len(reg') = Len(reg)
    /\ \A i \in Slots : /\ reg'[i].name = reg[i].name
                        /\ reg'[i].override = reg[i].override
                        /\ \/ reg'[i].gen = reg[i].gen /\ reg'[i].route = reg[i].route
                           \/ reg'[i].gen = conf_gen /\ reg'[i].route = Routes(conf, reg[i].name)

LEMMA ProcessRefreshes ==
    ASSUME TypeOK, NEW rec, hpu_pipeline_process(rec)
    PROVE  Refreshed
<1>1. CASE hpu_registry_find(rec.cat) = 0
  <2>1. reg' = reg
    BY <1>1 DEF hpu_pipeline_process
  <2> QED  BY <2>1 DEF Refreshed, TypeOK
<1>2. CASE hpu_registry_find(rec.cat) # 0
  <2>1. hpu_registry_find(rec.cat) \in Slots
    BY <1>2, FindCorrect DEF TypeOK
  <2>2. reg' = hpu_registry_refresh_route(hpu_registry_find(rec.cat))
    BY <1>2 DEF hpu_pipeline_process
  <2> QED  BY <2>1, <2>2, RefreshCorrect DEF Refreshed
<1> QED  BY <1>1, <1>2

(* A step that moves one thread, to its next place or out of the call. *)
Moved(t) ==
    /\ \E l \in Places : pc' = [pc EXCEPT ![t] = l]
    /\ loc' = loc \/ loc' = [loc EXCEPT ![t] = NoLocals]

LEMMA MoveTypes ==
    ASSUME TypeOK, NEW t \in Threads, Moved(t)
    PROVE  pc' \in [Threads -> Places] /\ loc' \in [Threads -> Locals]
<1>1. NoLocals \in Locals
  BY Parameters
<1> QED  BY <1>1 DEF TypeOK, Moved

LEMMA RegisterTypes ==
    ASSUME TypeOK, NEW t \in Threads, lookup_register(t)
    PROVE  TypeOK' /\ \E l \in {"filter", "override"} : /\ pc' = [pc EXCEPT ![t] = l]
                                                        /\ t # Admin => l = "filter"
<1>1. loc[t] \in Locals /\ loc[t].cat \in Categories
  BY DEF TypeOK, Locals
<1>2. hpu_registry_find(loc[t].cat) \in Nat /\ Len(reg) \in Nat
  BY FindCorrect DEF TypeOK
<1>3. reg' \in Seq(Entry)
  BY <1>1, Parameters DEF lookup_register, TypeOK
<1>4. \A n \in Nat : [loc[t] EXCEPT !.slot = n] \in Locals
  BY <1>1 DEF Locals
<1>5. loc' \in [Threads -> Locals]
  <2>1. PICK n \in Nat : loc' = [loc EXCEPT ![t].slot = n]
    <3> DEFINE slot == hpu_registry_find(loc[t].cat)
               n == IF slot = 0 /\ Len(reg) < RegMax THEN Len(reg) + 1 ELSE slot
    <3>1. loc' = [loc EXCEPT ![t].slot = n]
      BY DEF lookup_register
    <3>2. n \in Nat
      BY <1>2
    <3> QED  BY <3>1, <3>2
  <2>2. loc' = [loc EXCEPT ![t] = [loc[t] EXCEPT !.slot = n]]
    BY <2>1
  <2> QED  BY <1>4, <2>2 DEF TypeOK
<1>6. pc' = [pc EXCEPT ![t] = AfterLookup(t)] /\ AfterLookup(t) \in {"filter", "override"}
      /\ (t # Admin => AfterLookup(t) = "filter")
  BY DEF lookup_register, Goto, AfterLookup
<1>7. pc' \in [Threads -> Places]
  BY <1>6 DEF TypeOK, Places
<1>8. UNCHANGED <<conf, conf_gen, level_atomic, now, controls, promised>>
  BY DEF lookup_register
<1> QED  BY <1>3, <1>5, <1>6, <1>7, <1>8 DEF TypeOK

LEMMA TypeInit == Init => TypeOK
<1> SUFFICES ASSUME Init  PROVE  TypeOK
  OBVIOUS
<1>1. conf \in Confs /\ conf_gen = 1 /\ level_atomic \in Int /\ now = 1 /\ controls = 0
  BY Parameters DEF Init
<1>2. reg \in Seq(Entry)
  BY DEF Init
<1>3. pc \in [Threads -> Places] /\ loc \in [Threads -> Locals]
      /\ promised \in [Categories -> [level : Int, call : Nat]]
  BY Parameters DEF Init, Places
<1> QED  BY <1>1, <1>2, <1>3 DEF TypeOK

LEMMA TypeStep ==
    ASSUME TypeOK, [Next]_vars
    PROVE  TypeOK'
<1>0. Admin \in Threads /\ Loggers \subseteq Threads
  BY Parameters
<1>1. ASSUME NEW t \in Threads, lookup_register(t)  PROVE  TypeOK'
  BY <1>1, RegisterTypes
<1>2. ASSUME NEW t \in Loggers, hpu_pipeline_submit(t)  PROVE  TypeOK'
  <2>1. PICK cat \in Categories, level \in LogLevels :
          StartLookup(t, [NoLocals EXCEPT !.cat = cat, !.level = level, !.thr = level_atomic,
                                          !.floor = promised[cat]])
    BY <1>2 DEF hpu_pipeline_submit
  <2>2. [NoLocals EXCEPT !.cat = cat, !.level = level, !.thr = level_atomic,
                         !.floor = promised[cat]] \in Locals
    <3>1. level \in 0 .. 5 /\ promised[cat] \in [level : Int, call : Nat] /\ level_atomic \in Int
      BY Parameters DEF TypeOK
    <3>2. level \in -1 .. OFF
      BY <3>1 DEF OFF
    <3> QED  BY <3>1, <3>2, Parameters DEF Locals
  <2>3. loc' \in [Threads -> Locals] /\ pc' \in [Threads -> Places]
    BY <1>0, <2>1, <2>2, LookupTypes
  <2> QED  BY <1>2, <2>3 DEF hpu_pipeline_submit, TypeOK
<1>3. ASSUME NEW t \in Loggers, filter(t)  PROVE  TypeOK'
  <2>0. Moved(t)
    BY <1>3 DEF filter, Moved, Goto, Return, Places
  <2>1. loc' \in [Threads -> Locals] /\ pc' \in [Threads -> Places]
    BY <1>0, <2>0, MoveTypes
  <2> QED  BY <1>3, <2>1 DEF filter, TypeOK
<1>4. ASSUME NEW t \in Loggers, throttle_pass(t)  PROVE  TypeOK'
  <2>1. [loc[t] EXCEPT !.th = conf.throttle] \in Locals
    <3>1. loc[t] \in Locals
      BY <1>0 DEF TypeOK
    <3>2. conf.throttle \in [rate : Nat, burst : Nat \ {0}, sampling : Nat]
      BY Parameters DEF TypeOK
    <3> QED  BY <3>1, <3>2 DEF Locals
  <2>2. loc' = [loc EXCEPT ![t] = [loc[t] EXCEPT !.th = conf.throttle]]
        /\ pc' = [pc EXCEPT ![t] = "bucket"]
    BY <1>4 DEF throttle_pass, Goto
  <2>3. loc' \in [Threads -> Locals] /\ pc' \in [Threads -> Places]
    BY <2>1, <2>2 DEF TypeOK, Places
  <2> QED  BY <1>4, <2>3 DEF throttle_pass, TypeOK
<1>5. ASSUME NEW t \in Loggers, category_bucket(t)  PROVE  TypeOK'
  <2>0. Moved(t)
    BY <1>5 DEF category_bucket, Moved, Goto, Return, Places
  <2>1. loc' \in [Threads -> Locals] /\ pc' \in [Threads -> Places]
    BY <1>0, <2>0, MoveTypes
  <2>2. reg' \in Seq(Entry)
    <3> DEFINE i == loc[t].slot
               e == throttle_bucket(reg[i], loc[t].th)
    <3>1. CASE i \in Slots
      <4>1. reg[i] \in Entry
        BY <3>1 DEF TypeOK, Slots
      <4>2. loc[t].th \in [rate : Nat, burst : Nat \ {0}, sampling : Nat]
        BY <1>0 DEF TypeOK, Locals
      <4>3. e \in Entry /\ [e EXCEPT !.tokens = @ - 1] \in Entry
        BY <4>1, <4>2, BucketEntry
      <4>4. reg' = reg \/ \E x \in Entry : reg' = [reg EXCEPT ![i] = x]
        BY <1>5, <4>3 DEF category_bucket
      <4> QED  BY <4>4 DEF TypeOK
    <3>2. CASE i \notin Slots
      <4>1. \A x : [reg EXCEPT ![i] = x] = reg
        BY <3>2 DEF TypeOK, Slots
      <4>2. reg' = reg
        BY <1>5, <4>1 DEF category_bucket
      <4> QED  BY <4>2 DEF TypeOK
    <3> QED  BY <3>1, <3>2
  <2> QED  BY <1>5, <2>1, <2>2 DEF category_bucket, TypeOK
<1>6. ASSUME NEW t \in Loggers, sample(t)  PROVE  TypeOK'
  <2>0. Moved(t)
    BY <1>6 DEF sample, Moved, Goto, Return, Places
  <2>1. loc' \in [Threads -> Locals] /\ pc' \in [Threads -> Places]
    BY <1>0, <2>0, MoveTypes
  <2> QED  BY <1>6, <2>1 DEF sample, TypeOK
<1>7. ASSUME NEW t \in Loggers, put(t)  PROVE  TypeOK'
  <2>0. Moved(t)
    BY <1>7 DEF put, Moved, Goto, Return, Places
  <2>1. loc' \in [Threads -> Locals] /\ pc' \in [Threads -> Places]
    BY <1>0, <2>0, MoveTypes
  <2>2. reg' \in Seq(Entry)
    BY <1>7, ProcessRefreshes DEF put, Refreshed, TypeOK
  <2> QED  BY <1>7, <2>1, <2>2 DEF put, TypeOK
<1>8. ASSUME consumer_get  PROVE  TypeOK'
  BY <1>8 DEF consumer_get, TypeOK
<1>9. ASSUME consumer_process  PROVE  TypeOK'
  <2>1. reg' \in Seq(Entry)
    BY <1>9, ProcessRefreshes DEF consumer_process, Refreshed
  <2> QED  BY <1>9, <2>1 DEF consumer_process, TypeOK
<1>10. ASSUME hpulogc_set_level  PROVE  TypeOK'
  <2>1. level_atomic' \in Int /\ controls' \in Nat
    BY <1>10, Parameters DEF hpulogc_set_level, TypeOK, OFF
  <2> QED  BY <1>10, <2>1 DEF hpulogc_set_level, TypeOK
<1>11. ASSUME hpulogc_set_level_for_category  PROVE  TypeOK'
  <2>1. PICK cat \in Categories, level \in Overrides :
          /\ promised' = [promised EXCEPT ![cat] = NoPromise]
          /\ StartLookup(Admin, [NoLocals EXCEPT !.cat = cat, !.level = level])
    BY <1>11 DEF hpulogc_set_level_for_category
  <2>2. [NoLocals EXCEPT !.cat = cat, !.level = level] \in Locals
    <3>1. level \in -1 .. OFF
      BY Parameters
    <3> QED  BY <3>1, Parameters DEF Locals
  <2>3. loc' \in [Threads -> Locals] /\ pc' \in [Threads -> Places]
    BY <1>0, <2>1, <2>2, LookupTypes
  <2>4. promised' \in [Categories -> [level : Int, call : Nat]] /\ controls' \in Nat
    BY <1>11, <2>1, Parameters DEF hpulogc_set_level_for_category, TypeOK
  <2> QED  BY <1>11, <2>3, <2>4 DEF hpulogc_set_level_for_category, TypeOK
<1>12. ASSUME hpu_registry_set_override  PROVE  TypeOK'
  <2>0. Moved(Admin)
    BY <1>12 DEF hpu_registry_set_override, Moved, Return, Goto, Places
  <2>1. loc' \in [Threads -> Locals] /\ pc' \in [Threads -> Places]
    BY <1>0, <2>0, MoveTypes
  <2>2. loc[Admin].level \in Int /\ Promise \in [level : Int, call : Nat]
    <3>1. loc[Admin] \in Locals
      BY <1>0 DEF TypeOK
    <3> QED  BY <3>1 DEF TypeOK, Locals, OFF, Promise
  <2>3. promised' \in [Categories -> [level : Int, call : Nat]]
    BY <1>12, <2>2 DEF hpu_registry_set_override, TypeOK
  <2>4. reg' \in Seq(Entry)
    <3>1. ASSUME NEW i \in Slots  PROVE  [reg[i] EXCEPT !.override = loc[Admin].level] \in Entry
      <4>1. reg[i] \in Entry
        BY DEF TypeOK, Slots
      <4> QED  BY <2>2, <4>1 DEF Entry
    <3>2. \/ reg' = reg
          \/ reg' = [reg EXCEPT ![loc[Admin].slot] = [reg[loc[Admin].slot] EXCEPT !.override = loc[Admin].level]]
      BY <1>12 DEF hpu_registry_set_override
    <3>3. CASE loc[Admin].slot \in Slots
      <4>1. \E x \in Entry : reg' = reg \/ reg' = [reg EXCEPT ![loc[Admin].slot] = x]
        BY <3>1, <3>2, <3>3, Zenon
      <4> QED  BY <4>1 DEF TypeOK
    <3>4. CASE loc[Admin].slot \notin Slots
      BY <3>2, <3>4 DEF TypeOK, Slots
    <3> QED  BY <3>3, <3>4
  <2> QED  BY <1>12, <2>1, <2>3, <2>4 DEF hpu_registry_set_override, TypeOK
<1>13. ASSUME reload_swap  PROVE  TypeOK'
  <2>1. conf' \in Confs /\ level_atomic' \in Int
    BY <1>13, Parameters DEF reload_swap
  <2> QED  BY <1>13, <2>1 DEF reload_swap, TypeOK
<1>14. ASSUME Tick  PROVE  TypeOK'
  BY <1>14 DEF Tick, TypeOK
<1>15. ASSUME UNCHANGED vars  PROVE  TypeOK'
  BY <1>15 DEF vars, TypeOK
<1> QED  BY <1>1, <1>2, <1>3, <1>4, <1>5, <1>6, <1>7, <1>8, <1>9, <1>10, <1>11, <1>12, <1>13,
            <1>14, <1>15 DEF Next

-----------------------------------------------------------------------------
(* The registry and its caches *)

(* What a logger or the consumer does to the registry: refreshes, buckets. *)
LoggerStep == \E t \in Loggers : \/ hpu_pipeline_submit(t) \/ filter(t) \/ throttle_pass(t)
                                 \/ category_bucket(t) \/ sample(t) \/ put(t)
ConsumerStep == consumer_get \/ consumer_process
QuietStep == \/ LoggerStep \/ ConsumerStep \/ hpulogc_set_level \/ hpulogc_set_level_for_category
             \/ Tick \/ UNCHANGED vars

LEMMA SameRegRefreshed == ASSUME TypeOK, reg' = reg PROVE Refreshed
BY DEF TypeOK, Refreshed

LEMMA BucketRefreshed ==
    ASSUME TypeOK, NEW t \in Loggers, category_bucket(t)
    PROVE  Refreshed
<1> DEFINE i == loc[t].slot
<1>1. CASE i \in Slots
  <2>1. reg[i] \in Entry
    BY <1>1 DEF TypeOK, Slots
  <2>2. loc[t].th \in [rate : Nat, burst : Nat \ {0}, sampling : Nat]
    BY Parameters DEF TypeOK, Locals
  <2>3. PICK x \in Entry, th \in [rate : Nat, burst : Nat \ {0}, sampling : Nat] :
               x = reg[i] /\ th = loc[t].th
    BY <2>1, <2>2
  <2> DEFINE e == throttle_bucket(x, th)
             f == [e EXCEPT !.tokens = @ - 1]
  <2>4. reg' = reg \/ reg' = [reg EXCEPT ![i] = e] \/ reg' = [reg EXCEPT ![i] = f]
    BY <2>3 DEF category_bucket
  <2>5. e \in Entry /\ f \in Entry
    BY BucketEntry
  <2>6. \A d \in {e, f} : /\ d.name = x.name /\ d.override = x.override
                         /\ d.gen = x.gen /\ d.route = x.route
    BY BucketEntry
  <2> HIDE DEF e, f
  <2>7. reg' = reg \/ \E d \in Entry : /\ reg' = [reg EXCEPT ![i] = d]
                                       /\ d.name = reg[i].name /\ d.override = reg[i].override
                                       /\ d.gen = reg[i].gen /\ d.route = reg[i].route
    BY <2>3, <2>4, <2>5, <2>6
  <2>8. ASSUME NEW d \in Entry, reg' = [reg EXCEPT ![i] = d],
               d.name = reg[i].name, d.override = reg[i].override,
               d.gen = reg[i].gen, d.route = reg[i].route
        PROVE  Refreshed
    <3>1. \A k \in DOMAIN reg : reg'[k] = IF k = i THEN d ELSE reg[k]
      BY <1>1, <2>8 DEF TypeOK, Slots
    <3>2. Len(reg') = Len(reg) /\ DOMAIN reg' = DOMAIN reg
      BY <1>1, <2>8 DEF TypeOK, Slots
    <3>3. reg' \in Seq(Entry)
      BY <1>1, <2>8 DEF TypeOK, Slots
    <3>4. ASSUME NEW k \in Slots
          PROVE  /\ reg'[k].name = reg[k].name /\ reg'[k].override = reg[k].override
                 /\ reg'[k].gen = reg[k].gen /\ reg'[k].route = reg[k].route
      <4>1. reg'[k] = IF k = i THEN d ELSE reg[k]
        BY <3>1 DEF TypeOK, Slots
      <4> QED  BY <2>8, <4>1
    <3> QED  BY <3>2, <3>3, <3>4 DEF Refreshed
  <2> QED  BY <2>7, <2>8, SameRegRefreshed
<1>2. CASE i \notin Slots
  <2>1. \A x : [reg EXCEPT ![i] = x] = reg
    BY <1>2 DEF TypeOK, Slots
  <2>2. reg' = reg
    BY <2>1 DEF category_bucket
  <2> QED  BY <2>2, SameRegRefreshed
<1> QED  BY <1>1, <1>2

LEMMA QuietRefreshes ==
    ASSUME TypeOK, QuietStep
    PROVE  Refreshed /\ UNCHANGED <<conf, conf_gen>>
<1>1. ASSUME NEW t \in Loggers, hpu_pipeline_submit(t) \/ filter(t) \/ throttle_pass(t) \/ sample(t)
      PROVE  UNCHANGED <<reg, conf, conf_gen>>
  BY <1>1 DEF hpu_pipeline_submit, filter, throttle_pass, sample
<1>2. ASSUME NEW t \in Loggers, category_bucket(t)
      PROVE  Refreshed /\ UNCHANGED <<conf, conf_gen>>
  <2>1. UNCHANGED <<conf, conf_gen>>
    BY <1>2 DEF category_bucket
  <2> QED  BY <1>2, <2>1, BucketRefreshed
<1>3. ASSUME NEW t \in Loggers, put(t)
      PROVE  Refreshed /\ UNCHANGED <<conf, conf_gen>>
  <2>1. reg' = reg \/ \E rec : hpu_pipeline_process(rec)
    BY <1>3 DEF put
  <2>2. UNCHANGED <<conf, conf_gen>>
    BY <1>3 DEF put
  <2> QED  BY <2>1, <2>2, ProcessRefreshes, SameRegRefreshed
<1>4. ASSUME consumer_process
      PROVE  Refreshed /\ UNCHANGED <<conf, conf_gen>>
  <2>1. hpu_pipeline_process(hand[1]) /\ UNCHANGED <<conf, conf_gen>>
    BY <1>4 DEF consumer_process
  <2> QED  BY <2>1, ProcessRefreshes
<1>5. ASSUME consumer_get \/ hpulogc_set_level \/ hpulogc_set_level_for_category \/ Tick \/ UNCHANGED vars
      PROVE  UNCHANGED <<reg, conf, conf_gen>>
  BY <1>5 DEF consumer_get, hpulogc_set_level, hpulogc_set_level_for_category, Tick, vars
<1> QED  BY <1>1, <1>2, <1>3, <1>4, <1>5, SameRegRefreshed DEF QuietStep, LoggerStep, ConsumerStep

LEMMA NextCases ==
    [Next]_vars <=> \/ QuietStep \/ (\E t \in Threads : lookup_register(t))
                    \/ hpu_registry_set_override \/ reload_swap
BY DEF Next, QuietStep, LoggerStep, ConsumerStep

(* Registration appends one entry, of a category that had none.            *)
LEMMA RegisterAppends ==
    ASSUME TypeOK, NEW t \in Threads, lookup_register(t)
    PROVE  \/ reg' = reg
           \/ /\ hpu_registry_find(loc[t].cat) = 0 /\ Slot(loc[t].cat) = {}
              /\ Len(reg) < RegMax
              /\ reg' = Append(reg, NewEntry(loc[t].cat))
              /\ NewEntry(loc[t].cat) \in Entry
<1>1. loc[t].cat \in Categories
  BY DEF TypeOK, Locals
<1> QED  BY <1>1, FindCorrect, Parameters DEF lookup_register, TypeOK

(* RoutesCurrent after a step, spelled out. *)
LEMMA RoutesCurrentNext ==
    RoutesCurrent' <=>
        \A i \in Slots' : reg'[i].gen = conf_gen' => reg'[i].route = Routes(conf', reg'[i].name)
BY DEF RoutesCurrent, Routes, FirstMatch, Matching

LEMMA EntryTypes == ASSUME TypeOK, NEW i \in Slots PROVE reg[i] \in Entry /\ reg[i].gen \in Nat
<1>1. reg[i] \in Entry
  BY DEF TypeOK, Slots
<1> QED  BY <1>1 DEF Entry

LEMMA RegStep ==
    ASSUME RegInv, [Next]_vars
    PROVE  RegInv'
<1> USE DEF RegInv
<1>0. TypeOK'
  BY TypeStep
<1>1. CASE QuietStep
  <2>1. Refreshed /\ UNCHANGED <<conf, conf_gen>>
    BY <1>1, QuietRefreshes
  <2>2. Slots' = Slots
    BY <2>1 DEF Refreshed, Slots
  <2>3. RegistryUnique'
    BY <2>1, <2>2 DEF Refreshed, RegistryUnique
  <2>4. GenBound'
    <3>1. conf_gen \in Nat
      BY DEF TypeOK
    <3> QED  BY <2>1, <2>2, <3>1 DEF Refreshed, GenBound
  <2>5. RoutesCurrent'
    BY <2>1, <2>2, RoutesCurrentNext DEF Refreshed, RoutesCurrent
  <2> QED  BY <1>0, <2>3, <2>4, <2>5
<1>2. CASE \E t \in Threads : lookup_register(t)
  <2> PICK t \in Threads : lookup_register(t)
    BY <1>2
  <2>1. UNCHANGED <<conf, conf_gen>>
    BY DEF lookup_register
  <2>2. CASE reg' = reg
    <3>1. Slots' = Slots
      BY <2>2 DEF Slots
    <3>2. RoutesCurrent'
      BY <2>1, <2>2, <3>1, RoutesCurrentNext DEF RoutesCurrent
    <3> QED  BY <1>0, <2>1, <2>2, <3>1, <3>2 DEF RegistryUnique, GenBound
  <2>3. CASE reg' # reg
    <3> DEFINE e == NewEntry(loc[t].cat)
    <3>1. Slot(loc[t].cat) = {} /\ Len(reg) < RegMax /\ reg' = Append(reg, e)
      BY <2>3, RegisterAppends
    <3>2. e.gen = 0 /\ e.name = loc[t].cat
      BY DEF NewEntry
    <3> HIDE DEF e
    <3>3. /\ Len(reg') = Len(reg) + 1
          /\ \A i \in Slots : reg'[i] = reg[i]
          /\ reg'[Len(reg) + 1] = e
          /\ Slots' = Slots \cup {Len(reg) + 1}
      BY <3>1 DEF Slots, TypeOK
    <3>4. \A i \in Slots : reg[i].name # e.name
      BY <3>1, <3>2 DEF Slot
    <3>5. RegistryUnique'
      <4>1. Len(reg') <= RegMax
        BY <3>1, <3>3, ParametersAssumption DEF TypeOK
      <4> QED  BY <3>3, <3>4, <4>1 DEF RegistryUnique
    <3>6. GenBound'
      BY <2>1, <3>2, <3>3 DEF GenBound, TypeOK
    <3>7. RoutesCurrent'
      <4>1. e.gen # conf_gen
        BY <3>2 DEF TypeOK
      <4> QED  BY <2>1, <3>3, <4>1, RoutesCurrentNext DEF RoutesCurrent
    <3> QED  BY <1>0, <3>5, <3>6, <3>7
  <2> QED  BY <2>2, <2>3
<1>3. CASE hpu_registry_set_override
  <2>1. UNCHANGED <<conf, conf_gen>>
    BY <1>3 DEF hpu_registry_set_override
  <2>2. Len(reg') = Len(reg) /\ \A i \in Slots : /\ reg'[i].name = reg[i].name
                                                 /\ reg'[i].gen = reg[i].gen
                                                 /\ reg'[i].route = reg[i].route
    <3>1. reg' = reg \/ reg' = [reg EXCEPT ![loc[Admin].slot].override = loc[Admin].level]
      BY <1>3 DEF hpu_registry_set_override
    <3>2. \A i \in Slots : reg[i] \in Entry
      BY EntryTypes
    <3>3. reg' = reg \/ reg' = [reg EXCEPT ![loc[Admin].slot] =
                                   [reg[loc[Admin].slot] EXCEPT !.override = loc[Admin].level]]
      BY <3>1
    <3>4. \A i \in Slots : LET x == [reg[i] EXCEPT !.override = loc[Admin].level]
                           IN x.name = reg[i].name /\ x.gen = reg[i].gen /\ x.route = reg[i].route
      BY <3>2 DEF Entry
    <3>5. reg' = reg \/ \E x : /\ reg' = [reg EXCEPT ![loc[Admin].slot] = x]
                               /\ loc[Admin].slot \in Slots => 
                                     /\ x.name = reg[loc[Admin].slot].name
                                     /\ x.gen = reg[loc[Admin].slot].gen
                                     /\ x.route = reg[loc[Admin].slot].route
      BY <3>3, <3>4, Zenon
    <3>6. DOMAIN reg = Slots /\ reg \in [Slots -> Entry] /\ Len(reg) \in Nat
      BY DEF TypeOK, Slots
    <3>7. DOMAIN reg' = DOMAIN reg
      BY <3>5, <3>6
    <3>8. Len(reg') = Len(reg)
      BY <1>0, <3>6, <3>7 DEF TypeOK, Slots
    <3> QED  BY <3>5, <3>6, <3>8
  <2>3. Slots' = Slots
    BY <2>2 DEF Slots
  <2>4. RegistryUnique' /\ GenBound'
    BY <2>1, <2>2, <2>3 DEF RegistryUnique, GenBound
  <2>5. RoutesCurrent'
    BY <2>1, <2>2, <2>3, RoutesCurrentNext DEF RoutesCurrent
  <2> QED  BY <1>0, <2>4, <2>5
<1>4. CASE reload_swap
  <2>1. reg' = reg /\ conf_gen' = conf_gen + 1 /\ Slots' = Slots
    BY <1>4 DEF reload_swap, Slots
  <2>2. \A i \in Slots : reg[i].gen \in Nat /\ reg[i].gen <= conf_gen
    BY EntryTypes DEF GenBound
  <2>3. RoutesCurrent' /\ GenBound'
    <3>1. conf_gen \in Nat
      BY DEF TypeOK
    <3> QED  BY <2>1, <2>2, <3>1 DEF RoutesCurrent, GenBound
  <2> QED  BY <1>0, <2>1, <2>3 DEF RegistryUnique
<1> QED  BY <1>1, <1>2, <1>3, <1>4, NextCases

LEMMA RegInit == Init => RegInv
<1> SUFFICES ASSUME Init  PROVE  RegInv
  OBVIOUS
<1>1. TypeOK
  BY TypeInit
<1>2. reg = <<>> /\ Slots = {}
  BY DEF Init, Slots
<1> QED  BY <1>1, <1>2, ParametersAssumption
         DEF RegInv, RegistryUnique, GenBound, RoutesCurrent

(* A cached route that looks current is what the rules of the active       *)
(* snapshot say, for every number of loggers, categories and reloads.      *)
THEOREM RoutesAreCurrent == Spec => []RoutesCurrent
<1>1. Init => RegInv
  BY RegInit
<1>2. RegInv /\ [Next]_vars => RegInv'
  BY RegStep
<1>3. RegInv => RoutesCurrent
  BY DEF RegInv
<1> QED  BY <1>1, <1>2, <1>3, PTL DEF Spec

(* Every category is registered at most once and the table never outgrows  *)
(* its array, however many threads meet it at once.                        *)
THEOREM RegistryIsUnique == Spec => []RegistryUnique
<1>1. Init => RegInv
  BY RegInit
<1>2. RegInv /\ [Next]_vars => RegInv'
  BY RegStep
<1>3. RegInv => RegistryUnique
  BY DEF RegInv
<1> QED  BY <1>1, <1>2, <1>3, PTL DEF Spec

-----------------------------------------------------------------------------
(* Overrides *)

(* What the registry keeps in every step but the store of an override.     *)
Kept == /\ Len(reg') \in Nat /\ Len(reg') >= Len(reg)
        /\ \A i \in Slots : reg'[i].name = reg[i].name /\ reg'[i].override = reg[i].override

(* The steps in which no call starts, looks up or ends a promise.          *)
Idle == UNCHANGED <<pc, loc, promised>> /\ controls' \in Nat /\ controls' >= controls

LEMMA KeptFacts ==
    ASSUME TypeOK, Kept
    PROVE  /\ Slots \subseteq Slots'
           /\ \A i \in Slots : reg'[i].name = reg[i].name /\ reg'[i].override = reg[i].override
BY DEF TypeOK, Kept, Slots

LEMMA PromiseKeptNext ==
    ASSUME TypeOK, Kept, PromiseKept, promised' = promised
    PROVE  PromiseKept'
BY KeptFacts DEF PromiseKept

LEMMA IdleStep ==
    ASSUME IInv, Kept, Idle
    PROVE  CallInv'
<1> USE DEF IInv, RegInv, CallInv
<1>1. SlotOK'
  BY KeptFacts DEF Idle, SlotOK
<1>2. NoSlotNoPromise' /\ InFlight' /\ PassedMeets'
  BY DEF Idle, NoSlotNoPromise, InFlight, PassedMeets, MeetsBoth
<1>3. PromiseKept'
  BY PromiseKeptNext DEF Idle
<1>4. Calls'
  <2>1. \A cat \in Categories : promised[cat].call \in Nat
    BY DEF TypeOK
  <2>2. \A t \in Loggers : loc[t].floor.call \in Nat
    BY Parameters DEF TypeOK, Locals
  <2>3. controls \in Nat
    BY DEF TypeOK
  <2> QED  BY <2>1, <2>2, <2>3 DEF Idle, Calls, Older
<1> QED  BY <1>1, <1>2, <1>3, <1>4

(* A logger goes on in its call, or leaves it.                             *)
Advances(t) ==
    /\ UNCHANGED <<promised, controls>>
    /\ \E l \in {"out", "throttle", "bucket", "sample", "put"} :
          /\ pc' = [pc EXCEPT ![t] = l]
          /\ l = "out" => loc' = [loc EXCEPT ![t] = NoLocals]
          /\ l # "out" =>
                /\ pc[t] \in {"filter", "throttle", "bucket", "sample"}
                /\ pc[t] = "filter" => PassesFilter(t)
                /\ loc' = loc \/ loc' = [loc EXCEPT ![t].th = conf.throttle]

LEMMA LoggersAdvance ==
    ASSUME TypeOK, NEW t \in Loggers,
           filter(t) \/ throttle_pass(t) \/ category_bucket(t) \/ sample(t) \/ put(t)
    PROVE  Advances(t)
<1>1. CASE filter(t)
  BY <1>1 DEF filter, Advances, Goto, Return
<1>2. CASE throttle_pass(t)
  BY <1>2 DEF throttle_pass, Advances, Goto
<1>3. CASE category_bucket(t)
  <2>1. UNCHANGED <<promised, controls>> /\ pc[t] = "bucket"
    BY <1>3 DEF category_bucket
  <2>2. (Goto(t, "sample") /\ loc' = loc) \/ Return(t)
    BY <1>3 DEF category_bucket
  <2> QED  BY <2>1, <2>2 DEF Advances, Goto, Return
<1>4. CASE sample(t)
  <2>1. UNCHANGED <<promised, controls>> /\ pc[t] = "sample"
    BY <1>4 DEF sample
  <2>2. (Goto(t, "put") /\ loc' = loc) \/ Return(t)
    BY <1>4 DEF sample
  <2> QED  BY <2>1, <2>2 DEF Advances, Goto, Return
<1>5. CASE put(t)
  <2>1. UNCHANGED <<promised, controls>> /\ Return(t)
    BY <1>5 DEF put
  <2> QED  BY <2>1 DEF Advances, Goto, Return
<1> QED  BY <1>1, <1>2, <1>3, <1>4, <1>5

(* What the filter compared the level with is what was promised when the   *)
(* call began, unless the promise was taken back meanwhile.                *)
LEMMA FilterObeys ==
    ASSUME IInv, NEW t \in Loggers, pc[t] = "filter",
           loc[t].floor # NoPromise, loc[t].floor = promised[loc[t].cat]
    PROVE  PassesFilter(t) <=> MeetsBoth(t)
<1> USE DEF IInv, RegInv, CallInv
<1>1. loc[t] \in Locals /\ t \in Threads
  BY Parameters DEF TypeOK
<1>2. loc[t].cat \in Categories /\ loc[t].level \in -1 .. OFF
  BY <1>1 DEF Locals
<1>3. PICK i \in Slots : reg[i].name = loc[t].cat /\ reg[i].override = promised[loc[t].cat].level
  BY <1>2 DEF PromiseKept
<1>4. loc[t].slot # 0
  BY DEF NoSlotNoPromise
<1>5. loc[t].slot \in Slots /\ reg[loc[t].slot].name = loc[t].cat
  BY <1>1, <1>4 DEF SlotOK, Places
<1>6. i = loc[t].slot
  BY <1>3, <1>5 DEF RegistryUnique
<1>7. reg[loc[t].slot].override = loc[t].floor.level /\ loc[t].floor.level \in Int
  BY <1>1, <1>3, <1>6 DEF Locals
<1> QED  BY <1>2, <1>4, <1>7 DEF PassesFilter, MeetsBoth, OFF

(* Zero calls is older than the call in flight. *)
LEMMA NoPromiseOld == ASSUME IInv PROVE Older(NoPromise)
<1>1. Older(promised[Star]) /\ promised[Star].call \in Nat /\ controls \in Nat
  BY ParametersAssumption DEF IInv, RegInv, CallInv, Calls, TypeOK
<1> QED  BY <1>1, Parameters DEF Older

LEMMA AdvanceStep ==
    ASSUME IInv, TypeOK', NEW t \in Loggers, Kept, Advances(t)
    PROVE  CallInv'
<1> USE DEF IInv, RegInv, CallInv
<1>0. t \in Threads /\ t # Admin /\ Admin \in Threads /\ Loggers \subseteq Threads
  BY Parameters
<1>1. UNCHANGED <<promised, controls>>
  BY DEF Advances
<1>2. \A u \in Threads \ {t} : pc'[u] = pc[u] /\ loc'[u] = loc[u]
  BY DEF Advances, TypeOK
<1>3. pc'[t] \in {"out", "throttle", "bucket", "sample", "put"}
  BY <1>0 DEF Advances, TypeOK
<1>4. ASSUME pc'[t] = "out"  PROVE  loc'[t] = NoLocals
  BY <1>0, <1>4 DEF Advances, TypeOK
<1>5. ASSUME pc'[t] # "out"
      PROVE  /\ pc[t] \in {"filter", "throttle", "bucket", "sample"}
             /\ pc[t] = "filter" => PassesFilter(t)
             /\ loc'[t].cat = loc[t].cat /\ loc'[t].slot = loc[t].slot
             /\ loc'[t].floor = loc[t].floor /\ loc'[t].level = loc[t].level
             /\ loc'[t].thr = loc[t].thr
  <2>1. loc[t] \in Locals
    BY <1>0 DEF TypeOK
  <2>2. \A th : LET w == [loc[t] EXCEPT !.th = th]
                IN /\ w.cat = loc[t].cat /\ w.slot = loc[t].slot
                   /\ w.floor = loc[t].floor /\ w.level = loc[t].level /\ w.thr = loc[t].thr
    BY <2>1 DEF Locals
  <2>3. /\ pc[t] \in {"filter", "throttle", "bucket", "sample"}
        /\ pc[t] = "filter" => PassesFilter(t)
        /\ loc' = loc \/ loc' = [loc EXCEPT ![t] = [loc[t] EXCEPT !.th = conf.throttle]]
    BY <1>0, <1>5 DEF Advances, TypeOK
  <2>4. loc'[t] = loc[t] \/ loc'[t] = [loc[t] EXCEPT !.th = conf.throttle]
    BY <1>0, <2>3 DEF TypeOK
  <2>5. /\ loc'[t].cat = loc[t].cat /\ loc'[t].slot = loc[t].slot
        /\ loc'[t].floor = loc[t].floor /\ loc'[t].level = loc[t].level
        /\ loc'[t].thr = loc[t].thr
    BY <2>2, <2>4, Zenon
  <2> QED  BY <2>3, <2>5
<1>6. SlotOK'
  <2>1. ASSUME NEW u \in Threads, pc'[u] \in Places \ {"out", "register"}, loc'[u].slot # 0
        PROVE  loc'[u].slot \in Slots' /\ reg'[loc'[u].slot].name = loc'[u].cat
    <3>1. pc[u] \in Places \ {"out", "register"} /\ loc'[u].slot = loc[u].slot /\ loc'[u].cat = loc[u].cat
      BY <1>2, <1>5, <2>1 DEF Places
    <3>2. loc[u].slot \in Slots /\ reg[loc[u].slot].name = loc[u].cat
      BY <2>1, <3>1 DEF SlotOK
    <3> QED  BY <3>1, <3>2, KeptFacts
  <2> QED  BY <2>1 DEF SlotOK
<1>7. NoSlotNoPromise'
  BY <1>0, <1>2, <1>3 DEF NoSlotNoPromise
<1>8. PromiseKept'
  BY <1>1, PromiseKeptNext
<1>9. InFlight'
  BY <1>0, <1>1, <1>2 DEF InFlight
<1>10. Calls'
  <2>1. pc'[Admin] = pc[Admin]
    BY <1>0, <1>2
  <2>2. \A u \in Loggers : loc'[u].floor = loc[u].floor \/ loc'[u].floor = NoPromise
    BY <1>0, <1>2, <1>4, <1>5, Parameters
  <2>3. Older(NoPromise)
    BY NoPromiseOld
  <2> QED  BY <1>1, <2>1, <2>2, <2>3 DEF Calls, Older
<1>11. PassedMeets'
  <2>1. ASSUME NEW u \in Loggers, pc'[u] \in {"throttle", "bucket", "sample", "put"},
               loc'[u].floor # NoPromise, loc'[u].floor = promised[loc'[u].cat]
        PROVE  MeetsBoth(u)'
    <3>1. /\ loc'[u].floor = loc[u].floor /\ loc'[u].cat = loc[u].cat
          /\ loc'[u].level = loc[u].level /\ loc'[u].thr = loc[u].thr
      BY <1>0, <1>2, <1>5, <2>1
    <3>2. CASE u # t \/ pc[u] # "filter"
      <4>1. pc[u] \in {"throttle", "bucket", "sample", "put"}
        BY <1>0, <1>2, <1>5, <2>1, <3>2
      <4>2. MeetsBoth(u)
        BY <2>1, <3>1, <4>1 DEF PassedMeets
      <4> QED  BY <3>1, <4>2 DEF MeetsBoth
    <3>3. CASE u = t /\ pc[u] = "filter"
      <4>1. MeetsBoth(u)
        BY <1>5, <2>1, <3>1, <3>3, FilterObeys
      <4> QED  BY <3>1, <4>1 DEF MeetsBoth
    <3> QED  BY <3>2, <3>3
  <2> QED  BY <1>1, <2>1 DEF PassedMeets
<1> QED  BY <1>6, <1>7, <1>8, <1>9, <1>10, <1>11

(* A call that starts: the slot it looked up, if any, is its category's.   *)
LEMMA LookupFacts ==
    ASSUME TypeOK, NEW t \in Threads, NEW locals \in Locals, StartLookup(t, locals)
    PROVE  /\ \A u \in Threads \ {t} : pc'[u] = pc[u] /\ loc'[u] = loc[u]
           /\ pc'[t] \in {"register", "filter", "override"}
           /\ t # Admin => pc'[t] # "override"
           /\ pc'[t] = "register" => loc'[t].slot = 0
           /\ loc'[t].cat = locals.cat /\ loc'[t].floor = locals.floor
           /\ loc'[t].slot = 0 => Slot(locals.cat) = {}
           /\ loc'[t].slot # 0 => loc'[t].slot \in Slots /\ reg[loc'[t].slot].name = locals.cat
<1> DEFINE slot == hpu_registry_find(locals.cat)
           w == [locals EXCEPT !.slot = slot]
<1>1. /\ loc' = [loc EXCEPT ![t] = w]
      /\ \E l \in {"register", "filter", "override"} :
            /\ pc' = [pc EXCEPT ![t] = l]
            /\ t # Admin => l # "override"
            /\ l = "register" => slot = 0
  BY StartLookupCorrect, Zenon
<1>2. w.cat = locals.cat /\ w.floor = locals.floor /\ w.slot = slot
  BY DEF Locals
<1>3. /\ slot = 0 => Slot(locals.cat) = {}
      /\ slot # 0 => slot \in Slots /\ reg[slot].name = locals.cat
  BY FindCorrect DEF TypeOK
<1> HIDE DEF w, slot
<1> QED  BY <1>1, <1>2, <1>3 DEF TypeOK

LEMMA SubmitStep ==
    ASSUME IInv, TypeOK', NEW t \in Loggers, hpu_pipeline_submit(t)
    PROVE  CallInv'
<1> USE DEF IInv, RegInv, CallInv
<1>0. t \in Threads /\ t # Admin /\ Admin \in Threads /\ Loggers \subseteq Threads
  BY Parameters
<1>1. UNCHANGED <<reg, promised, controls>> /\ Slots' = Slots
  BY DEF hpu_pipeline_submit, Slots
<1> PICK cat \in Categories, level \in LogLevels :
       StartLookup(t, [NoLocals EXCEPT !.cat = cat, !.level = level, !.thr = level_atomic,
                                       !.floor = promised[cat]])
  BY DEF hpu_pipeline_submit
<1> DEFINE locals == [NoLocals EXCEPT !.cat = cat, !.level = level, !.thr = level_atomic,
                                      !.floor = promised[cat]]
<1>2. locals \in Locals /\ locals.cat = cat /\ locals.floor = promised[cat]
  <2>1. level \in 0 .. 5 /\ promised[cat] \in [level : Int, call : Nat] /\ level_atomic \in Int
    BY Parameters DEF TypeOK
  <2>2. level \in -1 .. OFF
    BY <2>1 DEF OFF
  <2> QED  BY <2>1, <2>2, Parameters DEF Locals
<1>3. StartLookup(t, locals)
  OBVIOUS
<1> HIDE DEF locals
<1>4. /\ \A u \in Threads \ {t} : pc'[u] = pc[u] /\ loc'[u] = loc[u]
      /\ pc'[t] \in {"register", "filter"}
      /\ pc'[t] = "register" => loc'[t].slot = 0
      /\ loc'[t].cat = cat /\ loc'[t].floor = promised[cat]
      /\ loc'[t].slot = 0 => Slot(cat) = {}
      /\ loc'[t].slot # 0 => loc'[t].slot \in Slots /\ reg[loc'[t].slot].name = cat
  BY <1>0, <1>2, <1>3, LookupFacts
<1>5. SlotOK'
  BY <1>1, <1>4 DEF SlotOK
<1>6. NoSlotNoPromise'
  <2>1. Slot(cat) = {} => promised[cat] = NoPromise
    BY DEF PromiseKept, Slot
  <2> QED  BY <1>0, <1>4, <2>1 DEF NoSlotNoPromise
<1>7. PromiseKept' /\ InFlight'
  BY <1>0, <1>1, <1>4 DEF PromiseKept, InFlight
<1>8. Calls'
  BY <1>0, <1>1, <1>4 DEF Calls, Older
<1>9. PassedMeets'
  BY <1>0, <1>1, <1>4 DEF PassedMeets, MeetsBoth
<1> QED  BY <1>5, <1>6, <1>7, <1>8, <1>9

LEMMA RegisterStep ==
    ASSUME IInv, TypeOK', NEW t \in Threads, lookup_register(t)
    PROVE  CallInv'
<1> USE DEF IInv, RegInv, CallInv
<1>0. Admin \in Threads /\ Loggers \subseteq Threads /\ Admin \notin Loggers
  BY Parameters
<1>1. UNCHANGED <<promised, controls>> /\ pc[t] = "register"
  BY DEF lookup_register
<1>2. PICK l \in {"filter", "override"} : pc' = [pc EXCEPT ![t] = l] /\ (t # Admin => l = "filter")
  BY RegisterTypes
<1>3. /\ \A u \in Threads \ {t} : pc'[u] = pc[u] /\ loc'[u] = loc[u]
      /\ loc'[t].cat = loc[t].cat /\ loc'[t].floor = loc[t].floor
      /\ loc'[t].slot # 0 => loc'[t].slot \in 1 .. Len(reg') /\ reg'[loc'[t].slot].name = loc[t].cat
  <2> DEFINE slot == hpu_registry_find(loc[t].cat)
             n == IF slot = 0 /\ Len(reg) < RegMax THEN Len(reg) + 1 ELSE slot
             w == [loc[t] EXCEPT !.slot = n]
  <2>1. /\ loc' = [loc EXCEPT ![t] = w]
        /\ reg' = IF slot = 0 /\ Len(reg) < RegMax THEN Append(reg, NewEntry(loc[t].cat)) ELSE reg
    BY DEF lookup_register
  <2>2. loc[t] \in Locals
    BY DEF TypeOK
  <2>3. w.cat = loc[t].cat /\ w.floor = loc[t].floor /\ w.slot = n
    BY <2>2 DEF Locals
  <2>4. slot # 0 => slot \in Slots /\ reg[slot].name = loc[t].cat
    BY FindCorrect DEF TypeOK
  <2>5. NewEntry(loc[t].cat).name = loc[t].cat
    BY DEF NewEntry
  <2>6. n # 0 => n \in 1 .. Len(reg') /\ reg'[n].name = loc[t].cat
    <3> HIDE DEF slot
    <3>1. CASE slot = 0 /\ Len(reg) < RegMax
      BY <2>1, <2>5, <3>1 DEF TypeOK
    <3>2. CASE ~(slot = 0 /\ Len(reg) < RegMax)
      BY <2>1, <2>4, <3>2 DEF TypeOK, Slots
    <3> QED  BY <3>1, <3>2
  <2> HIDE DEF n, w
  <2>7. loc'[t] = w /\ \A u \in Threads \ {t} : loc'[u] = loc[u]
    BY <2>1 DEF TypeOK
  <2>8. \A u \in Threads \ {t} : pc'[u] = pc[u]
    BY <1>2 DEF TypeOK
  <2> QED  BY <2>3, <2>6, <2>7, <2>8
<1>4. Kept
  <2>1. CASE reg' = reg
    BY <2>1 DEF Kept, TypeOK
  <2>2. CASE reg' = Append(reg, NewEntry(loc[t].cat))
    BY <2>2 DEF Kept, TypeOK, Slots
  <2> QED  BY <2>1, <2>2, RegisterAppends
<1>5. pc'[t] = l /\ pc'[t] \in {"filter", "override"}
  BY <1>2 DEF TypeOK
<1>6. SlotOK'
  <2>1. ASSUME NEW u \in Threads, pc'[u] \in Places \ {"out", "register"}, loc'[u].slot # 0
        PROVE  loc'[u].slot \in Slots' /\ reg'[loc'[u].slot].name = loc'[u].cat
    <3>1. CASE u = t
      BY <1>3, <2>1, <3>1 DEF Slots
    <3>2. CASE u # t
      BY <1>3, <1>4, <2>1, <3>2, KeptFacts DEF SlotOK
    <3> QED  BY <3>1, <3>2
  <2> QED  BY <2>1 DEF SlotOK
<1>7. NoSlotNoPromise'
  BY <1>0, <1>1, <1>3 DEF NoSlotNoPromise
<1>8. PromiseKept'
  BY <1>1, <1>4, PromiseKeptNext
<1>9. InFlight'
  BY <1>0, <1>1, <1>3 DEF InFlight
<1>10. Calls'
  <2>1. pc'[Admin] # "out" => pc[Admin] # "out"
    BY <1>0, <1>1, <1>3
  <2> QED  BY <1>0, <1>1, <1>3, <2>1 DEF Calls, Older
<1>11. PassedMeets'
  BY <1>0, <1>1, <1>3, <1>5 DEF PassedMeets, MeetsBoth
<1> QED  BY <1>6, <1>7, <1>8, <1>9, <1>10, <1>11

LEMMA StartOverrideStep ==
    ASSUME IInv, TypeOK', hpulogc_set_level_for_category
    PROVE  CallInv'
<1> USE DEF IInv, RegInv, CallInv
<1>0. Admin \in Threads /\ Loggers \subseteq Threads /\ Admin \notin Loggers
  BY Parameters
<1>1. reg' = reg /\ Slots' = Slots /\ pc[Admin] = "out" /\ controls' = controls + 1
  BY DEF hpulogc_set_level_for_category, Slots
<1> PICK cat \in Categories, level \in Overrides :
       /\ promised' = [promised EXCEPT ![cat] = NoPromise]
       /\ StartLookup(Admin, [NoLocals EXCEPT !.cat = cat, !.level = level])
  BY DEF hpulogc_set_level_for_category
<1> DEFINE locals == [NoLocals EXCEPT !.cat = cat, !.level = level]
<1>2. locals \in Locals /\ locals.cat = cat
  <2>1. level \in -1 .. OFF
    BY Parameters
  <2> QED  BY <2>1, Parameters DEF Locals
<1>3. StartLookup(Admin, locals)
  OBVIOUS
<1> HIDE DEF locals
<1>4. /\ \A u \in Threads \ {Admin} : pc'[u] = pc[u] /\ loc'[u] = loc[u]
      /\ loc'[Admin].cat = cat
      /\ loc'[Admin].slot # 0 => loc'[Admin].slot \in Slots /\ reg[loc'[Admin].slot].name = cat
  BY <1>0, <1>2, <1>3, LookupFacts
<1>5. /\ promised'[cat] = NoPromise
      /\ \A c \in Categories : promised'[c] = promised[c] \/ promised'[c] = NoPromise
  BY DEF TypeOK
<1>6. SlotOK'
  BY <1>1, <1>4 DEF SlotOK
<1>7. NoSlotNoPromise'
  BY <1>0, <1>4 DEF NoSlotNoPromise
<1>8. PromiseKept'
  BY <1>1, <1>5 DEF PromiseKept
<1>9. InFlight'
  BY <1>4, <1>5 DEF InFlight
<1>10. Calls'
  <2>1. controls \in Nat /\ NoPromise.call = 0
    BY Parameters DEF TypeOK
  <2>2. \A c \in Categories : promised[c].call \in Nat /\ promised[c].call <= controls
    BY DEF TypeOK, Calls, Older
  <2>3. \A c \in Categories : promised'[c].call \in Nat /\ promised'[c].call < controls'
    BY <1>1, <1>5, <2>1, <2>2
  <2>4. \A u \in Loggers : loc'[u].floor.call \in Nat /\ loc'[u].floor.call < controls'
    <3>1. \A u \in Loggers : loc[u].floor.call \in Nat /\ loc[u].floor.call <= controls
      BY <1>0 DEF TypeOK, Locals, Calls, Older
    <3> QED  BY <1>0, <1>1, <1>4, <2>1, <3>1
  <2>5. controls' \in Nat
    BY <1>1, <2>1
  <2> QED  BY <2>3, <2>4, <2>5 DEF Calls, Older
<1>11. PassedMeets'
  <2>1. ASSUME NEW u \in Loggers, pc'[u] \in {"throttle", "bucket", "sample", "put"},
               loc'[u].floor # NoPromise, loc'[u].floor = promised'[loc'[u].cat]
        PROVE  MeetsBoth(u)'
    <3>1. pc'[u] = pc[u] /\ loc'[u] = loc[u] /\ loc[u] \in Locals
      BY <1>0, <1>4 DEF TypeOK
    <3>2. loc[u].cat \in Categories
      BY <3>1 DEF Locals
    <3> QED  BY <1>5, <2>1, <3>1, <3>2 DEF PassedMeets, MeetsBoth
  <2> QED  BY <2>1 DEF PassedMeets
<1> QED  BY <1>6, <1>7, <1>8, <1>9, <1>10, <1>11

LEMMA SetOverrideStep ==
    ASSUME IInv, TypeOK', hpu_registry_set_override
    PROVE  CallInv'
<1> USE DEF IInv, RegInv, CallInv
<1> DEFINE i == loc[Admin].slot
           cat == loc[Admin].cat
<1>0. Admin \in Threads /\ Loggers \subseteq Threads /\ Admin \notin Loggers
  BY Parameters
<1>1. /\ pc' = [pc EXCEPT ![Admin] = "out"] /\ loc' = [loc EXCEPT ![Admin] = NoLocals]
      /\ controls' = controls /\ pc[Admin] = "override"
  BY DEF hpu_registry_set_override, Return, Goto
<1>2. /\ \A u \in Threads \ {Admin} : pc'[u] = pc[u] /\ loc'[u] = loc[u]
      /\ pc'[Admin] = "out"
  BY <1>0, <1>1 DEF TypeOK
<1>3. loc[Admin] \in Locals /\ cat \in Categories
  BY <1>0 DEF TypeOK, Locals
<1>4. CASE i = 0
  <2>1. reg' = reg /\ promised' = promised /\ Slots' = Slots
    BY <1>4 DEF hpu_registry_set_override, Slots
  <2>2. SlotOK' /\ NoSlotNoPromise' /\ PromiseKept' /\ InFlight'
    BY <1>0, <1>2, <2>1 DEF SlotOK, NoSlotNoPromise, PromiseKept, InFlight
  <2>3. Calls' /\ PassedMeets'
    BY <1>0, <1>1, <1>2, <2>1 DEF Calls, Older, PassedMeets, MeetsBoth
  <2> QED  BY <2>2, <2>3
<1>5. CASE i # 0
  <2>1. i \in Slots /\ reg[i].name = cat
    BY <1>0, <1>1, <1>5 DEF SlotOK, Places
  <2>2. reg' = [reg EXCEPT ![i] = [reg[i] EXCEPT !.override = loc[Admin].level]]
        /\ promised' = [promised EXCEPT ![cat] = Promise]
    BY <1>5 DEF hpu_registry_set_override
  <2>3. Promise.level = loc[Admin].level /\ Promise.call = controls
    BY DEF Promise
  <2>4. [reg[i] EXCEPT !.override = loc[Admin].level].name = reg[i].name
        /\ [reg[i] EXCEPT !.override = loc[Admin].level].override = loc[Admin].level
    BY <2>1, EntryTypes DEF Entry
  <2>5. /\ Slots' = Slots
        /\ \A j \in Slots : reg'[j].name = reg[j].name
        /\ \A j \in Slots \ {i} : reg'[j] = reg[j]
        /\ reg'[i].override = Promise.level
    BY <2>1, <2>2, <2>3, <2>4 DEF TypeOK, Slots
  <2>6. promised'[cat] = Promise /\ \A c \in Categories \ {cat} : promised'[c] = promised[c]
    BY <1>3, <2>2 DEF TypeOK
  <2>7. SlotOK'
    BY <1>2, <2>5 DEF SlotOK
  <2>8. NoSlotNoPromise'
    BY <1>0, <1>2 DEF NoSlotNoPromise
  <2>9. PromiseKept'
    <3>1. ASSUME NEW c \in Categories, promised'[c] # NoPromise
          PROVE  \E j \in Slots' : reg'[j].name = c /\ reg'[j].override = promised'[c].level
      <4>1. CASE c = cat
        BY <2>1, <2>5, <2>6, <4>1
      <4>2. CASE c # cat
        <5>1. PICK j \in Slots : reg[j].name = c /\ reg[j].override = promised[c].level
          BY <2>6, <3>1, <4>2 DEF PromiseKept
        <5>2. j # i
          BY <2>1, <4>2, <5>1
        <5> QED  BY <2>5, <2>6, <4>2, <5>1, <5>2
      <4> QED  BY <4>1, <4>2
    <3> QED  BY <3>1 DEF PromiseKept
  <2>10. InFlight'
    BY <1>2 DEF InFlight
  <2>11. Calls'
    <3>1. controls \in Nat
      BY DEF TypeOK
    <3>2. \A c \in Categories : promised'[c].call <= controls'
      BY <1>1, <2>3, <2>6, <3>1 DEF Calls, Older
    <3> QED  BY <1>0, <1>1, <1>2, <3>2 DEF Calls, Older
  <2>12. PassedMeets'
    <3>1. ASSUME NEW u \in Loggers, pc'[u] \in {"throttle", "bucket", "sample", "put"},
                 loc'[u].floor # NoPromise, loc'[u].floor = promised'[loc'[u].cat]
          PROVE  MeetsBoth(u)'
      <4>1. pc'[u] = pc[u] /\ loc'[u] = loc[u] /\ loc[u].cat \in Categories
        BY <1>0, <1>2 DEF TypeOK, Locals
      <4>2. loc[u].floor.call < controls /\ controls \in Nat /\ loc[u].floor.call \in Nat
        BY <1>0, <1>1 DEF Calls, Older, TypeOK, Locals
      <4>3. loc[u].floor # Promise
        BY <2>3, <4>2
      <4>4. loc[u].cat # cat
        BY <2>6, <3>1, <4>1, <4>3
      <4> QED  BY <2>6, <3>1, <4>1, <4>4 DEF PassedMeets, MeetsBoth
    <3> QED  BY <3>1 DEF PassedMeets
  <2> QED  BY <2>7, <2>8, <2>9, <2>10, <2>11, <2>12
<1> QED  BY <1>4, <1>5

-----------------------------------------------------------------------------

LEMMA CallStep ==
    ASSUME IInv, [Next]_vars
    PROVE  CallInv'
<1>0. TypeOK /\ TypeOK'
  BY TypeStep DEF IInv, RegInv
<1>1. ASSUME QuietStep  PROVE  Kept
  BY <1>0, <1>1, QuietRefreshes DEF Refreshed, Kept, TypeOK
<1>2. ASSUME LoggerStep  PROVE  CallInv'
  <2>1. PICK t \in Loggers : \/ hpu_pipeline_submit(t) \/ filter(t) \/ throttle_pass(t)
                             \/ category_bucket(t) \/ sample(t) \/ put(t)
    BY <1>2 DEF LoggerStep
  <2>2. CASE hpu_pipeline_submit(t)
    BY <1>0, <2>2, SubmitStep
  <2>3. CASE ~hpu_pipeline_submit(t)
    <3>1. Advances(t)
      BY <1>0, <2>1, <2>3, LoggersAdvance
    <3> QED  BY <1>0, <1>1, <1>2, <3>1, AdvanceStep DEF QuietStep
  <2> QED  BY <2>2, <2>3
<1>3. ASSUME ConsumerStep \/ hpulogc_set_level \/ Tick \/ UNCHANGED vars  PROVE  CallInv'
  <2>1. controls \in Nat
    BY <1>0 DEF TypeOK
  <2>2. Idle
    BY <1>3, <2>1 DEF ConsumerStep, consumer_get, consumer_process, hpulogc_set_level, Tick, vars, Idle
  <2>3. Kept
    BY <1>1, <1>3 DEF QuietStep
  <2> QED  BY <2>2, <2>3, IdleStep
<1>4. ASSUME hpulogc_set_level_for_category  PROVE  CallInv'
  BY <1>0, <1>4, StartOverrideStep
<1>5. ASSUME reload_swap  PROVE  CallInv'
  <2>1. reg' = reg /\ Idle
    BY <1>0, <1>5 DEF reload_swap, Idle, TypeOK
  <2>2. Kept
    BY <1>0, <2>1 DEF Kept, TypeOK
  <2> QED  BY <2>1, <2>2, IdleStep
<1>6. ASSUME NEW t \in Threads, lookup_register(t)  PROVE  CallInv'
  BY <1>0, <1>6, RegisterStep
<1>7. ASSUME hpu_registry_set_override  PROVE  CallInv'
  BY <1>0, <1>7, SetOverrideStep
<1> QED  BY <1>2, <1>3, <1>4, <1>5, <1>6, <1>7, NextCases DEF QuietStep

LEMMA CallInit == Init => CallInv
<1> SUFFICES ASSUME Init  PROVE  CallInv
  OBVIOUS
<1>1. /\ \A t \in Threads : pc[t] = "out" /\ loc[t] = NoLocals
      /\ \A cat \in Categories : promised[cat] = NoPromise
      /\ controls = 0
  BY DEF Init
<1>2. Admin \in Threads /\ Loggers \subseteq Threads /\ NoPromise.call = 0 /\ NoLocals.floor = NoPromise
  BY Parameters
<1> QED  BY <1>1, <1>2
         DEF CallInv, SlotOK, NoSlotNoPromise, PromiseKept, InFlight, Calls, Older, PassedMeets

(* A log call that starts after an override was acknowledged is let        *)
(* through exactly if it meets both the override and the global level it   *)
(* read, whichever threads register, reload or log at the same time.  What *)
(* the header promises, that the override alone decides, is not so.        *)
THEOREM OverridesAreKept == Spec => []OverrideHolds
<1>1. Init => IInv
  BY RegInit, CallInit DEF IInv
<1>2. IInv /\ [Next]_vars => IInv'
  BY RegStep, CallStep DEF IInv
<1>3. IInv => OverrideHolds
  <2> SUFFICES ASSUME IInv, NEW t \in Loggers,
                      loc[t].floor # NoPromise, loc[t].floor = promised[loc[t].cat]
               PROVE  /\ pc[t] = "filter" => (PassesFilter(t) <=> MeetsBoth(t))
                      /\ pc[t] \in {"throttle", "bucket", "sample", "put"} => MeetsBoth(t)
    BY DEF OverrideHolds
  <2> QED  BY FilterObeys DEF IInv, CallInv, PassedMeets
<1> QED  BY <1>1, <1>2, <1>3, PTL DEF Spec

-----------------------------------------------------------------------------
(* The throttle buckets: however many loggers share a bucket, and whichever*)
(* snapshots are swapped in, a category never gets more than a burst and   *)
(* the rate allow.                                                         *)


Throttles == {c.throttle : c \in Confs}

(* A logger at the bucket uses the parameters of some snapshot. *)
ThOK == \A t \in Loggers : pc[t] = "bucket" => loc[t].th \in Throttles

GrantsOK ==
    /\ grants \in [Categories -> [n : Nat, since : Nat]]
    /\ now >= 1
    /\ \A cat \in Categories : grants[cat].since <= now

(* Only a category with an entry has been granted anything. *)
GrantedHaveEntry ==
    \A cat \in Categories : grants[cat].n # 0 => \E i \in Slots : reg[i].name = cat

(* What was granted and what is left in the bucket, together, never exceed *)
(* a burst and the rate; the first use of a bucket always grants.          *)
Bounded(e, g) ==
    \/ e.last = 0 /\ g.n = 0
    \/ /\ e.last \in 1 .. now /\ e.tokens \in Nat
       /\ g.n # 0 /\ g.since <= e.last
       /\ \E c, d \in Throttles : g.n + e.tokens <= c.burst + d.rate * (e.last - g.since)

BucketsOK == \A i \in Slots : Bounded(reg[i], grants[reg[i].name])

BInv == ThOK /\ GrantsOK /\ GrantedHaveEntry /\ BucketsOK

-----------------------------------------------------------------------------
(* Arithmetic *)

LEMMA MulMono ==
    ASSUME NEW a \in Nat, NEW b \in Nat, NEW x \in Nat, a <= b
    PROVE  a * x <= b * x
OBVIOUS

LEMMA MulNat == ASSUME NEW a \in Nat, NEW x \in Nat PROVE a * x \in Nat
OBVIOUS

(* Two stretches of time at two rates are no more than both at the higher. *)
LEMMA TwoRates ==
    ASSUME NEW d \in Nat, NEW r \in Nat, NEW x \in Nat, NEW y \in Nat
    PROVE  \E q \in {d, r} : d * x + r * y <= q * (x + y)
<1>1. \A q \in Nat : q * (x + y) = q * x + q * y
  OBVIOUS
<1>2. \A q \in Nat : q * x \in Nat /\ q * y \in Nat
  BY MulNat
<1>3. CASE d <= r
  <2>1. d * x <= r * x
    BY <1>3, MulMono
  <2> QED  BY <1>1, <1>2, <2>1
<1>4. CASE r <= d
  <2>1. r * y <= d * y
    BY <1>4, MulMono
  <2> QED  BY <1>1, <1>2, <2>1
<1> QED  BY <1>3, <1>4

LEMMA ThrottleTypes ==
    ASSUME NEW th \in Throttles
    PROVE  th.rate \in Nat /\ th.burst \in Nat \ {0} /\ th \in [rate : Nat, burst : Nat \ {0}, sampling : Nat]
BY Parameters DEF Throttles

(* One use of a bucket: filled, refilled or untouched, its bound holds for *)
(* the present moment.                                                     *)
LEMMA UseBounded ==
    ASSUME NEW e \in Entry, NEW g \in [n : Nat, since : Nat], NEW th \in Throttles,
           now \in Nat \ {0}, Bounded(e, g)
    PROVE  LET b == throttle_bucket(e, th)
           IN /\ b.last = now /\ b.tokens \in Nat
              /\ g.n = 0 => b.tokens = th.burst
              /\ g.n # 0 => /\ g.since <= now
                            /\ \E c, d \in Throttles : g.n + b.tokens <= c.burst + d.rate * (now - g.since)
<1> DEFINE b == throttle_bucket(e, th)
<1>0. th.rate \in Nat /\ th.burst \in Nat \ {0} /\ e.tokens \in Int /\ e.last \in Int
  BY ThrottleTypes DEF Entry
<1>1. /\ b.last = now
      /\ b.tokens = IF e.last = 0 THEN th.burst
                    ELSE IF now > e.last
                    THEN Least(e.tokens + th.rate * (now - e.last), th.burst) ELSE e.tokens
  BY DEF throttle_bucket, Entry
<1> HIDE DEF b
<1> DEFINE Goal == /\ b.last = now /\ b.tokens \in Nat
                   /\ g.n = 0 => b.tokens = th.burst
                   /\ g.n # 0 => /\ g.since <= now
                                 /\ \E c, d \in Throttles :
                                       g.n + b.tokens <= c.burst + d.rate * (now - g.since)
<1>2. ASSUME e.last = 0, g.n = 0  PROVE  Goal
  <2>1. b.last = now /\ b.tokens = th.burst /\ b.tokens \in Nat
    BY <1>0, <1>1, <1>2
  <2> QED  BY <1>2, <2>1
<1>3. ASSUME e.last # 0  PROVE  Goal
  <2>1. /\ e.last \in 1 .. now /\ e.tokens \in Nat
        /\ g.n # 0 /\ g.since <= e.last /\ g.since \in Nat /\ g.n \in Nat
    BY <1>3 DEF Bounded
  <2> PICK c \in Throttles, d \in Throttles :
        g.n + e.tokens <= c.burst + d.rate * (e.last - g.since)
    BY <1>3 DEF Bounded
  <2>2. c.burst \in Nat /\ d.rate \in Nat
    BY ThrottleTypes
  <2>3. now - e.last \in Nat /\ e.last - g.since \in Nat
        /\ (e.last - g.since) + (now - e.last) = now - g.since
    BY <2>1
  <2>4. th.rate * (now - e.last) \in Nat
    BY <1>0, <2>3, MulNat
  <2>5. b.tokens \in Nat /\ b.tokens <= e.tokens + th.rate * (now - e.last)
    BY <1>0, <1>1, <1>3, <2>1, <2>4 DEF Least
  <2>6. PICK q \in {d.rate, th.rate} :
           d.rate * (e.last - g.since) + th.rate * (now - e.last) <= q * (now - g.since)
    BY <1>0, <2>2, <2>3, TwoRates
  <2>7. d.rate * (e.last - g.since) \in Nat /\ q * (now - g.since) \in Nat
    <3>1. now - g.since \in Nat
      BY <2>1
    <3> QED  BY <1>0, <2>2, <2>3, <3>1, MulNat
  <2> DEFINE A == d.rate * (e.last - g.since)
             B == th.rate * (now - e.last)
             D == q * (now - g.since)
  <2>8. g.n + b.tokens <= c.burst + D
    <3>1. /\ A \in Nat /\ B \in Nat /\ D \in Nat /\ A + B <= D
          /\ g.n + e.tokens <= c.burst + A /\ b.tokens <= e.tokens + B
      BY <2>4, <2>5, <2>6, <2>7
    <3> HIDE DEF A, B, D
    <3> QED  BY <2>1, <2>2, <2>5, <3>1
  <2>9. PICK f \in Throttles : q = f.rate
    OBVIOUS
  <2>10. g.n + b.tokens <= c.burst + f.rate * (now - g.since)
    BY <2>8, <2>9
  <2>11. \E c1, d1 \in Throttles : g.n + b.tokens <= c1.burst + d1.rate * (now - g.since)
    BY <2>10
  <2>12. g.since <= now
    BY <2>1
  <2> QED  BY <1>1, <2>1, <2>5, <2>11, <2>12
<1>4. Goal
  BY <1>2, <1>3 DEF Bounded
<1> QED  BY <1>4 DEF b

-----------------------------------------------------------------------------
(* Steps that leave the buckets alone *)

Calm ==
    /\ Len(reg') = Len(reg)
    /\ \A i \in Slots : /\ reg'[i].name = reg[i].name
                        /\ reg'[i].tokens = reg[i].tokens /\ reg'[i].last = reg[i].last
    /\ grants' = grants
    /\ now' \in Nat /\ now <= now'

LEMMA CalmStep ==
    ASSUME TypeOK, GrantsOK, GrantedHaveEntry, BucketsOK, Calm
    PROVE  GrantsOK' /\ GrantedHaveEntry' /\ BucketsOK'
<1>0. Slots' = Slots /\ grants' = grants /\ now \in Nat
  BY DEF Calm, Slots, TypeOK
<1>1. GrantsOK'
  <2>1. \A cat \in Categories : grants[cat].since \in Nat
    BY DEF GrantsOK
  <2> QED  BY <1>0, <2>1 DEF GrantsOK, Calm
<1>2. GrantedHaveEntry'
  BY <1>0 DEF GrantedHaveEntry, Calm
<1>3. BucketsOK'
  <2>1. ASSUME NEW i \in Slots
        PROVE  Bounded(reg[i], grants[reg[i].name])'
    <3>1. Bounded(reg[i], grants[reg[i].name])
      BY DEF BucketsOK
    <3>2. /\ reg'[i].tokens = reg[i].tokens /\ reg'[i].last = reg[i].last
          /\ grants'[reg'[i].name] = grants[reg[i].name]
          /\ now' \in Nat /\ now <= now'
      BY DEF Calm
    <3>3. \A k \in 1 .. now : k \in 1 .. now'
      BY <1>0, <3>2
    <3> QED  BY <3>1, <3>2, <3>3 DEF Bounded
  <2> QED  BY <1>0, <2>1 DEF BucketsOK
<1> QED  BY <1>1, <1>2, <1>3

(* A refresh of the routes keeps the bucket of the entry.                  *)
LEMMA ProcessCalm ==
    ASSUME TypeOK, NEW rec, hpu_pipeline_process(rec)
    PROVE  /\ Len(reg') = Len(reg)
           /\ \A i \in Slots : /\ reg'[i].name = reg[i].name
                               /\ reg'[i].tokens = reg[i].tokens /\ reg'[i].last = reg[i].last
<1> DEFINE slot == hpu_registry_find(rec.cat)
           e == [reg[slot] EXCEPT !.route = Routes(conf, reg[slot].name), !.gen = conf_gen]
<1>1. CASE reg' = reg
  BY <1>1
<1>2. CASE reg' # reg
  <2>1. slot # 0 /\ reg' = hpu_registry_refresh_route(slot)
    BY <1>2 DEF hpu_pipeline_process
  <2>2. slot \in Slots
    BY <2>1, FindCorrect DEF TypeOK
  <2>3. reg[slot] \in Entry
    BY <2>2, EntryTypes
  <2>4. reg' = [reg EXCEPT ![slot] = e]
    BY <1>2, <2>1, <2>2 DEF hpu_registry_refresh_route, TypeOK, Slots
  <2>5. e.name = reg[slot].name /\ e.tokens = reg[slot].tokens /\ e.last = reg[slot].last
    BY <2>3 DEF Entry
  <2> HIDE DEF e
  <2> QED  BY <2>2, <2>4, <2>5 DEF TypeOK, Slots
<1> QED  BY <1>1, <1>2

LEMMA OverrideCalm ==
    ASSUME IInv, hpu_registry_set_override
    PROVE  Calm
<1> USE DEF IInv, RegInv, CallInv
<1> DEFINE i == loc[Admin].slot
           e == [reg[i] EXCEPT !.override = loc[Admin].level]
<1>0. Admin \in Threads /\ pc[Admin] = "override" /\ UNCHANGED <<grants, now>> /\ now \in Nat
  BY Parameters DEF hpu_registry_set_override, TypeOK
<1>1. CASE i = 0
  <2>1. reg' = reg
    BY <1>1 DEF hpu_registry_set_override
  <2> QED  BY <1>0, <2>1 DEF Calm
<1>2. CASE i # 0
  <2>1. i \in Slots
    BY <1>0, <1>2 DEF SlotOK, Places
  <2>2. reg[i] \in Entry
    BY <2>1, EntryTypes
  <2>3. reg' = [reg EXCEPT ![i] = e]
    BY <1>2 DEF hpu_registry_set_override
  <2>4. e.name = reg[i].name /\ e.tokens = reg[i].tokens /\ e.last = reg[i].last
    BY <2>2 DEF Entry
  <2> HIDE DEF e
  <2>5. Len(reg') = Len(reg) /\ \A j \in Slots : /\ reg'[j].name = reg[j].name
                                                 /\ reg'[j].tokens = reg[j].tokens
                                                 /\ reg'[j].last = reg[j].last
    BY <2>1, <2>3, <2>4 DEF TypeOK, Slots
  <2> QED  BY <1>0, <2>5 DEF Calm
<1> QED  BY <1>1, <1>2

LEMMA OthersCalm ==
    ASSUME TypeOK,
           \/ \E t \in Loggers : hpu_pipeline_submit(t) \/ filter(t) \/ throttle_pass(t) \/ sample(t) \/ put(t)
           \/ ConsumerStep \/ hpulogc_set_level \/ hpulogc_set_level_for_category
           \/ reload_swap \/ Tick \/ UNCHANGED vars
    PROVE  Calm
<1>0. now \in Nat
  BY DEF TypeOK
<1>1. ASSUME reg' = reg, UNCHANGED <<grants, now>>  PROVE  Calm
  BY <1>0, <1>1 DEF Calm
<1>2. ASSUME NEW rec, hpu_pipeline_process(rec), UNCHANGED <<grants, now>>  PROVE  Calm
  BY <1>0, <1>2, ProcessCalm DEF Calm
<1>3. ASSUME NEW t \in Loggers, hpu_pipeline_submit(t) \/ filter(t) \/ throttle_pass(t) \/ sample(t)
      PROVE  Calm
  <2>1. UNCHANGED <<reg, grants, now>>
    BY <1>3 DEF hpu_pipeline_submit, filter, throttle_pass, sample
  <2> QED  BY <1>1, <2>1
<1>4. ASSUME NEW t \in Loggers, put(t)  PROVE  Calm
  <2>1. UNCHANGED <<grants, now>>
    BY <1>4 DEF put
  <2>2. reg' = reg \/ hpu_pipeline_process([cat |-> loc[t].cat, level |-> loc[t].level])
    BY <1>4 DEF put
  <2> QED  BY <1>1, <1>2, <2>1, <2>2
<1>5. ASSUME consumer_process  PROVE  Calm
  <2>1. UNCHANGED <<grants, now>> /\ hpu_pipeline_process(hand[1])
    BY <1>5 DEF consumer_process
  <2> QED  BY <1>2, <2>1
<1>6. ASSUME \/ consumer_get \/ hpulogc_set_level \/ hpulogc_set_level_for_category
             \/ reload_swap \/ UNCHANGED vars
      PROVE  Calm
  <2>1. UNCHANGED <<reg, grants, now>>
    BY <1>6 DEF consumer_get, hpulogc_set_level, hpulogc_set_level_for_category, reload_swap, vars
  <2> QED  BY <1>1, <2>1
<1>7. ASSUME Tick  PROVE  Calm
  BY <1>0, <1>7 DEF Tick, Calm
<1> QED  BY <1>3, <1>4, <1>5, <1>6, <1>7 DEF ConsumerStep

-----------------------------------------------------------------------------
(* Registration: a new entry has an unused bucket.                         *)

LEMMA RegisterBuckets ==
    ASSUME IInv, BInv, NEW t \in Threads, lookup_register(t)
    PROVE  GrantsOK' /\ GrantedHaveEntry' /\ BucketsOK'
<1> USE DEF IInv, RegInv, BInv
<1>0. UNCHANGED <<grants, now>> /\ now \in Nat
  BY DEF lookup_register, TypeOK
<1>1. CASE reg' = reg
  <2>1. Calm
    BY <1>0, <1>1 DEF Calm
  <2> QED  BY <2>1, CalmStep
<1>2. CASE reg' # reg
  <2> DEFINE cat == loc[t].cat
             e == NewEntry(cat)
  <2>1. Slot(cat) = {} /\ reg' = Append(reg, e)
    BY <1>2, RegisterAppends
  <2>2. e.name = cat /\ e.last = 0
    BY DEF NewEntry
  <2>3. cat \in Categories
    BY DEF TypeOK, Locals
  <2>4. grants[cat].n = 0
    BY <2>1, <2>3 DEF GrantedHaveEntry, Slot
  <2> HIDE DEF e, cat
  <2>5. /\ \A i \in Slots : reg'[i] = reg[i]
        /\ reg'[Len(reg) + 1] = e
        /\ Slots' = Slots \cup {Len(reg) + 1}
    BY <2>1 DEF Slots, TypeOK
  <2>6. GrantsOK' /\ GrantedHaveEntry'
    BY <1>0, <2>5 DEF GrantsOK, GrantedHaveEntry
  <2>7. BucketsOK'
    <3>1. ASSUME NEW i \in Slots  PROVE  Bounded(reg[i], grants[reg[i].name])'
      BY <1>0, <2>5 DEF BucketsOK, Bounded
    <3>2. ASSUME NEW i \in Slots', i = Len(reg) + 1
          PROVE  Bounded(reg[i], grants[reg[i].name])'
      <4>1. reg'[i] = e
        BY <2>5, <3>2
      <4> QED  BY <1>0, <2>2, <2>4, <4>1 DEF Bounded
    <3> QED  BY <2>5, <3>1, <3>2 DEF BucketsOK
  <2> QED  BY <2>6, <2>7
<1> QED  BY <1>1, <1>2

-----------------------------------------------------------------------------
(* A use of a bucket                                                       *)

LEMMA UseBuckets ==
    ASSUME IInv, BInv, NEW t \in Loggers, category_bucket(t)
    PROVE  GrantsOK' /\ GrantedHaveEntry' /\ BucketsOK'
<1> USE DEF IInv, RegInv, CallInv, BInv
<1> DEFINE i == loc[t].slot
           cat == loc[t].cat
           th == loc[t].th
           e == throttle_bucket(reg[i], th)
           g == grants[cat]
           h == [n |-> g.n + 1, since |-> IF g.n = 0 THEN now ELSE g.since]
<1>0. /\ t \in Threads /\ pc[t] = "bucket" /\ now' = now /\ now \in Nat \ {0}
      /\ cat \in Categories /\ th \in Throttles /\ g \in [n : Nat, since : Nat]
  <2>1. t \in Threads /\ pc[t] = "bucket" /\ now' = now
    BY Parameters DEF category_bucket
  <2>2. loc[t] \in Locals
    BY <2>1 DEF TypeOK
  <2> QED  BY <2>1, <2>2 DEF Locals, TypeOK, GrantsOK, ThOK
<1>1. CASE reg' = reg /\ grants' = grants
  <2>1. Calm
    BY <1>0, <1>1 DEF Calm
  <2> QED  BY <2>1, CalmStep
<1>2. CASE i # 0
  <2>1. i \in Slots /\ reg[i].name = cat
    BY <1>0, <1>2 DEF SlotOK, Places
  <2>2. reg[i] \in Entry /\ Bounded(reg[i], g)
    BY <2>1, EntryTypes DEF BucketsOK
  <2>3. /\ e.last = now /\ e.tokens \in Nat
        /\ g.n = 0 => e.tokens = th.burst
        /\ g.n # 0 => /\ g.since <= now
                      /\ \E c, d \in Throttles : g.n + e.tokens <= c.burst + d.rate * (now - g.since)
    BY <1>0, <2>2, UseBounded
  <2>4. e \in Entry /\ e.name = cat /\ [e EXCEPT !.tokens = @ - 1].name = cat
    BY <1>0, <2>1, <2>2, BucketEntry, ThrottleTypes
  <2>5. \A j \in Slots \ {i} : reg[j].name # cat
    BY <2>1 DEF RegistryUnique
  <2>6. CASE e.tokens >= 1 /\ reg' = [reg EXCEPT ![i] = [e EXCEPT !.tokens = @ - 1]]
             /\ grants' = [grants EXCEPT ![cat] = h]
    <3> DEFINE f == [e EXCEPT !.tokens = @ - 1]
    <3>1. f.name = cat /\ f.last = now /\ f.tokens = e.tokens - 1
      BY <2>3, <2>4 DEF Entry
    <3>2. h.n = g.n + 1 /\ h.since \in Nat /\ h.since <= now
          /\ (g.n = 0 => h.since = now) /\ (g.n # 0 => h.since = g.since)
      BY <1>0, <2>3
    <3>3. \E c, d \in Throttles : h.n + f.tokens <= c.burst + d.rate * (now - h.since)
      <4>1. CASE g.n = 0
        <5>1. th.burst \in Nat /\ th.rate \in Nat /\ th.rate * 0 = 0
          BY <1>0, ThrottleTypes
        <5>2. h.n + f.tokens = th.burst /\ now - h.since = 0
          BY <1>0, <2>3, <3>1, <3>2, <4>1, <5>1
        <5>3. h.n + f.tokens <= th.burst + th.rate * (now - h.since)
          BY <5>1, <5>2
        <5> QED  BY <1>0, <5>3
      <4>2. CASE g.n # 0
        <5>1. h.n + f.tokens = g.n + e.tokens
          BY <1>0, <2>3, <3>1, <3>2
        <5> QED  BY <2>3, <3>2, <4>2, <5>1
      <4> QED  BY <4>1, <4>2
    <3>4. h \in [n : Nat, since : Nat] /\ h.n # 0 /\ f.tokens \in Nat
      BY <1>0, <2>3, <2>6, <3>1, <3>2
    <3>5. reg' = [reg EXCEPT ![i] = f] /\ grants' = [grants EXCEPT ![cat] = h]
      BY <2>6
    <3> HIDE DEF f, h, e
    <3>6. Slots' = Slots /\ reg'[i] = f /\ \A j \in Slots \ {i} : reg'[j] = reg[j]
      BY <2>1, <3>5 DEF TypeOK, Slots
    <3>7. /\ grants' \in [Categories -> [n : Nat, since : Nat]] /\ grants'[cat] = h
          /\ \A c \in Categories \ {cat} : grants'[c] = grants[c]
      BY <1>0, <3>4, <3>5 DEF GrantsOK
    <3>8. GrantsOK'
      BY <1>0, <3>2, <3>7 DEF GrantsOK
    <3>9. GrantedHaveEntry'
      BY <2>1, <3>1, <3>6, <3>7 DEF GrantedHaveEntry
    <3>10. BucketsOK'
      <4>1. ASSUME NEW j \in Slots, j = i
            PROVE  Bounded(reg[j], grants[reg[j].name])'
        <5>1. reg'[j] = f /\ grants'[reg'[j].name] = h
          BY <3>1, <3>6, <3>7, <4>1
        <5> QED  BY <1>0, <3>1, <3>2, <3>3, <3>4, <5>1 DEF Bounded
      <4>2. ASSUME NEW j \in Slots \ {i}
            PROVE  Bounded(reg[j], grants[reg[j].name])'
        <5>1. reg[j].name \in Categories \ {cat}
          BY <2>5, EntryTypes DEF Entry
        <5> QED  BY <1>0, <3>6, <3>7, <5>1 DEF BucketsOK, Bounded
      <4> QED  BY <3>6, <4>1, <4>2 DEF BucketsOK
    <3> QED  BY <3>8, <3>9, <3>10
  <2>7. CASE e.tokens < 1 /\ reg' = [reg EXCEPT ![i] = e] /\ grants' = grants
    <3>1. g.n # 0
      BY <1>0, <2>3, <2>7, ThrottleTypes
    <3> HIDE DEF e
    <3>2. Slots' = Slots /\ reg'[i] = e /\ \A j \in Slots \ {i} : reg'[j] = reg[j]
      BY <2>1, <2>7 DEF TypeOK, Slots
    <3>3. GrantsOK' /\ GrantedHaveEntry'
      <4>1. \A j \in Slots : reg'[j].name = reg[j].name
        BY <2>1, <2>4, <3>2
      <4> QED  BY <1>0, <2>7, <3>2, <4>1 DEF GrantsOK, GrantedHaveEntry
    <3>4. BucketsOK'
      <4>1. ASSUME NEW j \in Slots, j = i
            PROVE  Bounded(reg[j], grants[reg[j].name])'
        <5>1. reg'[j] = e /\ grants'[reg'[j].name] = g
          BY <2>4, <2>7, <3>2, <4>1
        <5> QED  BY <1>0, <2>3, <3>1, <5>1 DEF Bounded
      <4>2. ASSUME NEW j \in Slots \ {i}
            PROVE  Bounded(reg[j], grants[reg[j].name])'
        BY <1>0, <2>7, <3>2 DEF BucketsOK, Bounded
      <4> QED  BY <3>2, <4>1, <4>2 DEF BucketsOK
    <3> QED  BY <3>3, <3>4
  <2> QED  BY <1>1, <2>6, <2>7 DEF category_bucket
<1> QED  BY <1>1, <1>2 DEF category_bucket

-----------------------------------------------------------------------------
(* The parameters a logger took are those of some snapshot.                *)

(* A step of one thread to a place other than the bucket. *)
Elsewhere(t) ==
    /\ \E l \in Places \ {"bucket"} : pc' = [pc EXCEPT ![t] = l]
    /\ \E w : loc' = [loc EXCEPT ![t] = w]

LEMMA ElsewhereStep ==
    ASSUME TypeOK, ThOK, NEW t \in Threads, Elsewhere(t)
    PROVE  ThOK'
<1>1. \A u \in Loggers : u \in Threads
  BY Parameters
<1> QED  BY <1>1 DEF Elsewhere, ThOK, TypeOK

LEMMA ThStep ==
    ASSUME TypeOK, ThOK, [Next]_vars
    PROVE  ThOK'
<1>0. Admin \in Threads /\ Loggers \subseteq Threads
  BY Parameters
<1>1. \A t \in Threads : loc = [loc EXCEPT ![t] = loc[t]]
  BY DEF TypeOK
<1>2. ASSUME NEW t \in Threads, lookup_register(t)  PROVE  ThOK'
  <2>1. \E l \in {"filter", "override"} : pc' = [pc EXCEPT ![t] = l]
    BY <1>2, RegisterTypes
  <2>2. \E w : loc' = [loc EXCEPT ![t] = w]
    BY <1>2 DEF lookup_register
  <2> QED  BY <2>1, <2>2, ElsewhereStep DEF Elsewhere, Places
<1>3. ASSUME NEW t \in Threads, NEW locals, StartLookup(t, locals)  PROVE  ThOK'
  <2>1. \E l \in {"register", "filter", "override"} : pc' = [pc EXCEPT ![t] = l]
    BY <1>3 DEF StartLookup, AfterLookup, Goto
  <2>2. \E w : loc' = [loc EXCEPT ![t] = w]
    BY <1>3 DEF StartLookup
  <2> QED  BY <2>1, <2>2, ElsewhereStep DEF Elsewhere, Places
<1>4. ASSUME NEW t \in Threads, \/ Return(t)
                                \/ \E l \in {"throttle", "put", "sample"} : Goto(t, l) /\ loc' = loc
      PROVE  ThOK'
  <2>1. \E l \in {"out", "throttle", "put", "sample"} : pc' = [pc EXCEPT ![t] = l]
    BY <1>4 DEF Return, Goto
  <2>2. \E w : loc' = [loc EXCEPT ![t] = w]
    BY <1>1, <1>4 DEF Return
  <2> QED  BY <2>1, <2>2, ElsewhereStep DEF Elsewhere, Places
<1>5. ASSUME NEW t \in Loggers, throttle_pass(t)  PROVE  ThOK'
  <2>1. conf.throttle \in Throttles
    BY DEF Throttles, TypeOK
  <2>2. loc' = [loc EXCEPT ![t] = [loc[t] EXCEPT !.th = conf.throttle]] /\ pc' = [pc EXCEPT ![t] = "bucket"]
    BY <1>5 DEF throttle_pass, Goto
  <2>3. loc[t] \in Locals
    BY <1>0 DEF TypeOK
  <2>4. [loc[t] EXCEPT !.th = conf.throttle].th = conf.throttle
    BY <2>3 DEF Locals
  <2> QED  BY <1>0, <2>1, <2>2, <2>4 DEF ThOK, TypeOK
<1>6. ASSUME NEW t \in Loggers, hpu_pipeline_submit(t)  PROVE  ThOK'
  BY <1>0, <1>3, <1>6 DEF hpu_pipeline_submit
<1>7. ASSUME NEW t \in Loggers, filter(t)  PROVE  ThOK'
  BY <1>0, <1>4, <1>7 DEF filter
<1>8. ASSUME NEW t \in Loggers, category_bucket(t)  PROVE  ThOK'
  <2>1. (Goto(t, "sample") /\ loc' = loc) \/ Return(t)
    BY <1>8 DEF category_bucket
  <2> QED  BY <1>0, <1>4, <2>1
<1>9. ASSUME NEW t \in Loggers, sample(t)  PROVE  ThOK'
  <2>1. (Goto(t, "put") /\ loc' = loc) \/ Return(t)
    BY <1>9 DEF sample
  <2> QED  BY <1>0, <1>4, <2>1
<1>10. ASSUME NEW t \in Loggers, put(t)  PROVE  ThOK'
  BY <1>0, <1>4, <1>10 DEF put
<1>11. ASSUME hpulogc_set_level_for_category  PROVE  ThOK'
  BY <1>0, <1>3, <1>11 DEF hpulogc_set_level_for_category
<1>12. ASSUME hpu_registry_set_override  PROVE  ThOK'
  BY <1>0, <1>4, <1>12 DEF hpu_registry_set_override
<1>13. ASSUME consumer_get \/ consumer_process \/ hpulogc_set_level \/ reload_swap \/ Tick \/ UNCHANGED vars
       PROVE  ThOK'
  <2>1. UNCHANGED <<pc, loc>>
    BY <1>13 DEF consumer_get, consumer_process, hpulogc_set_level, reload_swap, Tick, vars
  <2> QED  BY <2>1 DEF ThOK
<1> QED  BY <1>2, <1>5, <1>6, <1>7, <1>8, <1>9, <1>10, <1>11, <1>12, <1>13 DEF Next

-----------------------------------------------------------------------------

LEMMA BucketStep ==
    ASSUME IInv, BInv, [Next]_vars
    PROVE  BInv'
<1> USE DEF BInv
<1>0. TypeOK
  BY DEF IInv, RegInv
<1>1. ThOK'
  BY <1>0, ThStep
<1>2. CASE \E t \in Threads : lookup_register(t)
  BY <1>1, <1>2, RegisterBuckets
<1>3. CASE \E t \in Loggers : category_bucket(t)
  BY <1>1, <1>3, UseBuckets
<1>4. CASE hpu_registry_set_override
  BY <1>0, <1>1, <1>4, OverrideCalm, CalmStep
<1>5. CASE \/ \E t \in Loggers : hpu_pipeline_submit(t) \/ filter(t) \/ throttle_pass(t) \/ sample(t) \/ put(t)
           \/ ConsumerStep \/ hpulogc_set_level \/ hpulogc_set_level_for_category
           \/ reload_swap \/ Tick \/ UNCHANGED vars
  BY <1>0, <1>1, <1>5, OthersCalm, CalmStep
<1> QED  BY <1>2, <1>3, <1>4, <1>5 DEF Next, ConsumerStep

LEMMA BucketInit == Init => BInv
<1> SUFFICES ASSUME Init  PROVE  BInv
  OBVIOUS
<1>1. /\ \A t \in Threads : pc[t] = "out"
      /\ grants = [c \in Categories |-> [n |-> 0, since |-> 0]]
      /\ now = 1 /\ reg = <<>> /\ Slots = {}
  BY DEF Init, Slots
<1>2. Loggers \subseteq Threads
  BY Parameters
<1> QED  BY <1>1, <1>2 DEF BInv, ThOK, GrantsOK, GrantedHaveEntry, BucketsOK

LEMMA BoundsHold == ASSUME IInv, BInv PROVE BucketBounded
<1> USE DEF BInv
<1>0. now \in Nat
  BY DEF IInv, RegInv, TypeOK
<1> SUFFICES ASSUME NEW cat \in Categories
             PROVE  \E c, d \in Confs :
                       grants[cat].n <= c.throttle.burst + d.throttle.rate * (now - grants[cat].since)
  BY DEF BucketBounded
<1> DEFINE g == grants[cat]
<1>1. g.n \in Nat /\ g.since \in Nat /\ g.since <= now /\ now - g.since \in Nat
  BY <1>0 DEF GrantsOK
<1> SUFFICES \E c, d \in Throttles : g.n <= c.burst + d.rate * (now - g.since)
  BY DEF Throttles
<1>2. CASE g.n = 0
  <2>1. PICK c \in Throttles : TRUE
    BY ConfsAssumption DEF Throttles
  <2>2. c.burst \in Nat /\ c.rate * (now - g.since) \in Nat
    BY <1>1, ThrottleTypes, MulNat
  <2>3. g.n <= c.burst + c.rate * (now - g.since)
    BY <1>2, <2>2
  <2> QED  BY <2>3
<1>3. CASE g.n # 0
  <2>1. PICK i \in Slots : reg[i].name = cat
    BY <1>3 DEF GrantedHaveEntry
  <2> DEFINE e == reg[i]
  <2>2. Bounded(e, g)
    BY <2>1 DEF BucketsOK
  <2>3. /\ e.last \in 1 .. now /\ e.tokens \in Nat /\ g.since <= e.last
    BY <1>3, <2>2 DEF Bounded
  <2>4. PICK c \in Throttles, d \in Throttles : g.n + e.tokens <= c.burst + d.rate * (e.last - g.since)
    BY <1>3, <2>2 DEF Bounded
  <2>5. c.burst \in Nat /\ d.rate \in Nat
    BY ThrottleTypes
  <2>6. e.last - g.since \in Nat /\ e.last - g.since <= now - g.since
    BY <1>0, <1>1, <2>3
  <2>7. /\ d.rate * (e.last - g.since) \in Nat /\ d.rate * (now - g.since) \in Nat
        /\ d.rate * (e.last - g.since) <= d.rate * (now - g.since)
    <3>1. ASSUME NEW r \in Nat, NEW x \in Nat, NEW y \in Nat, x <= y  PROVE  r * x <= r * y
      <4>1. x * r <= y * r
        BY <3>1, MulMono
      <4> QED  BY <4>1
    <3> QED  BY <1>1, <2>5, <2>6, <3>1, MulNat
  <2>8. g.n <= c.burst + d.rate * (now - g.since)
    <3> DEFINE A == d.rate * (e.last - g.since)
               D == d.rate * (now - g.since)
    <3>1. A \in Nat /\ D \in Nat /\ A <= D /\ g.n + e.tokens <= c.burst + A
      BY <2>4, <2>7
    <3> HIDE DEF A, D
    <3>2. g.n <= c.burst + D
      BY <1>1, <2>3, <2>5, <3>1
    <3> QED  BY <3>2 DEF D
  <2> QED  BY <2>8
<1> QED  BY <1>2, <1>3

(* However many threads log to a category and whichever snapshots are      *)
(* swapped in, its bucket never lets more through than a burst and the     *)
(* rate allow for the time since its first record.                         *)
THEOREM BucketsAreBounded == Spec => []BucketBounded
<1>1. Init => IInv /\ BInv
  BY RegInit, CallInit, BucketInit DEF IInv
<1>2. IInv /\ BInv /\ [Next]_vars => (IInv /\ BInv)'
  BY RegStep, CallStep, BucketStep DEF IInv
<1>3. IInv /\ BInv => BucketBounded
  BY BoundsHold
<1> QED  BY <1>1, <1>2, <1>3, PTL DEF Spec
=============================================================================
