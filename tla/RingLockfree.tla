---------------------------- MODULE RingLockfree ----------------------------
(***************************************************************************)
(* The lock-free byte ring, src/ring/ringbuf_lockfree.c.                   *)
(*                                                                         *)
(* One action per atomic access.  Producers reserve a range by moving enq, *)
(* fill it and publish it by storing its position plus one in the commit   *)
(* word; consumers find the marker, copy, and move deq.  With several      *)
(* consumers the marker is first changed to position plus two, a lease.    *)
(* Positions and lengths count 8-byte words.                               *)
(*                                                                         *)
(* A word of memory is read in two ways: as a commit word (commit, where   *)
(* Junk is anything that was not stored as one: payload, other header      *)
(* fields, malloc contents) and as part of a record (image, the write that *)
(* it belongs to).  Operations on atomics take effect in one global order; *)
(* plain accesses are ordered by them as the source requires.              *)
(***************************************************************************)
EXTENDS Integers, Sequences, FiniteSets

CONSTANTS Producers, Consumers,
          Msgs,               \* records, each put at most once
          RecordLen,          \* lf_record_len of each record, in words
          Capacity, MinPad,   \* ring size and header size, in words
          Modes,              \* the build modes to consider
          JunkMayMatch,       \* the looks at a commit word in which junk may
                              \* happen to equal the marker
          SPSC, MPSC, MPMC, Discard, Overwrite,
          NoThread, NoMsg, Junk

Threads == Producers \cup Consumers

ASSUME ThreadAssumption ==
    Producers \cap Consumers = {} /\ NoThread \notin Threads

ASSUME MsgAssumption == IsFiniteSet(Msgs) /\ NoMsg \notin Msgs

ASSUME ModeAssumption ==
    /\ Discard # Overwrite
    /\ SPSC # MPSC /\ MPSC # MPMC /\ SPSC # MPMC
    /\ Modes \subseteq {SPSC, MPSC, MPMC}
    /\ JunkMayMatch \subseteq {"marker", "claim", "revalidate"}
    /\ Junk \notin Nat

(* ringbuf.h: the capacity is at least twice the largest record. *)
ASSUME SizeAssumption ==
    /\ Capacity \in Nat
    /\ MinPad \in Nat \ {0}
    /\ RecordLen \in [Msgs -> Nat]
    /\ 2 * MinPad <= Capacity
    /\ \A m \in Msgs : MinPad <= RecordLen[m] /\ 2 * RecordLen[m] <= Capacity

VARIABLES mode, policy,
          enq, deq,         \* reservation and consume cursors
          commit, image,    \* memory
          closer,           \* how far hpu_ring_close is
          dropped, overwritten,
          kick_mu,          \* holder of r->kick_mu
          consumer_waiting, \* consumers announced in lf_wait
          kick,             \* consumers asleep on r->kick
          pc,
          cur, pos, total, padding,  \* producers: record, reservation, kind
          victim,           \* producers: the position being evicted
          at, view,         \* consumers: cursor and copied words
          status,           \* history: what became of each record
          delivered         \* history: records returned by get, in order

cursors == <<enq, deq>>
memory == <<commit, image>>
counters == <<dropped, overwritten>>
parking == <<kick_mu, consumer_waiting, kick>>
producer == <<cur, pos, total, padding, victim>>
consumer == <<at, view>>
config == <<mode, policy>>
history == <<status, delivered>>
vars == <<config, cursors, memory, closer, counters, parking, pc, producer,
          consumer, history>>

(* r->closed *)
closed == closer # "open"

Offsets == 0 .. Capacity - 1
Off(p) == p % Capacity

NoImage == [pos |-> 0, total_len |-> 0, pad |-> FALSE, msg |-> NoMsg]

lf_enq_contended == mode # SPSC
lf_deq_contended == mode = MPMC \/ policy = Overwrite

(* hpu_ring_create: overwrite degrades to discard unless SPSC, and wait    *)
(* behaves as discard everywhere.                                          *)
Init ==
    /\ mode \in Modes
    /\ policy \in IF mode = SPSC THEN {Discard, Overwrite} ELSE {Discard}
    /\ enq = 0 /\ deq = 0
    /\ commit = [o \in Offsets |-> Junk]
    /\ image = [o \in Offsets |-> NoImage]
    /\ closer = "open"
    /\ dropped = 0 /\ overwritten = 0
    /\ kick_mu = NoThread /\ consumer_waiting = 0 /\ kick = {}
    /\ pc = [t \in Threads |-> "idle"]
    /\ cur = [p \in Producers |-> NoMsg]
    /\ pos = [p \in Producers |-> 0]
    /\ total = [p \in Producers |-> 0]
    /\ padding = [p \in Producers |-> FALSE]
    /\ victim = [p \in Producers |-> 0]
    /\ at = [c \in Consumers |-> 0]
    /\ view = [c \in Consumers |-> <<>>]
    /\ status = [m \in Msgs |-> "new"]
    /\ delivered = <<>>

Goto(t, l) == pc' = [pc EXCEPT ![t] = l]
At(t, l) == pc[t] = l

-----------------------------------------------------------------------------
(* hpu_ring_put *)

(* A single-producer build has one thread in put, a single-consumer build  *)
(* one in get.                                                             *)
MayPut(p) == mode = SPSC => \A q \in Producers \ {p} : At(q, "idle")
MayGet(c) == mode # MPMC => \A q \in Consumers \ {c} : At(q, "idle")

(* Nothing in put or get reads the counters, so a refusal counts itself in *)
(* the step that decides it.                                               *)
Refused(m) ==
    /\ dropped' = dropped + 1
    /\ status' = [status EXCEPT ![m] = "dropped"]

(* The locals of a turn of the loop in put end with it, the others with    *)
(* the call.                                                               *)
TurnEnds(p) ==
    /\ pos' = [pos EXCEPT ![p] = 0]
    /\ padding' = [padding EXCEPT ![p] = FALSE]
    /\ victim' = [victim EXCEPT ![p] = 0]

PutAgain(p) == Goto(p, "load_enq") /\ TurnEnds(p) /\ UNCHANGED <<cur, total>>

PutReturn(p) ==
    /\ TurnEnds(p)
    /\ cur' = [cur EXCEPT ![p] = NoMsg]
    /\ total' = [total EXCEPT ![p] = 0]

PutCall(p, m) ==
    /\ At(p, "idle")
    /\ MayPut(p)
    /\ status[m] = "new"
    /\ \/ /\ ~closed
          /\ cur' = [cur EXCEPT ![p] = m]
          /\ total' = [total EXCEPT ![p] = RecordLen[m]]
          /\ status' = [status EXCEPT ![m] = "putting"]
          /\ Goto(p, "load_enq")
          /\ UNCHANGED dropped
       \/ closed /\ Refused(m) /\ UNCHANGED <<pc, cur, total>>
    /\ UNCHANGED <<config, cursors, memory, closer, overwritten, parking, pos, padding,
                   victim, consumer, delivered>>

(* Where the record goes, seen from the enq just read: behind a pad, or    *)
(* here, extended to the boundary when no pad would fit behind it.  The    *)
(* extended length is kept when the reservation fails and is tried again.  *)
LoadEnq(p) ==
    LET gap == Capacity - Off(enq)
        pad == gap < total[p]
    IN  /\ At(p, "load_enq")
        /\ pos' = [pos EXCEPT ![p] = enq]
        /\ padding' = [padding EXCEPT ![p] = pad]
        /\ total' = [total EXCEPT ![p] =
                        IF ~pad /\ gap < total[p] + MinPad THEN gap ELSE total[p]]
        /\ Goto(p, "space")
        /\ UNCHANGED <<config, cursors, memory, closer, counters, parking, cur, victim,
                       consumer, history>>

(* The length that p is about to reserve. *)
Need(p) == IF padding[p] THEN Capacity - Off(pos[p]) ELSE total[p]

(* Mutant: the consume cursor is not looked at. *)
SpaceUnchecked(p) == TRUE

lf_space_ok(p) == pos[p] + Need(p) <= deq + Capacity

SpaceOk(p) ==
    /\ At(p, "space")
    /\ lf_space_ok(p)
    /\ Goto(p, "reserve")
    /\ UNCHANGED <<config, cursors, memory, closer, counters, parking, producer,
                   consumer, history>>

SpaceNone(p) ==
    /\ At(p, "space")
    /\ ~lf_space_ok(p)
    /\ \/ policy = Overwrite /\ Goto(p, "evict") /\ UNCHANGED <<dropped, status, producer>>
       \/ policy # Overwrite /\ Goto(p, "idle") /\ Refused(cur[p]) /\ PutReturn(p)
    /\ UNCHANGED <<config, cursors, memory, closer, overwritten, parking, consumer,
                   delivered>>

(* lf_overwrite_make_space: until the range fits, invalidate the oldest    *)
(* record and move deq over it, unless the consumer did so first.  A pad   *)
(* then reserves at once, a record starts again from enq.                  *)
EvictLoad(p) ==
    /\ At(p, "evict")
    /\ \/ lf_space_ok(p) /\ padding[p] /\ Goto(p, "reserve") /\ UNCHANGED producer
       \/ lf_space_ok(p) /\ ~padding[p] /\ PutAgain(p)
       \/ /\ ~lf_space_ok(p)
          /\ Goto(p, "evict_mark")
          /\ victim' = [victim EXCEPT ![p] = deq]
          /\ UNCHANGED <<cur, pos, total, padding>>
    /\ UNCHANGED <<config, cursors, memory, closer, counters, parking, consumer, history>>

EvictMark(p) ==
    /\ At(p, "evict_mark")
    /\ commit' = [commit EXCEPT ![Off(victim[p])] = 0]
    /\ Goto(p, "evict_cas")
    /\ UNCHANGED <<config, cursors, image, closer, counters, parking, producer, consumer,
                   history>>

EvictCas(p) ==
    LET old == image[Off(victim[p])]
        wins == deq = victim[p]
    IN  /\ At(p, "evict_cas")
        /\ deq' = IF wins THEN victim[p] + old.total_len ELSE deq
        /\ IF wins /\ ~old.pad
           THEN overwritten' = overwritten + 1 /\ status' = [status EXCEPT ![old.msg] = "evicted"]
           ELSE UNCHANGED <<overwritten, status>>
        /\ Goto(p, "evict")
        /\ UNCHANGED <<config, enq, memory, closer, dropped, parking, producer, consumer,
                       delivered>>

(* Mutants: reserve without comparing; try the same position again. *)
ReserveBlindly(p) ==
    /\ At(p, "reserve")
    /\ enq' = pos[p] + Need(p)
    /\ status' = IF padding[p] THEN status ELSE [status EXCEPT ![cur[p]] = "queued"]
    /\ Goto(p, "invalidate")
    /\ UNCHANGED <<config, deq, memory, closer, counters, parking, producer, consumer,
                   delivered>>

ReserveStale(p) ==
    /\ At(p, "reserve")
    /\ \/ ReserveBlindly(p) /\ enq = pos[p]
       \/ enq # pos[p] /\ UNCHANGED vars

(* The range is p's from the moment enq has passed it. *)
Reserve(p) ==
    /\ At(p, "reserve")
    /\ \/ /\ ~lf_enq_contended \/ enq = pos[p]
          /\ enq' = pos[p] + Need(p)
          /\ status' = IF padding[p] THEN status ELSE [status EXCEPT ![cur[p]] = "queued"]
          /\ Goto(p, "invalidate")
          /\ UNCHANGED producer
       \/ /\ lf_enq_contended /\ enq # pos[p]
          /\ PutAgain(p)
          /\ UNCHANGED <<enq, status>>
    /\ UNCHANGED <<config, deq, memory, closer, counters, parking, consumer, delivered>>

(* lf_write_record *)
Invalidate(p) ==
    /\ At(p, "invalidate")
    /\ commit' = [commit EXCEPT ![Off(pos[p])] = 0]
    /\ Goto(p, "fill")
    /\ UNCHANGED <<config, cursors, image, closer, counters, parking, producer, consumer,
                   history>>

(* A pad fills in its header only. *)
Written(p) ==
    LET len == IF padding[p] THEN MinPad ELSE RecordLen[cur[p]]
    IN  Off(pos[p]) .. Off(pos[p]) + len - 1

Fill(p) ==
    LET new == [pos |-> pos[p], total_len |-> Need(p), pad |-> padding[p],
                msg |-> IF padding[p] THEN NoMsg ELSE cur[p]]
    IN  /\ At(p, "fill")
        /\ image' = [o \in Offsets |-> IF o \in Written(p) THEN new ELSE image[o]]
        /\ commit' = [o \in Offsets |->
                        IF o \in Written(p) \ {Off(pos[p])} THEN Junk ELSE commit[o]]
        /\ Goto(p, "publish")
        /\ UNCHANGED <<config, cursors, closer, counters, parking, producer, consumer,
                       history>>

Publish(p) ==
    /\ At(p, "publish")
    /\ commit' = [commit EXCEPT ![Off(pos[p])] = pos[p] + 1]
    /\ \/ padding[p] /\ PutAgain(p)
       \/ ~padding[p] /\ Goto(p, "kick") /\ UNCHANGED producer
    /\ UNCHANGED <<config, cursors, image, closer, counters, parking, consumer, history>>

(* lf_kick: look whether somebody announced itself; then wake everybody.   *)
PutKick(p) ==
    /\ At(p, "kick")
    /\ \/ consumer_waiting # 0 /\ Goto(p, "broadcast") /\ UNCHANGED producer
       \/ consumer_waiting = 0 /\ Goto(p, "idle") /\ PutReturn(p)
    /\ UNCHANGED <<config, cursors, memory, closer, counters, parking, consumer, history>>

(* The sleepers of r->kick go for the mutex, the caller moves on. *)
Broadcast(t, l) ==
    /\ kick_mu = NoThread
    /\ kick' = {}
    /\ pc' = [u \in Threads |-> IF u = t THEN l ELSE IF u \in kick THEN "relock" ELSE pc[u]]

PutBroadcast(p) ==
    /\ At(p, "broadcast")
    /\ Broadcast(p, "idle")
    /\ PutReturn(p)
    /\ UNCHANGED <<config, cursors, memory, closer, counters, kick_mu, consumer_waiting,
                   consumer, history>>

-----------------------------------------------------------------------------
(* hpu_ring_get *)

(* A step that only looks, and one that starts the loop in get again or    *)
(* returns: its locals end.                                                *)
Look(c, l) ==
    /\ Goto(c, l)
    /\ UNCHANGED <<config, cursors, memory, closer, counters, parking, producer, consumer,
                   history>>

TurnOver(c, l) ==
    /\ Goto(c, l)
    /\ at' = [at EXCEPT ![c] = 0]
    /\ view' = [view EXCEPT ![c] = <<>>]

LookOver(c, l) ==
    /\ TurnOver(c, l)
    /\ UNCHANGED <<config, cursors, memory, closer, counters, parking, producer, history>>

GetCall(c) == At(c, "idle") /\ MayGet(c) /\ Look(c, "cursors")

(* deq, then enq.  Whatever happens between the two loads can only make a  *)
(* stale deq look less than enq, which the freshness check below sends     *)
(* back here; so they count as one step.                                   *)
LoadCursors(c) ==
    /\ At(c, "cursors")
    /\ \/ deq >= enq /\ Look(c, "nothing")
       \/ /\ deq < enq
          /\ at' = [at EXCEPT ![c] = deq]
          /\ Goto(c, "fresh")
          /\ UNCHANGED <<config, cursors, memory, closer, counters, parking, producer, view,
                         history>>

(* lf_wait_commit: is the cursor still good, and what does the commit word *)
(* say?  Junk may look like any number, in the looks of JunkMayMatch also  *)
(* like the marker.                                                        *)
Fresh(c) ==
    /\ At(c, "fresh")
    /\ IF deq = at[c] THEN Look(c, "marker") ELSE LookOver(c, "cursors")

Marker(c) == commit[Off(at[c])]
IsMarker(c) == Marker(c) = at[c] + 1 \/ (Marker(c) = Junk /\ pc[c] \in JunkMayMatch)
IsLess(c) == IF Marker(c) = Junk THEN TRUE ELSE Marker(c) < at[c] + 1
IsMore(c) == IF Marker(c) = Junk THEN TRUE ELSE Marker(c) > at[c] + 1

MarkerFound(c) ==
    /\ At(c, "marker")
    /\ IsMarker(c)
    /\ Look(c, IF mode = MPMC THEN "fresh_again" ELSE "header")

(* Another consumer's lease: start again. *)
MarkerTaken(c) == At(c, "marker") /\ IsMore(c) /\ LookOver(c, "cursors")

(* Not published yet: look again, or give up at the deadline. *)
MarkerMissing(c) ==
    /\ At(c, "marker")
    /\ IsLess(c)
    /\ Look(c, "fresh") \/ LookOver(c, "idle")

(* MPMC: the second freshness check, then the claim through the commit     *)
(* word.                                                                   *)
FreshAgain(c) ==
    /\ At(c, "fresh_again")
    /\ IF deq = at[c] THEN Look(c, "claim") ELSE LookOver(c, "cursors")

(* Mutant: the lease is stored, not compared and swapped. *)
ClaimBlindly(c) ==
    /\ At(c, "claim")
    /\ commit' = [commit EXCEPT ![Off(at[c])] = at[c] + 2]
    /\ Goto(c, "header")
    /\ UNCHANGED <<config, cursors, image, closer, counters, parking, producer, consumer,
                   history>>

ClaimWins(c) ==
    /\ At(c, "claim")
    /\ IsMarker(c)
    /\ commit' = [commit EXCEPT ![Off(at[c])] = at[c] + 2]
    /\ Goto(c, "header")
    /\ UNCHANGED <<config, cursors, image, closer, counters, parking, producer, consumer,
                   history>>

ClaimLoses(c) == At(c, "claim") /\ Marker(c) # at[c] + 1 /\ LookOver(c, "cursors")

(* Read the header: a pad is skipped, a record copied.  Behind a stale     *)
(* cursor there may be no header.  A single consumer finds that out, at    *)
(* once or after the copy, and starts again; with a lease it is taken for  *)
(* impossible, and the cursor moved by a header.                           *)
Header(c) == image[Off(at[c])]
HeaderThere(c) == Header(c).total_len # 0 /\ Off(Header(c).pos) = Off(at[c])

ReadHeader(c) ==
    /\ At(c, "header")
    /\ HeaderThere(c)
    /\ view' = [view EXCEPT ![c] = <<Header(c)>>]
    /\ Goto(c, IF Header(c).pad THEN "advance" ELSE "copy")
    /\ UNCHANGED <<config, cursors, memory, closer, counters, parking, producer, at, history>>

ReadNoHeader(c) ==
    /\ At(c, "header")
    /\ ~HeaderThere(c)
    /\ deq' = IF mode = MPMC /\ deq = at[c] THEN deq + MinPad ELSE deq
    /\ TurnOver(c, "cursors")
    /\ UNCHANGED <<config, enq, memory, closer, counters, parking, producer, history>>

(* The copy ends with the last word of the record announced. *)
LastWord(c) == (Off(at[c]) + RecordLen[view[c][1].msg] - 1) % Capacity

Copy(c) ==
    /\ At(c, "copy")
    /\ view' = [view EXCEPT ![c] = Append(@, image[LastWord(c)])]
    /\ Goto(c, IF mode = MPMC THEN "advance" ELSE "revalidate")
    /\ UNCHANGED <<config, cursors, memory, closer, counters, parking, producer, at, history>>

(* Mutant: the copy is trusted. *)
TrustCopy(c) == At(c, "revalidate") /\ Look(c, "advance")

(* Single consumer: the marker must still be there after the copy. *)
Revalidate(c) ==
    /\ At(c, "revalidate")
    /\ \/ IsMarker(c) /\ Look(c, "advance")
       \/ Marker(c) # at[c] + 1 /\ LookOver(c, "cursors")

(* lf_advance_deq, and the return with the copied record.  Nobody looks at *)
(* the result for a pad, nor for a leased record.                          *)
Advance(c) ==
    LET h == view[c][1]
        wins == ~lf_deq_contended \/ deq = at[c]
        returns == ~h.pad /\ (wins \/ mode = MPMC)
    IN  /\ At(c, "advance")
        /\ deq' = IF wins THEN at[c] + h.total_len ELSE deq
        /\ delivered' = IF returns THEN Append(delivered, h.msg) ELSE delivered
        /\ status' = IF returns THEN [status EXCEPT ![h.msg] = "got"] ELSE status
        /\ TurnOver(c, IF returns THEN "idle" ELSE "cursors")
        /\ UNCHANGED <<config, enq, memory, closer, counters, parking, producer>>

(* The ring looked empty: return, or park in lf_wait.  Closed, a timeout   *)
(* of 0 and a deadline that passed all return.                             *)
GetEmpty(c) == At(c, "nothing") /\ Look(c, "idle")

GetPark(c) == At(c, "nothing") /\ ~closed /\ Look(c, "park")

Announce(c) ==
    /\ At(c, "park")
    /\ kick_mu = NoThread
    /\ kick_mu' = c
    /\ consumer_waiting' = consumer_waiting + 1
    /\ Goto(c, "recheck")
    /\ UNCHANGED <<config, cursors, memory, closer, counters, kick, producer, consumer,
                   history>>

(* Mutant: asleep without a second look at the cursors. *)
SleepAtOnce(c) ==
    /\ At(c, "recheck")
    /\ kick' = kick \cup {c}
    /\ kick_mu' = NoThread
    /\ Goto(c, "asleep")
    /\ UNCHANGED <<config, cursors, memory, closer, counters, consumer_waiting, producer,
                   consumer, history>>

(* Under the mutex look at the cursors again; the wait releases it.        *)
Recheck(c) ==
    /\ At(c, "recheck")
    /\ \/ /\ deq >= enq
          /\ kick' = kick \cup {c}
          /\ kick_mu' = NoThread
          /\ Goto(c, "asleep")
       \/ deq < enq /\ Goto(c, "unpark") /\ UNCHANGED <<kick, kick_mu>>
    /\ UNCHANGED <<config, cursors, memory, closer, counters, consumer_waiting, producer,
                   consumer, history>>

(* The timed wait ends by itself. *)
Timeout(c) ==
    /\ At(c, "asleep")
    /\ kick' = kick \ {c}
    /\ Goto(c, "relock")
    /\ UNCHANGED <<config, cursors, memory, closer, counters, kick_mu, consumer_waiting,
                   producer, consumer, history>>

Relock(c) ==
    /\ At(c, "relock")
    /\ kick_mu = NoThread
    /\ kick_mu' = c
    /\ Goto(c, "unpark")
    /\ UNCHANGED <<config, cursors, memory, closer, counters, consumer_waiting, kick,
                   producer, consumer, history>>

Unpark(c) ==
    /\ At(c, "unpark")
    /\ consumer_waiting' = consumer_waiting - 1
    /\ kick_mu' = NoThread
    /\ Goto(c, "cursors")
    /\ UNCHANGED <<config, cursors, memory, closer, counters, kick, producer, consumer,
                   history>>

-----------------------------------------------------------------------------
(* hpu_ring_kick_consumer, and hpu_ring_close with its own look at the     *)
(* waiting counter.                                                        *)
WakeAll ==
    /\ kick_mu = NoThread
    /\ kick' = {}
    /\ pc' = [u \in Threads |-> IF u \in kick THEN "relock" ELSE pc[u]]

KickConsumer ==
    /\ consumer_waiting # 0
    /\ WakeAll
    /\ UNCHANGED <<config, cursors, memory, closer, counters, kick_mu, consumer_waiting,
                   producer, consumer, history>>

Close ==
    /\ closer = "open"
    /\ closer' = "kick"
    /\ UNCHANGED <<config, cursors, memory, counters, parking, pc, producer, consumer,
                   history>>

CloseKick ==
    /\ closer = "kick"
    /\ closer' = IF consumer_waiting # 0 THEN "broadcast" ELSE "done"
    /\ UNCHANGED <<config, cursors, memory, counters, parking, pc, producer, consumer,
                   history>>

CloseBroadcast ==
    /\ closer = "broadcast"
    /\ closer' = "done"
    /\ WakeAll
    /\ UNCHANGED <<config, cursors, memory, counters, kick_mu, consumer_waiting, producer,
                   consumer, history>>

-----------------------------------------------------------------------------
PutStep(p) ==
    \/ LoadEnq(p) \/ SpaceOk(p) \/ SpaceNone(p)
    \/ EvictLoad(p) \/ EvictMark(p) \/ EvictCas(p)
    \/ Reserve(p) \/ Invalidate(p) \/ Fill(p) \/ Publish(p)
    \/ PutKick(p) \/ PutBroadcast(p)

GetStep(c) ==
    \/ LoadCursors(c) \/ Fresh(c) \/ MarkerFound(c) \/ MarkerTaken(c) \/ MarkerMissing(c)
    \/ FreshAgain(c) \/ ClaimWins(c) \/ ClaimLoses(c)
    \/ ReadHeader(c) \/ ReadNoHeader(c) \/ Copy(c) \/ Revalidate(c) \/ Advance(c)
    \/ GetEmpty(c) \/ GetPark(c) \/ Announce(c) \/ Recheck(c) \/ Relock(c) \/ Unpark(c)

CloseStep == CloseKick \/ CloseBroadcast

Next ==
    \/ \E p \in Producers : (\E m \in Msgs : PutCall(p, m)) \/ PutStep(p)
    \/ \E c \in Consumers : GetCall(c) \/ GetStep(c) \/ Timeout(c)
    \/ KickConsumer
    \/ Close
    \/ CloseStep

SafetySpec == Init /\ [][Next]_vars

(* A consumer takes a word that was never stored as a commit word for the  *)
(* marker it looks for: payload or an old header in a range that is        *)
(* reserved and not yet invalidated, or at a cursor that is stale by the   *)
(* time of the claim.  Nothing in the code rules this out; a word does it  *)
(* that happens to equal the position plus one.                            *)
MistakesJunk ==
    \E c \in Consumers :
        /\ Marker(c) = Junk
        /\ MarkerFound(c) \/ ClaimWins(c) \/ (Revalidate(c) /\ pc'[c] = "advance")

NothingMistaken == [][~MistakesJunk]_vars

(* Threads inside put, get and close run on and get the mutex in the end;  *)
(* consumers call get again.  Nobody has to put or to close, and no timed  *)
(* wait has to end: the wake-ups of put are relied on.                     *)
Fairness ==
    /\ \A p \in Producers : SF_vars(PutStep(p))
    /\ \A c \in Consumers : SF_vars(GetStep(c) \/ GetCall(c))

Spec == SafetySpec /\ Fairness

-----------------------------------------------------------------------------
(* Properties *)

TypeOK ==
    /\ mode \in Modes /\ policy \in {Discard, Overwrite}
    /\ enq \in Nat /\ deq \in Nat
    /\ commit \in [Offsets -> Nat \cup {Junk}]
    /\ image \in [Offsets -> [pos : Nat, total_len : Nat, pad : BOOLEAN, msg : Msgs \cup {NoMsg}]]
    /\ closer \in {"open", "kick", "broadcast", "done"}
    /\ dropped \in Nat /\ overwritten \in Nat
    /\ kick_mu \in Consumers \cup {NoThread}
    /\ consumer_waiting \in Nat
    /\ kick \subseteq Consumers
    /\ cur \in [Producers -> Msgs \cup {NoMsg}]
    /\ pos \in [Producers -> Nat] /\ total \in [Producers -> Nat]
    /\ padding \in [Producers -> BOOLEAN]
    /\ victim \in [Producers -> Nat]
    /\ at \in [Consumers -> Nat]
    /\ delivered \in Seq(Msgs)

(* Producers that own a range which is not published yet. *)
Filling == {p \in Producers : pc[p] \in {"invalidate", "fill"}}

(* Where records and pads start between the cursors. *)
Live ==
    {q \in deq .. enq - 1 : image[Off(q)].pos = q /\ image[Off(q)].total_len # 0}
        \cup {pos[p] : p \in Filling}

EndOf(q) ==
    IF \E p \in Filling : pos[p] = q
    THEN q + Need(CHOOSE p \in Filling : pos[p] = q)
    ELSE q + image[Off(q)].total_len

(* The cursors delimit whole records: deq stands at one, each ends where   *)
(* the next starts, the last at enq; none straddles the end of memory, a   *)
(* pad always fits, and nothing reserved was given out twice.              *)
RingChain ==
    /\ deq <= enq /\ enq <= deq + Capacity
    /\ MinPad <= Capacity - Off(enq)
    /\ deq = enq \/ deq \in Live
    /\ \A q \in Live : /\ EndOf(q) = enq \/ EndOf(q) \in Live
                       /\ Off(q) + EndOf(q) - q <= Capacity
                       /\ \A r \in Live : q < r => EndOf(q) <= r

(* A marker tells the truth: a commit word that says that the record at a  *)
(* live position is published is found in front of that very record, all   *)
(* of whose words are in place.                                            *)
MarkersTruthful ==
    \A q \in deq .. enq - 1 :
        commit[Off(q)] \in {q + 1, q + 2} =>
            LET h == image[Off(q)]
            IN  /\ h.pos = q /\ h.total_len # 0
                /\ ~h.pad => \A i \in 0 .. RecordLen[h.msg] - 1 : image[Off(q) + i] = h

(* The lease of a multi-consumer build: whoever is past the claim stands   *)
(* at deq, in front of a record that is published and claimed; so it is    *)
(* alone, no producer reuses the memory, and moving deq "cannot fail".     *)
LeaseHoldsCursor ==
    \A c \in Consumers :
        mode = MPMC /\ pc[c] \in {"header", "copy", "advance"} =>
            /\ at[c] = deq
            /\ deq < enq /\ commit[Off(deq)] = deq + 2
            /\ image[Off(deq)].pos = deq
            /\ \A b \in Consumers \ {c} :
                  pc[b] \in {"header", "copy", "advance"} => at[b] # at[c]

(* Markers, leases and types of the lock-free protocol hold together. *)
ProtocolSound == TypeOK /\ MarkersTruthful /\ LeaseHoldsCursor

(* What get returns is one record, the one at its cursor, from its first   *)
(* word to its last, also when a producer laps the consumer during the     *)
(* copy.                                                                   *)
CopiesIntact ==
    \A c \in Consumers :
        pc[c] = "advance" /\ ~view[c][1].pad =>
            /\ view[c][1].pos = at[c]
            /\ view[c][2] = view[c][1]

(* An accepted record is in the ring until get returns it or it is counted *)
(* as overwritten.                                                         *)
UnreadAt == {q \in Live \ {pos[p] : p \in Filling} : ~image[Off(q)].pad}
Unread == {image[Off(q)].msg : q \in UnreadAt} \cup {cur[p] : p \in {r \in Filling : ~padding[r]}}

NothingLost == Unread = {m \in Msgs : status[m] = "queued"}

(* Records neither vanish in the ring nor come out torn. *)
RecordsSafe == NothingLost /\ CopiesIntact

(* What the ring holds, oldest first, for RingContract: a record is in the *)
(* queue from its reservation until deq passes it; pads are not.           *)
WaitingAt == UnreadAt \cup {pos[p] : p \in {r \in Filling : ~padding[r]}}

MsgAt ==
    [q \in WaitingAt |->
        IF \E p \in Filling : pos[p] = q
        THEN cur[CHOOSE p \in Filling : pos[p] = q]
        ELSE image[Off(q)].msg]

(* The position of rank i in a set of positions. *)
Before(S, q) == {r \in S : r < q}

Nth(S, i) == CHOOSE q \in S : Cardinality(Before(S, q)) = i - 1

Waiting == [i \in 1 .. Cardinality(WaitingAt) |-> MsgAt[Nth(WaitingAt, i)]]

Contract == INSTANCE RingContract WITH queue <- Waiting, Wait <- NoThread

(* The one refusal that the contract does not know.  A length extended to  *)
(* the boundary for a reservation that then failed is kept for the next    *)
(* attempt: the producer, or another one whom its pad of that length       *)
(* leaves no room, may be refused although no record is in the ring.       *)
LongPad == \E q \in Live \ WaitingAt : 2 * (EndOf(q) - q) > Capacity

RefuseExtended ==
    /\ lf_enq_contended /\ policy = Discard /\ Waiting = <<>>
    /\ \E p \in Producers : SpaceNone(p) /\ (total[p] > RecordLen[cur[p]] \/ LongPad)
    /\ UNCHANGED Waiting

(* The lock-free ring implements the contract of ringbuf.h but for that:   *)
(* records leave in the order of their reservations, each once, and        *)
(* nothing is refused by an open ring without a record in it.              *)
ImplementsContract ==
    Contract!Init /\ [][Contract!Next \/ RefuseExtended]_(Contract!vars)

(* Every put returns and every accepted record leaves the ring, without    *)
(* the help of a timed wait.                                               *)
EveryPutReturns == \A p \in Producers : (pc[p] # "idle") ~> (pc[p] = "idle")
EveryRecordLeaves ==
    \A m \in Msgs : (status[m] = "queued") ~> (status[m] \in {"got", "evicted"})

(* ringbuf_lockfree.c, on the lease: "a successful CAS can never land      *)
(* inside a reused record's payload after a wrap", for the cursor was      *)
(* fresh when it was last looked at.                                       *)
NeverClaimsPayload ==
    [][\A c \in Consumers :
          ClaimWins(c) /\ Marker(c) = Junk => image[Off(at[c])].pos <= at[c]]_vars
=============================================================================
