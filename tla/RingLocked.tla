----------------------------- MODULE RingLocked -----------------------------
(***************************************************************************)
(* The locked byte ring, src/ring/ringbuf_locked.c (the default build).    *)
(*                                                                         *)
(* One mutex guards everything; put and get loop under it and give it up   *)
(* only in a condition wait or on return.  Each pass through a loop is one *)
(* action of the thread that holds the mutex.  Lengths and positions count *)
(* 8-byte words: capacity and every record length are multiples of 8.      *)
(*                                                                         *)
(* Each word of ring memory remembers which write put it there, which is   *)
(* what makes a clobbered record visible: a header or a payload word that  *)
(* belongs to another logical position.                                    *)
(***************************************************************************)
EXTENDS Integers, Sequences, FiniteSets

CONSTANTS Producers, Consumers,   \* threads calling put and get
          Msgs,                   \* records, each put at most once
          RecordLen,              \* record_len of each record, in words
          Capacity,               \* ring size in words
          MinPad,                 \* words of a record header
          NoThread, NoMsg,
          Discard, Overwrite, Wait

Threads == Producers \cup Consumers

Policies == {Discard, Overwrite, Wait}

ASSUME ThreadAssumption ==
    /\ Producers \cap Consumers = {}
    /\ NoThread \notin Threads

ASSUME MsgAssumption == IsFiniteSet(Msgs) /\ NoMsg \notin Msgs

ASSUME PolicyAssumption ==
    Discard # Overwrite /\ Overwrite # Wait /\ Discard # Wait

(* ringbuf.h: the capacity is at least twice the largest record.  A header *)
(* is not empty and every record contains one.                             *)
ASSUME SizeAssumption ==
    /\ Capacity \in Nat
    /\ MinPad \in Nat \ {0}
    /\ RecordLen \in [Msgs -> Nat]
    /\ 2 * MinPad <= Capacity
    /\ \A m \in Msgs : MinPad <= RecordLen[m] /\ 2 * RecordLen[m] <= Capacity

VARIABLES policy,       \* r->policy
          mu,           \* holder of r->mu, or NoThread
          buf,          \* ring memory, a header image per word
          head, tail,   \* monotonic cursors
          dropped, overwritten, closed,
          not_empty,    \* threads asleep on the condition variables
          not_full,
          pc,           \* where each thread is
          cur,          \* the record each producer is putting
          status,       \* history: what became of each record
          delivered     \* history: records returned by get, in order

ring == <<buf, head, tail>>
counters == <<dropped, overwritten>>
conds == <<not_empty, not_full>>
vars == <<policy, mu, ring, counters, closed, conds, pc, cur, status, delivered>>

Offsets == 0 .. Capacity - 1

Headers == [pos : Nat, total_len : Nat, pad : BOOLEAN, msg : Msgs \cup {NoMsg}]

(* Memory the ring has not written yet: malloc contents, no live position. *)
Blank == [pos |-> 0, total_len |-> 0, pad |-> FALSE, msg |-> NoMsg]

Statuses == {"new", "putting", "queued", "dropped", "evicted", "got"}

Init ==
    /\ policy \in Policies
    /\ mu = NoThread
    /\ buf = [o \in Offsets |-> Blank]
    /\ head = 0
    /\ tail = 0
    /\ dropped = 0
    /\ overwritten = 0
    /\ closed = FALSE
    /\ not_empty = {}
    /\ not_full = {}
    /\ pc = [t \in Threads |-> "idle"]
    /\ cur = [p \in Producers |-> NoMsg]
    /\ status = [m \in Msgs |-> "new"]
    /\ delivered = <<>>

-----------------------------------------------------------------------------
(* Ring memory. *)

used == tail - head
free_bytes == Capacity - used

(* Cursors never wrap; the offset of a position in memory does. *)
Off(pos) == pos % Capacity

contig == Capacity - Off(tail)

HeaderAt(pos) == buf[Off(pos)]

(* Store n words of one record starting at a physical offset. *)
Store(off, n, image) ==
    [o \in Offsets |-> IF off <= o /\ o < off + n THEN image ELSE buf[o]]

(* write_record writes header and payload; a record extended to the        *)
(* boundary only announces the longer length.                              *)
write_record(m, total) ==
    buf' = Store(Off(tail), RecordLen[m],
                 [pos |-> tail, total_len |-> total, pad |-> FALSE, msg |-> m])

(* write_pad writes a header only. *)
write_pad ==
    buf' = Store(Off(tail), MinPad,
                 [pos |-> tail, total_len |-> contig, pad |-> TRUE, msg |-> NoMsg])

(* A gap too small for a pad header is given to the record before it. *)
ExtendedLen(m) ==
    IF contig - RecordLen[m] < MinPad THEN contig ELSE RecordLen[m]

-----------------------------------------------------------------------------
(* The mutex and the condition variables (src/platform/hpu_sync.h). *)

Goto(t, at) == pc' = [pc EXCEPT ![t] = at]

(* Threads that a condition variable let go compete for the mutex again. *)
Wake(ts) == pc' = [t \in Threads |-> IF t \in ts THEN "relock" ELSE pc[t]]

(* Mutant: put forgets hpu_cond_signal. *)
NoSignal(t, at) == Goto(t, at) /\ UNCHANGED not_empty

(* hpu_cond_signal(not_empty) while thread t goes on at "at". *)
SignalNotEmpty(t, at) ==
    \/ /\ not_empty = {}
       /\ Goto(t, at)
       /\ UNCHANGED not_empty
    \/ \E w \in not_empty :
          /\ not_empty' = not_empty \ {w}
          /\ pc' = [pc EXCEPT ![t] = at, ![w] = "relock"]

(* Mutant: get forgets hpu_cond_broadcast. *)
NoBroadcast(t, at) == Goto(t, at) /\ UNCHANGED not_full

(* hpu_cond_broadcast(not_full) while thread t goes on at "at". *)
BroadcastNotFull(t, at) ==
    /\ not_full' = {}
    /\ pc' = [u \in Threads |-> IF u = t THEN at
                                ELSE IF u \in not_full THEN "relock"
                                ELSE pc[u]]

(* The mutex is taken back after a condition wait. *)
Relock(t) ==
    /\ pc[t] = "relock"
    /\ mu = NoThread
    /\ mu' = t
    /\ Goto(t, IF t \in Producers THEN "put" ELSE "get")
    /\ UNCHANGED <<policy, ring, counters, closed, conds, cur, status, delivered>>

-----------------------------------------------------------------------------
(* hpu_ring_put *)

Putting(p) == pc[p] = "put" /\ mu = p

PutCall(p, m) ==
    /\ pc[p] = "idle"
    /\ mu = NoThread
    /\ status[m] = "new"
    /\ mu' = p
    /\ Goto(p, "put")
    /\ cur' = [cur EXCEPT ![p] = m]
    /\ status' = [status EXCEPT ![m] = "putting"]
    /\ UNCHANGED <<policy, ring, counters, closed, conds, delivered>>

(* Mutant: the free space is not looked at. *)
FitsUnchecked(p) == contig >= RecordLen[cur[p]]

PadFirst(p) == contig < RecordLen[cur[p]] /\ free_bytes >= contig
Fits(p) == contig >= RecordLen[cur[p]] /\ free_bytes >= RecordLen[cur[p]]
Full(p) == ~PadFirst(p) /\ ~Fits(p)

(* Return from put with the outcome of the record. *)
PutReturn(p, outcome) ==
    /\ mu' = NoThread
    /\ cur' = [cur EXCEPT ![p] = NoMsg]
    /\ status' = [status EXCEPT ![cur[p]] = outcome]

(* Mutant: a full ring refuses whatever the policy. *)
PutRefuseAlways(p) ==
    /\ Putting(p)
    /\ closed \/ Full(p)
    /\ dropped' = dropped + 1
    /\ PutReturn(p, "dropped")
    /\ Goto(p, "idle")
    /\ UNCHANGED <<policy, ring, overwritten, closed, conds, delivered>>

PutRefuse(p) ==
    /\ Putting(p)
    /\ closed \/ (Full(p) /\ policy = Discard)
    /\ dropped' = dropped + 1
    /\ PutReturn(p, "dropped")
    /\ Goto(p, "idle")
    /\ UNCHANGED <<policy, ring, overwritten, closed, conds, delivered>>

PutPad(p) ==
    /\ Putting(p)
    /\ ~closed
    /\ PadFirst(p)
    /\ write_pad
    /\ tail' = tail + contig
    /\ SignalNotEmpty(p, "put")
    /\ UNCHANGED <<policy, mu, head, counters, closed, not_full, cur, status, delivered>>

PutRecord(p) ==
    /\ Putting(p)
    /\ ~closed
    /\ Fits(p)
    /\ write_record(cur[p], ExtendedLen(cur[p]))
    /\ tail' = tail + ExtendedLen(cur[p])
    /\ PutReturn(p, "queued")
    /\ SignalNotEmpty(p, "idle")
    /\ UNCHANGED <<policy, head, counters, closed, not_full, delivered>>

(* The inner loop of the overwrite policy: one old record per step, until  *)
(* the whole record would fit.                                             *)
EvictOldest(p) ==
    /\ mu = p
    /\ \/ pc[p] = "put" /\ ~closed /\ Full(p) /\ policy = Overwrite
       \/ pc[p] = "evict"
    /\ free_bytes < RecordLen[cur[p]]
    /\ head' = head + HeaderAt(head).total_len
    /\ IF HeaderAt(head).pad
       THEN UNCHANGED <<overwritten, status>>
       ELSE /\ overwritten' = overwritten + 1
            /\ status' = [status EXCEPT ![HeaderAt(head).msg] = "evicted"]
    /\ Goto(p, "evict")
    /\ UNCHANGED <<policy, mu, buf, tail, dropped, closed, conds, cur, delivered>>

(* After the inner loop: signal not_empty, broadcast not_full, try again. *)
EvictDone(p) ==
    /\ mu = p
    /\ pc[p] = "evict"
    /\ free_bytes >= RecordLen[cur[p]]
    /\ \E woken \in IF not_empty = {} THEN {{}} ELSE {{w} : w \in not_empty} :
          /\ not_empty' = not_empty \ woken
          /\ not_full' = {}
          /\ pc' = [t \in Threads |-> IF t = p THEN "put"
                                      ELSE IF t \in woken \cup not_full THEN "relock"
                                      ELSE pc[t]]
    /\ UNCHANGED <<policy, mu, ring, counters, closed, cur, status, delivered>>

PutWait(p) ==
    /\ Putting(p)
    /\ ~closed
    /\ Full(p)
    /\ policy = Wait
    /\ mu' = NoThread
    /\ not_full' = not_full \cup {p}
    /\ Goto(p, "asleep")
    /\ UNCHANGED <<policy, ring, counters, closed, not_empty, cur, status, delivered>>

-----------------------------------------------------------------------------
(* hpu_ring_get.  The deadline may pass at any moment, and a call with a   *)
(* zero timeout only polls: both show as the choice between GetEmpty and   *)
(* GetWait on an empty open ring.                                          *)

Getting(c) == pc[c] = "get" /\ mu = c

GetCall(c) ==
    /\ pc[c] = "idle"
    /\ mu = NoThread
    /\ mu' = c
    /\ Goto(c, "get")
    /\ UNCHANGED <<policy, ring, counters, closed, conds, cur, status, delivered>>

GetSkipPad(c) ==
    /\ Getting(c)
    /\ head # tail
    /\ HeaderAt(head).pad
    /\ head' = head + HeaderAt(head).total_len
    /\ BroadcastNotFull(c, "get")
    /\ UNCHANGED <<policy, mu, buf, tail, counters, closed, not_empty, cur, status, delivered>>

(* The record is copied into the caller's staging area (always a full      *)
(* capacity long, consumer.c) before the cursor moves.                     *)
GetRecord(c) ==
    /\ Getting(c)
    /\ head # tail
    /\ ~HeaderAt(head).pad
    /\ head' = head + HeaderAt(head).total_len
    /\ delivered' = Append(delivered, HeaderAt(head).msg)
    /\ status' = [status EXCEPT ![HeaderAt(head).msg] = "got"]
    /\ mu' = NoThread
    /\ BroadcastNotFull(c, "idle")
    /\ UNCHANGED <<policy, buf, tail, counters, closed, not_empty, cur>>

GetEmpty(c) ==
    /\ Getting(c)
    /\ head = tail
    /\ mu' = NoThread
    /\ Goto(c, "idle")
    /\ UNCHANGED <<policy, ring, counters, closed, conds, cur, status, delivered>>

GetWait(c) ==
    /\ Getting(c)
    /\ head = tail
    /\ ~closed
    /\ mu' = NoThread
    /\ not_empty' = not_empty \cup {c}
    /\ Goto(c, "asleep")
    /\ UNCHANGED <<policy, ring, counters, closed, not_full, cur, status, delivered>>

(* hpu_cond_timedwait_ms runs out, or any wait ends without a signal, as   *)
(* condition variables may.                                                *)
Unwait(t) ==
    /\ t \in not_empty \cup not_full
    /\ not_empty' = not_empty \ {t}
    /\ not_full' = not_full \ {t}
    /\ Goto(t, "relock")
    /\ UNCHANGED <<policy, mu, ring, counters, closed, cur, status, delivered>>

-----------------------------------------------------------------------------
(* hpu_ring_kick_consumer and hpu_ring_close: short critical sections of   *)
(* the flushing or shutting-down thread.                                   *)

KickConsumer ==
    /\ mu = NoThread
    /\ not_empty # {}
    /\ not_empty' = {}
    /\ Wake(not_empty)
    /\ UNCHANGED <<policy, mu, ring, counters, closed, not_full, cur, status, delivered>>

Close ==
    /\ mu = NoThread
    /\ ~closed
    /\ closed' = TRUE
    /\ not_empty' = {}
    /\ not_full' = {}
    /\ Wake(not_empty \cup not_full)
    /\ UNCHANGED <<policy, mu, ring, counters, cur, status, delivered>>

-----------------------------------------------------------------------------
PutStep(p) ==
    \/ PutRefuse(p) \/ PutPad(p) \/ PutRecord(p)
    \/ EvictOldest(p) \/ EvictDone(p) \/ PutWait(p)

GetStep(c) ==
    \/ GetSkipPad(c) \/ GetRecord(c) \/ GetEmpty(c) \/ GetWait(c)

Next ==
    \/ \E p \in Producers : (\E m \in Msgs : PutCall(p, m)) \/ PutStep(p)
    \/ \E c \in Consumers : GetCall(c) \/ GetStep(c)
    \/ \E t \in Threads : Relock(t) \/ Unwait(t)
    \/ KickConsumer
    \/ Close

(* A thread inside put or get keeps running, and one that waits for the    *)
(* mutex gets it in the end although others compete for it.  Consumers     *)
(* call get for ever (consumer_loop); nobody has to put, kick or close,    *)
(* and no wait has to end by itself: only signals are relied on.           *)
Fairness ==
    /\ \A p \in Producers : WF_vars(PutStep(p)) /\ SF_vars(Relock(p))
    /\ \A c \in Consumers : /\ WF_vars(GetStep(c))
                            /\ SF_vars(Relock(c))
                            /\ SF_vars(GetCall(c))

SafetySpec == Init /\ [][Next]_vars

Spec == SafetySpec /\ Fairness
-----------------------------------------------------------------------------
(* Properties *)

TypeOK ==
    /\ policy \in Policies
    /\ mu \in Threads \cup {NoThread}
    /\ buf \in [Offsets -> Headers]
    /\ head \in Nat
    /\ tail \in Nat
    /\ dropped \in Nat
    /\ overwritten \in Nat
    /\ closed \in BOOLEAN
    /\ not_empty \subseteq Consumers
    /\ not_full \subseteq Producers
    /\ pc \in [Threads -> {"idle", "put", "evict", "get", "asleep", "relock"}]
    /\ cur \in [Producers -> Msgs \cup {NoMsg}]
    /\ status \in [Msgs -> Statuses]
    /\ delivered \in Seq(Msgs)

(* The positions between the cursors at which a record or pad starts: the  *)
(* header image there was written for that very position.                  *)
Live == {p \in head .. tail - 1 : HeaderAt(p).pos = p /\ HeaderAt(p).total_len # 0}

EndOf(p) == p + HeaderAt(p).total_len

(* Those that hold a record. *)
UnreadAt == {p \in Live : ~HeaderAt(p).pad}

(* From head, following total_len from header to header leads exactly to   *)
(* tail, every header on the way being one the ring wrote for that         *)
(* position; no record straddles the end of memory and no two overlap.     *)
(* read_record and the overwrite loop advance head by whatever total_len   *)
(* they find, so one wrong length would send the cursor into payload.      *)
RingChain ==
    /\ head <= tail /\ tail <= head + Capacity
    /\ head = tail \/ head \in Live
    /\ \A p \in Live :
          /\ EndOf(p) = tail \/ EndOf(p) \in Live
          /\ Off(p) + HeaderAt(p).total_len <= Capacity
          /\ \A q \in Live : p < q => EndOf(p) <= q

(* A pad header always fits between the tail and the end of memory: write  *)
(* never leaves a gap smaller than one behind it ("Padding is always at    *)
(* least min_pad"), or write_pad would run past the buffer.                *)
PadFits == MinPad <= contig

(* Every word of every unread record is still the word its producer wrote: *)
(* neither wrapping, padding, extension to the boundary nor overwriting    *)
(* ever touches a record that get may still return.                        *)
RecordsIntact ==
    \A p \in UnreadAt :
        \A i \in 0 .. RecordLen[HeaderAt(p).msg] - 1 :
            buf[Off(p) + i] = HeaderAt(p)

(* A record that put accepted, and that was neither returned by get nor    *)
(* counted as overwritten, is in the ring, once; and nothing else is.      *)
NothingLost ==
    /\ \A m \in Msgs : status[m] = "queued" <=> \E p \in UnreadAt : HeaderAt(p).msg = m
    /\ \A p, q \in UnreadAt : HeaderAt(p).msg = HeaderAt(q).msg => p = q

(* With consumers running, put returns: under the wait policy because      *)
(* space is freed and announced, at close because everybody is woken.      *)
EveryPutReturns == \A p \in Producers : (cur[p] # NoMsg) ~> (cur[p] = NoMsg)

(* Every accepted record is taken out of the ring again. *)
EveryRecordLeaves ==
    \A m \in Msgs : (status[m] = "queued") ~> (status[m] \in {"got", "evicted"})

-----------------------------------------------------------------------------
(* The ring as a queue: its unread records in the order of their positions. *)

Before(S, p) == {q \in S : q < p}

Nth(S, i) == CHOOSE p \in S : Cardinality(Before(S, p)) = i - 1

Unread == [i \in 1 .. Cardinality(UnreadAt) |-> HeaderAt(Nth(UnreadAt, i)).msg]

Contract == INSTANCE RingContract WITH queue <- Unread

(* The locked ring implements the contract of ringbuf.h: first in first    *)
(* out, nothing delivered twice, refusals and removals only as promised.   *)
ImplementsContract == Contract!Spec

-----------------------------------------------------------------------------
(* The inductive invariant behind the safety properties. *)

(* Who is where: the mutex has one holder, a thread that put or get is     *)
(* serving; a producer in put owns its record.                             *)
ThreadsOK ==
    /\ \A t \in Threads : pc[t] \in {"put", "evict", "get"} <=> mu = t
    /\ \A c \in Consumers : pc[c] \notin {"put", "evict"}
    /\ \A p \in Producers : pc[p] # "get"
    /\ \A p \in Producers : cur[p] = NoMsg <=> pc[p] = "idle"
    /\ \A p \in Producers : pc[p] # "idle" => status[cur[p]] = "putting"
    /\ \A p, q \in Producers : cur[p] = cur[q] /\ pc[p] # "idle" => p = q
    /\ \A t \in not_empty \cup not_full : pc[t] = "asleep"
    /\ policy # Wait => not_full = {}
    /\ \A p \in Producers : pc[p] = "evict" => policy = Overwrite /\ ~closed

(* Every live header announces at least what was stored behind it. *)
LiveHeaders ==
    \A p \in Live :
        /\ MinPad <= HeaderAt(p).total_len
        /\ ~HeaderAt(p).pad =>
              /\ HeaderAt(p).msg \in Msgs
              /\ RecordLen[HeaderAt(p).msg] <= HeaderAt(p).total_len

(* Memory holds nothing written for a position the tail has not reached,   *)
(* so no stale header is mistaken for the next one.                        *)
WrittenBefore == \A o \in Offsets : buf[o].total_len # 0 => buf[o].pos < tail

Inv ==
    /\ TypeOK
    /\ ThreadsOK
    /\ RingChain
    /\ PadFits
    /\ LiveHeaders
    /\ WrittenBefore
    /\ RecordsIntact
    /\ NothingLost
=============================================================================
