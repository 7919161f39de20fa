------------------------------ MODULE SinkQueue ------------------------------
(***************************************************************************)
(* The second-level queue of an asynchronous sink, src/output/sink_queue.c *)
(* with the parts of src/output/output.c that feed and close it.           *)
(*                                                                         *)
(* Producers pack events into a byte ring under a mutex and never wait;    *)
(* one worker copies everything that is queued into a linear sweep area,   *)
(* gives the space back at once, and decodes and emits from the copy       *)
(* without the mutex.  Each critical section is one action; so is each     *)
(* turn of the worker's decoding loop.  A length counts bytes; the header, *)
(* the bridge pad and the ring are small constants instead of 56, 4 and    *)
(* 64KB or more.                                                           *)
(*                                                                         *)
(* Every byte of memory remembers its event and its index in the packed    *)
(* record.                                                                 *)
(***************************************************************************)
EXTENDS Integers, Sequences, FiniteSets

CONSTANTS Events,       \* events delivered to the sink, each at most once
          PackedLen,    \* sq_packed_size of each event
          Cap,          \* q->cap
          Hdr,          \* SQ_HDR
          PadLen,       \* bytes of a wrap bridge pad
          BatchMax,     \* ctx->batch_max
          TimeoutMs,    \* drain_timeout_ms of hpu_output_close, in clock ticks
          Word,         \* 2^64: the deadline is computed modulo this
          MaxNow,       \* bound on the clock
          Pad, Unwritten

ASSUME QueueAssumption ==
    /\ Pad \notin Events /\ Unwritten \notin Events /\ Pad # Unwritten
    /\ Cap \in Nat /\ PadLen \in Nat \ {0} /\ Hdr \in Nat /\ BatchMax \in Nat \ {0}
    /\ PadLen < Hdr /\ Hdr <= Cap
    /\ PackedLen \in [Events -> Nat]
    /\ \A e \in Events : Hdr <= PackedLen[e]
    /\ TimeoutMs \in Nat /\ MaxNow \in Nat \ {0} /\ Word \in Nat
    /\ TimeoutMs < Word /\ MaxNow < Word

VARIABLES buf, head, tail,  \* the byte ring and its monotonic cursors
          stop,             \* q->stop
          wpc,              \* where the worker is
          sweep, off,       \* its linear copy and the decode offset
          batch,            \* decoded events not emitted yet
          st_written, st_dropped, st_failed,  \* the sink's statistics
          fate,             \* history: how far each event got
          closing,          \* where hpu_output_close is
          now, deadline     \* the clock and the end of its drain wait

queue == <<buf, head, tail>>
worker == <<wpc, sweep, off, batch>>
stats == <<st_written, st_dropped, st_failed>>
clock == <<now, deadline>>
vars == <<queue, stop, worker, stats, fate, closing, clock>>

Offsets == 0 .. Cap - 1

Cells == [ev : Events \cup {Pad, Unwritten}, i : Nat]

Fates == {"new", "dropped", "queued", "swept", "emitted", "failed"}

(* hpu_sink_queue_create, and the event states before anything happens. *)
Init ==
    /\ buf = [o \in Offsets |-> [ev |-> Unwritten, i |-> 0]]
    /\ head = 0
    /\ tail = 0
    /\ stop = FALSE
    /\ wpc = "wait"
    /\ sweep = <<>>
    /\ off = 0
    /\ batch = <<>>
    /\ st_written = 0
    /\ st_dropped = 0
    /\ st_failed = 0
    /\ fate = [e \in Events |-> "new"]
    /\ closing = "open"
    /\ now = 1
    /\ deadline = 0

-----------------------------------------------------------------------------
(* hpu_output_deliver and hpu_sink_queue_push *)

contig == Cap - (tail % Cap)
Free(t) == Cap - (t - head)

(* Near the end of memory a pad is written first, if the rest of the lap   *)
(* is free and the pad itself fits in it.                                  *)
NearEnd(e) == contig < PackedLen[e] + PadLen
PadBlocked(e) == NearEnd(e) /\ Free(tail) < contig
PadWritten(e) == NearEnd(e) /\ Free(tail) >= contig /\ contig >= PadLen

TailAfterPad(e) == IF PadWritten(e) THEN tail + PadLen ELSE tail

(* Mutant: the record may run past the end of memory. *)
FullWithoutWrapCheck(e) == PadBlocked(e) \/ Free(TailAfterPad(e)) < PackedLen[e]

(* The three ways to "full": the discarded event may leave a pad behind.   *)
Full(e) ==
    \/ PadBlocked(e)
    \/ Free(TailAfterPad(e)) < PackedLen[e]
    \/ (TailAfterPad(e) % Cap) + PackedLen[e] > Cap

Put(b, at, n, who) ==
    [o \in Offsets |-> IF at <= o /\ o < at + n THEN [ev |-> who, i |-> o - at] ELSE b[o]]

BufAfterPad(e) == IF PadWritten(e) THEN Put(buf, tail % Cap, PadLen, Pad) ELSE buf

(* Producers are gone before a sink is closed (its configuration snapshot  *)
(* is no longer reachable), so closing is a guard.                         *)
DeliverFull(e) ==
    /\ closing = "open"
    /\ fate[e] = "new"
    /\ Full(e)
    /\ buf' = BufAfterPad(e)
    /\ tail' = TailAfterPad(e)
    /\ fate' = [fate EXCEPT ![e] = "dropped"]
    /\ st_dropped' = st_dropped + 1
    /\ UNCHANGED <<head, stop, worker, st_written, st_failed, closing, clock>>

DeliverQueued(e) ==
    /\ closing = "open"
    /\ fate[e] = "new"
    /\ ~Full(e)
    /\ buf' = Put(BufAfterPad(e), TailAfterPad(e) % Cap, PackedLen[e], e)
    /\ tail' = TailAfterPad(e) + PackedLen[e]
    /\ fate' = [fate EXCEPT ![e] = "queued"]
    /\ st_written' = st_written + 1
    /\ UNCHANGED <<head, stop, worker, st_dropped, st_failed, closing, clock>>

-----------------------------------------------------------------------------
(* sq_worker_main *)

avail == tail - head

(* The two-part copy of the swept span into linear memory. *)
Linear == [k \in 1 .. avail |-> buf[(head + k - 1) % Cap]]

Queued == {e \in Events : fate[e] = "queued"}

(* One critical section: wait for data or stop, copy, free the space.      *)
Sweep ==
    /\ wpc = "wait"
    /\ ~stop
    /\ tail # head
    /\ sweep' = Linear
    /\ head' = head + avail
    /\ fate' = [e \in Events |-> IF e \in Queued THEN "swept" ELSE fate[e]]
    /\ wpc' = "decode"
    /\ off' = 0
    /\ batch' = <<>>
    /\ UNCHANGED <<buf, tail, stop, stats, closing, clock>>

(* With stop set the worker sweeps what is left and, finding the ring      *)
(* empty afterwards, exits.                                                *)
SweepAndExit ==
    /\ wpc = "wait"
    /\ stop
    /\ sweep' = Linear
    /\ head' = head + avail
    /\ fate' = [e \in Events |-> IF e \in Queued THEN "swept" ELSE fate[e]]
    /\ wpc' = "exited"
    /\ UNCHANGED <<buf, tail, stop, off, batch, stats, closing, clock>>

More == off + Hdr <= Len(sweep)
CellAt(k) == sweep[k + 1]

(* Mutant: the decoder does not know bridge pads (defect P-7). *)
NeverPad == FALSE

(* rec_len = 0: a wrap bridge pad. *)
AtPad == CellAt(off).ev = Pad /\ CellAt(off).i = 0

(* sq_decode finds a record: a length word and room for it. *)
AtRecord ==
    /\ CellAt(off).ev \in Events
    /\ CellAt(off).i = 0
    /\ off + PackedLen[CellAt(off).ev] <= Cap

Decoding == wpc = "decode" /\ Len(batch) < BatchMax /\ More

SkipPad ==
    /\ Decoding
    /\ AtPad
    /\ off' = off + PadLen
    /\ UNCHANGED <<queue, stop, wpc, sweep, batch, stats, fate, closing, clock>>

Decode ==
    /\ Decoding
    /\ AtRecord
    /\ batch' = Append(batch, CellAt(off).ev)
    /\ off' = off + PackedLen[CellAt(off).ev]
    /\ UNCHANGED <<queue, stop, wpc, sweep, stats, fate, closing, clock>>

(* The inner loop ends at a full batch, at the end of the sweep or at      *)
(* something that decodes as neither.                                      *)
BatchEnds ==
    /\ wpc = "decode"
    /\ ~(Decoding /\ (AtPad \/ AtRecord))

(* emit_batch returns how many events the sink took, or a negative value.  *)
Taken(done) == IF done < 0 THEN 0 ELSE done

(* Mutant: all of a batch that was taken in part. *)
UnsentAll(done) == Len(batch)

Unsent(done) == Len(batch) - Taken(done)

EmitBatch(done) ==
    /\ BatchEnds
    /\ batch # <<>>
    /\ done \in -1 .. Len(batch)
    /\ st_failed' = st_failed + Unsent(done)
    /\ fate' = [e \in Events |->
                   IF \E k \in 1 .. Taken(done) : batch[k] = e THEN "emitted"
                   ELSE IF \E k \in 1 .. Len(batch) : batch[k] = e THEN "failed"
                   ELSE fate[e]]
    /\ batch' = <<>>
    /\ UNCHANGED <<queue, stop, wpc, sweep, off, st_written, st_dropped, closing, clock>>

(* Mutant: back to waiting with a decoded batch in hand. *)
EndSweepEarly ==
    /\ BatchEnds
    /\ wpc' = "wait"
    /\ UNCHANGED <<queue, stop, sweep, off, batch, stats, fate, closing, clock>>

(* No more records in this sweep: the periodic flush, then the next one.   *)
EndSweep ==
    /\ BatchEnds
    /\ batch = <<>>
    /\ wpc' = "wait"
    /\ UNCHANGED <<queue, stop, sweep, off, batch, stats, fate, closing, clock>>

-----------------------------------------------------------------------------
(* hpu_output_close: hpu_sink_queue_flush_wait, then                       *)
(* hpu_sink_queue_destroy, which stops the worker and joins it.            *)

(* The deadline of the wait.  A timeout of 0 stands for "wait forever" and *)
(* is given the largest number, to which the current time is added.        *)
Deadline == (now + (IF TimeoutMs = 0 THEN Word - 1 ELSE TimeoutMs)) % Word

CloseBegin ==
    /\ closing = "open"
    /\ closing' = "draining"
    /\ deadline' = Deadline
    /\ UNCHANGED <<queue, stop, worker, stats, fate, now>>

(* Time passes; only a wait looks at it. *)
Tick ==
    /\ closing = "draining"
    /\ now < MaxNow
    /\ now' = now + 1
    /\ UNCHANGED <<queue, stop, worker, stats, fate, closing, deadline>>

(* Mutant: destroy joins a worker it has not told to stop. *)
DrainEndsWithoutStop ==
    /\ closing = "draining"
    /\ tail = head \/ now >= deadline
    /\ closing' = "joining"
    /\ UNCHANGED <<queue, stop, worker, stats, fate, clock>>

(* The wait ends when the ring is empty or when its time is up; the worker *)
(* is told to stop.                                                        *)
DrainEnds ==
    /\ closing = "draining"
    /\ tail = head \/ now >= deadline
    /\ stop' = TRUE
    /\ closing' = "joining"
    /\ UNCHANGED <<queue, worker, stats, fate, clock>>

Join ==
    /\ closing = "joining"
    /\ wpc = "exited"
    /\ closing' = "closed"
    /\ UNCHANGED <<queue, stop, worker, stats, fate, clock>>

-----------------------------------------------------------------------------
WorkerStep ==
    \/ Sweep \/ SweepAndExit \/ SkipPad \/ Decode
    \/ (\E done \in -1 .. Cardinality(Events) : EmitBatch(done)) \/ EndSweep

CloseStep == DrainEnds \/ Join

Next ==
    \/ \E e \in Events : DeliverFull(e) \/ DeliverQueued(e)
    \/ WorkerStep
    \/ CloseBegin
    \/ CloseStep
    \/ Tick

SafetySpec == Init /\ [][Next]_vars

(* The worker and a closing thread keep running and time passes; nobody    *)
(* has to deliver or to close.                                             *)
Spec == SafetySpec /\ WF_vars(WorkerStep) /\ WF_vars(CloseStep) /\ WF_vars(Tick)

-----------------------------------------------------------------------------
(* Properties *)

TypeOK ==
    /\ buf \in [Offsets -> Cells]
    /\ head \in Nat /\ tail \in Nat
    /\ stop \in BOOLEAN
    /\ wpc \in {"wait", "decode", "exited"}
    /\ sweep \in Seq(Cells)
    /\ off \in Nat
    /\ batch \in Seq(Events)
    /\ st_written \in Nat /\ st_dropped \in Nat /\ st_failed \in Nat
    /\ fate \in [Events -> Fates]
    /\ closing \in {"open", "draining", "joining", "closed"}
    /\ now \in 0 .. Word - 1 /\ deadline \in 0 .. Word - 1

(* Between the cursors lies a stream of whole pads and whole records, in   *)
(* ring memory, none of which straddles the end of it: a byte is either    *)
(* the start of one or continues the byte before it, and what starts ends. *)
StreamWellFormed ==
    /\ head <= tail /\ tail - head <= Cap
    /\ \A p \in head .. tail - 1 :
          LET c == buf[p % Cap]
              len == IF c.ev = Pad THEN PadLen ELSE PackedLen[c.ev]
          IN  /\ c.ev # Unwritten
              /\ c.i <= p - head
              /\ p - c.i + len <= tail
              /\ \A k \in 0 .. len - 1 :
                    buf[(p - c.i + k) % Cap] = [ev |-> c.ev, i |-> k]
              /\ ((p - c.i) % Cap) + len <= Cap

(* The queue in memory is always one the worker can decode. *)
StreamSound == TypeOK /\ StreamWellFormed

(* An event the queue accepted is in the ring, in the worker's hands, or   *)
(* was handed to the sink; while the worker is between sweeps none is in   *)
(* its hands.                                                              *)
NoEventVanishes ==
    \A e \in Events :
        /\ fate[e] = "queued" <=> \E p \in head .. tail - 1 : buf[p % Cap] = [ev |-> e, i |-> 0]
        /\ fate[e] = "swept" /\ wpc = "decode" =>
              \/ \E k \in 1 .. Len(batch) : batch[k] = e
              \/ \E k \in off .. Len(sweep) - 1 : CellAt(k) = [ev |-> e, i |-> 0]
        /\ fate[e] = "swept" => wpc # "wait"

(* Statistics of the sink: every event delivered to it is counted once as  *)
(* handed over or dropped, and every one the sink failed once as failed.   *)
StatsExact ==
    /\ st_dropped = Cardinality({e \in Events : fate[e] = "dropped"})
    /\ st_failed = Cardinality({e \in Events : fate[e] = "failed"})
    /\ st_written + st_dropped = Cardinality({e \in Events : fate[e] # "new"})

(* While the sink is not told to stop, every queued event reaches it: the  *)
(* worker never sleeps on a backlog or drops what it swept.                *)
EveryEventEmitted ==
    \A e \in Events : (fate[e] = "queued") ~> (fate[e] \in {"emitted", "failed"} \/ stop)

(* Closing ends, whatever the sink answers. *)
CloseEnds == (closing = "draining") ~> (closing = "closed")

(* sink_queue.h: "Stop the worker (drain-then-exit)".  What was queued     *)
(* when the worker is told to stop is handed to the sink before it exits.  *)
DrainThenExit ==
    wpc = "exited" => \A e \in Events : fate[e] \notin {"queued", "swept"}

(* sink_queue.c, push: "Padding records (4 bytes of zeros) bridge wrap     *)
(* boundaries".  The rest of a lap never gets too short for a pad; with a  *)
(* shorter rest no event is accepted ever again.                           *)
BridgeFits == contig >= PadLen
=============================================================================
