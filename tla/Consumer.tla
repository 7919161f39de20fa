------------------------------ MODULE Consumer ------------------------------
(***************************************************************************)
(* The consumer threads of the asynchronous build, src/core/consumer.c,    *)
(* with the start and stop of them in src/core/core.c, on top of the ring  *)
(* as RingContract promises it.                                            *)
(*                                                                         *)
(* Each consumer takes a record out of the ring, runs it through the       *)
(* pipeline under conf_lock, and between batches flushes the outputs and   *)
(* answers flush requests.  hpulogc_flush raises a request number and      *)
(* polls the ring and every consumer's answer.  Each access to a shared    *)
(* variable and each critical section is one action.                       *)
(***************************************************************************)
EXTENDS Naturals, Sequences, FiniteSets

CONSTANTS Records,        \* records that are logged, each once
          ConsumerCount,  \* g_rt.consumer_count
          Flushers,       \* application threads calling hpulogc_flush
          BatchSize,      \* tun.batch_size
          MaxFlushes,     \* bound on the number of flush calls
          StagingMayFail, \* the staging buffer's malloc may return NULL
          DeadlinesPass,  \* the time bounds of flush and stop may run out
          NoRec, Discard, Overwrite, Wait

Consumers == 1 .. ConsumerCount

ASSUME ConsumerAssumption ==
    /\ IsFiniteSet(Records)
    /\ NoRec \notin Records
    /\ ConsumerCount \in Nat \ {0}
    /\ BatchSize \in Nat \ {0}
    /\ MaxFlushes \in Nat
    /\ StagingMayFail \in BOOLEAN
    /\ DeadlinesPass \in BOOLEAN

VARIABLES policy, queue, delivered, dropped, overwritten, closed, \* the ring
          mpc,            \* the thread that starts and stops the library
          consumer_exit, consumer_alive, flush_req, flush_ack,  \* g_rt
          cpc,            \* where each consumer is
          leaving,        \* it has seen consumer_exit and only drains
          hand,           \* the record it took and has not dispatched
          processed,      \* records since its last idle tasks
          req,            \* the request number it is about to answer
          fpc, seq, acked,\* where each flusher is, its request number and
                          \* how many answers it has seen
          accepted, evicted,  \* history: records put, records overwritten
          unflushed,      \* records each consumer has dispatched since the
                          \* outputs were last flushed
          written,        \* records submitted by an output flush
          before          \* history: records accepted when flush was called

ring == <<policy, queue, delivered, dropped, overwritten, closed>>
consumers == <<cpc, leaving, hand, processed, req>>
flushers == <<fpc, seq, acked, before>>
flags == <<consumer_exit, consumer_alive, flush_req, flush_ack>>
data == <<accepted, evicted, unflushed, written>>
vars == <<ring, mpc, flags, consumers, flushers, data>>

Ring == INSTANCE RingContract WITH Msgs <- Records

Init ==
    /\ Ring!Init
    /\ mpc = "starting"
    /\ consumer_exit = FALSE
    /\ consumer_alive = 0
    /\ flush_req = 0
    /\ flush_ack = [c \in Consumers |-> 0]
    /\ cpc = [c \in Consumers |-> "none"]
    /\ leaving = [c \in Consumers |-> FALSE]
    /\ hand = [c \in Consumers |-> NoRec]
    /\ processed = [c \in Consumers |-> 0]
    /\ req = [c \in Consumers |-> 0]
    /\ fpc = [f \in Flushers |-> "idle"]
    /\ seq = [f \in Flushers |-> 0]
    /\ acked = [f \in Flushers |-> 0]
    /\ before = [f \in Flushers |-> {}]
    /\ accepted = {}
    /\ evicted = {}
    /\ unflushed = [c \in Consumers |-> {}]
    /\ written = {}

hpu_ring_used_is_0 == queue = <<>>

-----------------------------------------------------------------------------
(* hpu_consumer_start *)

StartThread(c) ==
    /\ mpc = "starting"
    /\ cpc[c] = "none"
    /\ \A d \in Consumers : d < c => cpc[d] # "none"
    /\ cpc' = [cpc EXCEPT ![c] = "start"]
    /\ mpc' = IF c = ConsumerCount THEN "running" ELSE mpc
    /\ UNCHANGED <<ring, flags, leaving, hand, processed, req, flushers, data>>

(* hpu_thread_create fails: whatever already started is asked to leave. *)
StartFails ==
    /\ mpc = "starting"
    /\ consumer_exit' = TRUE
    /\ mpc' = "waiting"
    /\ UNCHANGED <<ring, consumer_alive, flush_req, flush_ack, consumers, flushers, data>>

-----------------------------------------------------------------------------
(* Application threads, while the library runs: hpu_ring_put as its        *)
(* contract allows it; a record it refuses never gets here.                *)
(* hpulogc_shutdown is not to be called while others log (hpulogc.h),      *)
(* hence the guard.                                                        *)

Put(r) ==
    /\ mpc = "running"
    /\ r \notin accepted
    /\ Ring!Enqueue(r)
    /\ accepted' = accepted \cup {r}
    /\ UNCHANGED <<mpc, flags, consumers, flushers, evicted, unflushed, written>>

Evict ==
    /\ mpc = "running"
    /\ Ring!Evict
    /\ evicted' = evicted \cup {Head(queue)}
    /\ UNCHANGED <<mpc, flags, consumers, flushers, accepted, unflushed, written>>

-----------------------------------------------------------------------------
(* consumer_loop *)

At(c, at) == cpc[c] = at
Goto(c, at) == cpc' = [cpc EXCEPT ![c] = at]

(* The thread announces itself and allocates its staging area. *)
Begin(c) ==
    /\ At(c, "start")
    /\ consumer_alive' = consumer_alive + 1
    /\ Goto(c, "loop") \/ (StagingMayFail /\ Goto(c, "exit"))
    /\ UNCHANGED <<ring, mpc, consumer_exit, flush_req, flush_ack,
                   leaving, hand, processed, req, flushers, data>>

(* Mutant: a consumer told to exit does not drain the ring. *)
ExitWithoutDrain(c) ==
    /\ At(c, "loop")
    /\ leaving' = [leaving EXCEPT ![c] = consumer_exit]
    /\ Goto(c, IF consumer_exit THEN "idle" ELSE "get")
    /\ UNCHANGED <<ring, mpc, flags, hand, processed, req, flushers, data>>

CheckExit(c) ==
    /\ At(c, "loop")
    /\ leaving' = [leaving EXCEPT ![c] = consumer_exit]
    /\ Goto(c, "get")
    /\ UNCHANGED <<ring, mpc, flags, hand, processed, req, flushers, data>>

GetRecord(c) ==
    /\ At(c, "get")
    /\ Ring!Dequeue
    /\ hand' = [hand EXCEPT ![c] = Head(queue)]
    /\ Goto(c, "process")
    /\ UNCHANGED <<mpc, flags, leaving, processed, req, flushers, data>>

(* Mutant: no idle tasks when the ring is empty. *)
GetNothingAndLoop(c) ==
    /\ At(c, "get")
    /\ hpu_ring_used_is_0
    /\ Goto(c, IF leaving[c] THEN "idle" ELSE "loop")
    /\ UNCHANGED <<ring, mpc, flags, leaving, hand, processed, req, flushers, data>>

(* The ring is empty: the wait timed out, was kicked, or the ring is       *)
(* closed; while draining get does not wait.                               *)
GetNothing(c) ==
    /\ At(c, "get")
    /\ hpu_ring_used_is_0
    /\ Goto(c, "idle")
    /\ UNCHANGED <<ring, mpc, flags, leaving, hand, processed, req, flushers, data>>

BatchFull(c) == ~leaving[c] /\ processed[c] + 1 >= BatchSize

(* hpu_pipeline_process under conf_lock: the record reaches the outputs,   *)
(* which keep it in their buffers.                                         *)
Process(c) ==
    /\ At(c, "process")
    /\ unflushed' = [unflushed EXCEPT ![c] = @ \cup {hand[c]}]
    /\ hand' = [hand EXCEPT ![c] = NoRec]
    /\ processed' = [processed EXCEPT ![c] = IF leaving[c] THEN @ ELSE @ + 1]
    /\ Goto(c, IF BatchFull(c) THEN "idle" ELSE IF leaving[c] THEN "get" ELSE "loop")
    /\ UNCHANGED <<ring, mpc, flags, leaving, req, flushers, accepted, evicted, written>>

(* consumer_idle_tasks: flush every output under conf_lock; then, without  *)
(* it, read the request number, look at the ring, and answer if the ring   *)
(* is empty.                                                               *)
FlushOutputs(c) ==
    /\ At(c, "idle")
    /\ written' = written \cup UNION {unflushed[d] : d \in Consumers}
    /\ unflushed' = [d \in Consumers |-> {}]
    /\ Goto(c, "load_req")
    /\ UNCHANGED <<ring, mpc, flags, leaving, hand, processed, req, flushers, accepted, evicted>>

LoadReq(c) ==
    /\ At(c, "load_req")
    /\ req' = [req EXCEPT ![c] = flush_req]
    /\ Goto(c, "check_used")
    /\ UNCHANGED <<ring, mpc, flags, leaving, hand, processed, flushers, data>>

(* Back to the loop with a fresh batch, or out of the thread. *)
AfterIdle(c) ==
    /\ Goto(c, IF leaving[c] THEN "exit" ELSE "loop")
    /\ processed' = [processed EXCEPT ![c] = 0]
    /\ req' = [req EXCEPT ![c] = 0]

(* Mutant: the answer does not depend on the ring (defect P-6). *)
AnswerAnyway(c) ==
    /\ At(c, "check_used")
    /\ Goto(c, "ack")
    /\ UNCHANGED <<ring, mpc, flags, leaving, hand, processed, req, flushers, data>>

CheckUsed(c) ==
    /\ At(c, "check_used")
    /\ IF hpu_ring_used_is_0
       THEN Goto(c, "ack") /\ UNCHANGED <<processed, req>>
       ELSE AfterIdle(c)
    /\ UNCHANGED <<ring, mpc, flags, leaving, hand, flushers, data>>

StoreAck(c) ==
    /\ At(c, "ack")
    /\ flush_ack' = [flush_ack EXCEPT ![c] = req[c]]
    /\ AfterIdle(c)
    /\ UNCHANGED <<ring, mpc, consumer_exit, consumer_alive, flush_req,
                   leaving, hand, flushers, data>>

Exit(c) ==
    /\ At(c, "exit")
    /\ consumer_alive' = consumer_alive - 1
    /\ Goto(c, "gone")
    /\ UNCHANGED <<ring, mpc, consumer_exit, flush_req, flush_ack,
                   leaving, hand, processed, req, flushers, data>>

-----------------------------------------------------------------------------
(* hpu_consumer_flush *)

FlushCall(f) ==
    /\ mpc = "running"
    /\ fpc[f] \in {"idle", "ok", "timeout"}
    /\ flush_req < MaxFlushes
    /\ flush_req' = flush_req + 1
    /\ seq' = [seq EXCEPT ![f] = flush_req + 1]
    /\ before' = [before EXCEPT ![f] = accepted]
    /\ fpc' = [fpc EXCEPT ![f] = "used"]
    /\ UNCHANGED <<ring, mpc, consumer_exit, consumer_alive, flush_ack, consumers, acked, data>>

FlushUsed(f) ==
    /\ fpc[f] = "used"
    /\ fpc' = [fpc EXCEPT ![f] = IF hpu_ring_used_is_0 THEN "acks" ELSE "again"]
    /\ acked' = [acked EXCEPT ![f] = 0]
    /\ UNCHANGED <<ring, mpc, flags, consumers, seq, before, data>>

(* One turn of the loop over the answers, or its end. *)
FlushAcks(f) ==
    /\ fpc[f] = "acks"
    /\ IF acked[f] = ConsumerCount
       THEN /\ fpc' = [fpc EXCEPT ![f] = "ok"]
            /\ UNCHANGED acked
       ELSE IF flush_ack[acked[f] + 1] < seq[f]
       THEN /\ fpc' = [fpc EXCEPT ![f] = "again"]
            /\ UNCHANGED acked
       ELSE /\ acked' = [acked EXCEPT ![f] = @ + 1]
            /\ UNCHANGED fpc
    /\ UNCHANGED <<ring, mpc, flags, consumers, seq, before, data>>

(* Sleep a millisecond, kick the consumers, look again; or time is up. *)
FlushAgain(f) ==
    /\ fpc[f] = "again"
    /\ \/ fpc' = [fpc EXCEPT ![f] = "used"]
       \/ DeadlinesPass /\ fpc' = [fpc EXCEPT ![f] = "timeout"]
    /\ UNCHANGED <<ring, mpc, flags, consumers, seq, acked, before, data>>

-----------------------------------------------------------------------------
(* hpu_core_stop and hpu_consumer_stop.  Other API calls are over.         *)

RingClose ==
    /\ mpc = "running"
    /\ \A f \in Flushers : fpc[f] \in {"idle", "ok", "timeout"}
    /\ Ring!Close
    /\ mpc' = "closing"
    /\ UNCHANGED <<flags, consumers, flushers, data>>

(* Mutant: the exit flag is not raised. *)
AskNobody ==
    /\ mpc = "closing"
    /\ mpc' = "waiting"
    /\ UNCHANGED <<ring, flags, consumers, flushers, data>>

AskExit ==
    /\ mpc = "closing"
    /\ consumer_exit' = TRUE
    /\ mpc' = "waiting"
    /\ UNCHANGED <<ring, consumer_alive, flush_req, flush_ack, consumers, flushers, data>>

(* The timed wait for consumer_alive = 0.  A thread that has not announced *)
(* itself yet is not waited for here.                                      *)
WaitEnds ==
    /\ mpc = "waiting"
    /\ consumer_alive = 0 \/ DeadlinesPass
    /\ mpc' = "joining"
    /\ UNCHANGED <<ring, flags, consumers, flushers, data>>

(* hpu_thread_join of every thread that was created; the caller then       *)
(* destroys the ring.                                                      *)
Join ==
    /\ mpc = "joining"
    /\ \A c \in Consumers : cpc[c] \in {"none", "gone"}
    /\ mpc' = "stopped"
    /\ UNCHANGED <<ring, flags, consumers, flushers, data>>

-----------------------------------------------------------------------------
ConsumerStep(c) ==
    \/ Begin(c) \/ CheckExit(c) \/ GetRecord(c) \/ GetNothing(c)
    \/ FlushOutputs(c) \/ LoadReq(c) \/ CheckUsed(c) \/ StoreAck(c) \/ Exit(c)

FlushStep(f) == FlushUsed(f) \/ FlushAcks(f) \/ FlushAgain(f)

StopStep == AskExit \/ WaitEnds \/ Join

(* All threads are gone and nobody uses the library any more. *)
Stopped == mpc = "stopped" /\ UNCHANGED vars

Next ==
    \/ \E c \in Consumers : StartThread(c) \/ ConsumerStep(c) \/ Process(c)
    \/ StartFails
    \/ \E r \in Records : Put(r)
    \/ Evict
    \/ \E f \in Flushers : FlushCall(f) \/ FlushStep(f)
    \/ RingClose
    \/ StopStep
    \/ Stopped

SafetySpec == Init /\ [][Next]_vars

(* Threads inside the library keep running; nobody has to log, flush or    *)
(* shut down.                                                              *)
RunningThreads ==
    /\ \A c \in Consumers : WF_vars(ConsumerStep(c))
    /\ \A f \in Flushers : WF_vars(FlushStep(f))
    /\ WF_vars(StopStep)

Spec == SafetySpec /\ RunningThreads /\ \A c \in Consumers : WF_vars(Process(c))
-----------------------------------------------------------------------------
(* Properties *)

TypeOK ==
    /\ policy \in {Discard, Overwrite, Wait}
    /\ queue \in Seq(Records) /\ delivered \in Seq(Records)
    /\ dropped \in Nat /\ overwritten \in Nat /\ closed \in BOOLEAN
    /\ mpc \in {"starting", "running", "closing", "waiting", "joining", "stopped"}
    /\ consumer_exit \in BOOLEAN
    /\ consumer_alive \in Nat
    /\ flush_req \in Nat
    /\ flush_ack \in [Consumers -> Nat]
    /\ cpc \in [Consumers -> {"none", "start", "loop", "get", "process", "idle", "load_req",
                              "check_used", "ack", "exit", "gone"}]
    /\ leaving \in [Consumers -> BOOLEAN]
    /\ hand \in [Consumers -> Records \cup {NoRec}]
    /\ processed \in [Consumers -> Nat]
    /\ req \in [Consumers -> Nat]
    /\ fpc \in [Flushers -> {"idle", "used", "acks", "again", "ok", "timeout"}]
    /\ seq \in [Flushers -> Nat]
    /\ acked \in [Flushers -> 0 .. ConsumerCount]
    /\ before \in [Flushers -> SUBSET Records]
    /\ accepted \subseteq Records /\ evicted \subseteq Records
    /\ unflushed \in [Consumers -> SUBSET Records]
    /\ written \subseteq Records

InRing == {queue[i] : i \in 1 .. Len(queue)}
InHand(c) == {hand[c]} \ {NoRec}
Unflushed == UNION {unflushed[c] : c \in Consumers}

(* A flush that returned HPULOGC_OK did its job: every record accepted     *)
(* before the call has been taken through the pipeline and the outputs     *)
(* were flushed after it, or the overwrite policy had removed it (defect   *)
(* P-6 of the notes: it used to return with records in flight).            *)
FlushMeansWritten ==
    \A f \in Flushers : fpc[f] = "ok" => before[f] \subseteq written \cup evicted

(* The records before f's call are not c's business any more: none of them *)
(* is in the ring, in its hand, or dispatched by it to outputs that were   *)
(* not flushed since.                                                      *)
Certified(f, c) == before[f] \cap (InRing \cup InHand(c) \cup unflushed[c]) = {}

(* What an answer certifies: once a consumer has answered a request it has *)
(* nothing left to do for it.  hpu_consumer_flush compares numbers only,   *)
(* and answers given long ago stay valid for it.                           *)
AckCertifies ==
    \A f \in Flushers, c \in Consumers :
        seq[f] # 0 /\ flush_ack[c] >= seq[f] => Certified(f, c)

(* Stopping drains: once the threads are joined, every accepted record was *)
(* submitted to the outputs, provided some consumer got its staging area.  *)
ShutdownDrains ==
    /\ mpc = "stopped"
    /\ \E c \in Consumers : leaving[c]
    => accepted \subseteq written \cup evicted

(* When stop, or a start that failed, returns and the ring is freed, no    *)
(* consumer thread can touch it any more.                                  *)
NoThreadLeft ==
    mpc = "stopped" => \A c \in Consumers : cpc[c] \in {"none", "gone"}

(* With every consumer running, a flush is answered once logging pauses:   *)
(* unless a consumer could not get its staging area, or the deadline       *)
(* passed, it ends with HPULOGC_OK.                                        *)
FlushSucceeds ==
    /\ [](\A c \in Consumers : cpc[c] = "exit" => leaving[c])
    /\ [](\A f \in Flushers : fpc[f] # "timeout")
    => \A f \in Flushers : (fpc[f] = "used") ~> (fpc[f] = "ok")

(* Shutdown, and a start that fails, come to an end. *)
StopReturns == (mpc \in {"closing", "waiting"}) ~> (mpc = "stopped")
-----------------------------------------------------------------------------
(* The inductive invariant behind the safety properties. *)

(* Every accepted record is somewhere. *)
Located ==
    accepted \subseteq InRing \cup evicted \cup written \cup Unflushed
                       \cup UNION {InHand(c) : c \in Consumers}

(* A consumer holds a record only until it is processed, and after it      *)
(* flushed the outputs it has nothing unflushed until it takes the next.   *)
HandsEmpty ==
    \A c \in Consumers :
        /\ hand[c] = NoRec <=> cpc[c] # "process"
        /\ cpc[c] \in {"none", "start", "load_req", "check_used", "ack", "exit", "gone"}
              => unflushed[c] = {}

(* Nothing is numbered beyond the last request, and a flush in progress    *)
(* has a number.                                                           *)
Numbered ==
    /\ \A f \in Flushers : /\ seq[f] <= flush_req
                           /\ before[f] \subseteq accepted
                           /\ fpc[f] \in {"used", "acks", "again"} => seq[f] # 0
    /\ \A c \in Consumers : flush_ack[c] <= flush_req /\ req[c] <= flush_req

(* A consumer that saw the ring empty after it read the request number is  *)
(* entitled to answer, whatever enters the ring in the meantime.           *)
Entitled ==
    \A f \in Flushers, c \in Consumers :
        cpc[c] = "ack" /\ seq[f] # 0 /\ req[c] >= seq[f] => before[f] \cap InRing = {}

(* The answers a flusher has counted. *)
Counted ==
    \A f \in Flushers :
        fpc[f] = "acks" => \A c \in Consumers : c <= acked[f] => Certified(f, c)

(* A consumer leaves only after nobody puts any more, and goes past its    *)
(* last get only with the ring empty.                                      *)
Leaving ==
    /\ consumer_exit => mpc \in {"waiting", "joining", "stopped"}
    /\ \A c \in Consumers :
          leaving[c] =>
             /\ consumer_exit
             /\ cpc[c] \notin {"none", "start", "loop"}
             /\ cpc[c] \in {"idle", "load_req", "check_used", "ack", "exit", "gone"}
                   => InRing = {}

(* The threads that consumer_alive counts. *)
Alive == {c \in Consumers : cpc[c] \notin {"none", "start", "gone"}}

AliveExact == consumer_alive = Cardinality(Alive)

IInv ==
    /\ TypeOK
    /\ AliveExact
    /\ Located
    /\ HandsEmpty
    /\ Numbered
    /\ AckCertifies
    /\ Entitled
    /\ Counted
    /\ FlushMeansWritten
    /\ Leaving
    /\ NoThreadLeft
=============================================================================
