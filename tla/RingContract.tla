---------------------------- MODULE RingContract ----------------------------
(***************************************************************************)
(* What src/ring/ringbuf.h promises of a ring, whichever of the two        *)
(* implementations the build selects: a first-in first-out queue of        *)
(* records, each removed at most once, that refuses a record only when it  *)
(* is closed or when other records occupy it, removes old records only     *)
(* under the overwrite policy, and counts both.  Bytes, pad records,       *)
(* cursors, locks and markers are invisible here.                          *)
(***************************************************************************)
EXTENDS Naturals, Sequences

CONSTANTS Msgs,    \* the records that producers may put
          Discard, Overwrite, Wait  \* overflow policies

VARIABLES policy,       \* the ring's overflow policy, fixed at creation
          queue,        \* records put and not yet removed, oldest first
          delivered,    \* records handed to consumers, in order of removal
          dropped,      \* hpu_ring_counters: records refused
          overwritten,  \* hpu_ring_counters: records removed unread
          closed        \* set by hpu_ring_close

vars == <<policy, queue, delivered, dropped, overwritten, closed>>

Init ==
    /\ policy \in {Discard, Overwrite, Wait}
    /\ queue = <<>>
    /\ delivered = <<>>
    /\ dropped = 0
    /\ overwritten = 0
    /\ closed = FALSE

(* hpu_ring_put returning HPU_RING_OK.  A producer that saw the ring open  *)
(* may still be inside put when the ring is closed, so closed is no guard. *)
Enqueue(m) ==
    /\ queue' = Append(queue, m)
    /\ UNCHANGED <<policy, delivered, dropped, overwritten, closed>>

(* hpu_ring_put returning HPU_RING_DROPPED: never with the ring open and   *)
(* empty of records, and never for lack of space under the other policies. *)
Refuse ==
    /\ closed \/ (policy = Discard /\ queue # <<>>)
    /\ dropped' = dropped + 1
    /\ UNCHANGED <<policy, queue, delivered, overwritten, closed>>

(* The overwrite policy removing the oldest unconsumed record. *)
Evict ==
    /\ policy = Overwrite
    /\ queue # <<>>
    /\ queue' = Tail(queue)
    /\ overwritten' = overwritten + 1
    /\ UNCHANGED <<policy, delivered, dropped, closed>>

(* hpu_ring_get returning HPU_RING_OK. *)
Dequeue ==
    /\ queue # <<>>
    /\ queue' = Tail(queue)
    /\ delivered' = Append(delivered, Head(queue))
    /\ UNCHANGED <<policy, dropped, overwritten, closed>>

(* hpu_ring_close. *)
Close ==
    /\ closed' = TRUE
    /\ UNCHANGED <<policy, queue, delivered, dropped, overwritten>>

Next == (\E m \in Msgs : Enqueue(m)) \/ Refuse \/ Evict \/ Dequeue \/ Close

Spec == Init /\ [][Next]_vars
=============================================================================
