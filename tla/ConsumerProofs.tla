--------------------------- MODULE ConsumerProofs ---------------------------
(***************************************************************************)
(* Proofs about Consumer: the flush handshake and the drain at shutdown    *)
(* are right for any number of records, consumers and flushing threads.    *)
(***************************************************************************)
EXTENDS Consumer, FiniteSetTheorems, TLAPS

USE DEF ring, consumers, flushers, flags, data

(* What Append and Tail do to the set of records in the ring. *)
LEMMA RingSets ==
    ASSUME TypeOK
    PROVE  /\ \A r \in Records :
                 {Append(queue, r)[i] : i \in 1 .. Len(Append(queue, r))} = InRing \cup {r}
           /\ queue # <<>> =>
                 /\ Head(queue) \in Records
                 /\ Tail(queue) \in Seq(Records)
                 /\ InRing = {Tail(queue)[i] : i \in 1 .. Len(Tail(queue))} \cup {Head(queue)}
           /\ queue = <<>> <=> InRing = {}
<1> USE DEF TypeOK, InRing
<1>1. ASSUME NEW r \in Records
      PROVE  {Append(queue, r)[i] : i \in 1 .. Len(Append(queue, r))} = InRing \cup {r}
  <2>1. /\ Len(Append(queue, r)) = Len(queue) + 1
        /\ \A i \in 1 .. Len(queue) : Append(queue, r)[i] = queue[i]
        /\ Append(queue, r)[Len(queue) + 1] = r
    OBVIOUS
  <2>2. Len(queue) \in Nat
    OBVIOUS
  <2> HIDE DEF TypeOK
  <2> QED  BY <2>1, <2>2
<1>2. ASSUME queue # <<>>
      PROVE  /\ Head(queue) \in Records
             /\ Tail(queue) \in Seq(Records)
             /\ InRing = {Tail(queue)[i] : i \in 1 .. Len(Tail(queue))} \cup {Head(queue)}
  <2>1. /\ Len(queue) \in Nat \ {0}
        /\ Head(queue) = queue[1]
        /\ Head(queue) \in Records
        /\ Tail(queue) \in Seq(Records)
        /\ Len(Tail(queue)) = Len(queue) - 1
        /\ \A i \in 1 .. Len(queue) - 1 : Tail(queue)[i] = queue[i + 1]
    BY <1>2
  <2>2. \A i \in 1 .. Len(queue) : i = 1 \/ (i - 1 \in 1 .. Len(queue) - 1 /\ (i - 1) + 1 = i)
    BY <2>1
  <2>3. \A i \in 1 .. Len(queue) - 1 : i + 1 \in 1 .. Len(queue)
    BY <2>1
  <2> HIDE DEF TypeOK
  <2> QED  BY <2>1, <2>2, <2>3
<1>3. queue = <<>> <=> InRing = {}
  <2>1. Len(queue) \in Nat /\ (queue = <<>> <=> Len(queue) = 0)
    OBVIOUS
  <2>2. Len(queue) # 0 => queue[1] \in InRing
    BY <2>1
  <2>3. Len(queue) = 0 => InRing = {}
    <3> HIDE DEF TypeOK
    <3> QED  BY <2>1
  <2> HIDE DEF TypeOK, InRing
  <2> QED  BY <2>1, <2>2, <2>3
<1> QED  BY <1>1, <1>2, <1>3

(* Moving one consumer's program counter into or out of the states that    *)
(* consumer_alive counts.                                                  *)
LEMMA AliveSets ==
    ASSUME TypeOK, NEW c \in Consumers, NEW at,
           cpc' = [cpc EXCEPT ![c] = at]
    PROVE  /\ Cardinality(Alive) \in Nat
           /\ (c \in Alive <=> at \notin {"none", "start", "gone"}) =>
                 Alive' = Alive
           /\ c \notin Alive /\ at \notin {"none", "start", "gone"} =>
                 Cardinality(Alive') = Cardinality(Alive) + 1
           /\ c \in Alive /\ at \in {"none", "start", "gone"} =>
                 /\ Cardinality(Alive) # 0
                 /\ Cardinality(Alive') = Cardinality(Alive) - 1
<1>1. IsFiniteSet(Alive)
  <2>1. IsFiniteSet(Consumers)
    BY FS_Interval, ConsumerAssumption DEF Consumers
  <2> QED  BY <2>1, FS_Subset DEF Alive
<1>2. Cardinality(Alive) \in Nat
  BY <1>1, FS_CardinalityType
<1>3. /\ (c \in Alive <=> at \notin {"none", "start", "gone"}) => Alive' = Alive
      /\ at \notin {"none", "start", "gone"} => Alive' = Alive \cup {c}
      /\ at \in {"none", "start", "gone"} => Alive' = Alive \ {c}
  BY DEF Alive, TypeOK
<1>4. c \in Alive => Cardinality(Alive) # 0
  BY <1>1, FS_EmptySet
<1> QED  BY <1>1, <1>2, <1>3, <1>4, FS_AddElement, FS_RemoveElement

(* The steps of the thread that starts and stops the library. *)
LEMMA MainInv ==
    ASSUME IInv, StartFails \/ RingClose \/ StopStep \/ Stopped
    PROVE  IInv'
<1> USE DEF StopStep, StartFails, RingClose, Ring!Close, AskExit, WaitEnds, Join, Stopped, vars
<1>1. UNCHANGED <<queue, hand, unflushed, written, evicted, accepted, cpc, leaving, req,
                  fpc, seq, acked, before, flush_req, flush_ack, consumer_alive>>
  OBVIOUS
<1>2. TypeOK'
  BY DEF IInv, TypeOK
<1>3. InRing' = InRing /\ Unflushed' = Unflushed /\ \A d \in Consumers : InHand(d)' = InHand(d)
  BY <1>1 DEF InRing, Unflushed, InHand
<1>4. Located' /\ HandsEmpty' /\ Numbered' /\ AliveExact'
  BY <1>1, <1>3 DEF IInv, Located, HandsEmpty, Numbered, AliveExact, Alive
<1>5. AckCertifies' /\ Entitled' /\ Counted' /\ FlushMeansWritten'
  BY <1>1, <1>3 DEF IInv, AckCertifies, Entitled, Counted, Certified, FlushMeansWritten
<1>6. Leaving' /\ NoThreadLeft'
  BY <1>1, <1>3 DEF IInv, Leaving, NoThreadLeft
<1> QED  BY <1>2, <1>4, <1>5, <1>6 DEF IInv

(* The steps of a consumer that move no record. *)
LEMMA QuietConsumerInv ==
    ASSUME IInv, NEW c \in Consumers,
           \/ StartThread(c) \/ Begin(c) \/ CheckExit(c) \/ GetNothing(c) \/ LoadReq(c)
           \/ CheckUsed(c) \/ StoreAck(c) \/ Exit(c)
    PROVE  IInv'
<1> USE DEF At, Goto, hpu_ring_used_is_0
<1>1. UNCHANGED <<queue, hand, unflushed, written, evicted, accepted,
                  fpc, seq, acked, before, flush_req, consumer_exit>>
  BY DEF StartThread, Begin, CheckExit, GetNothing, LoadReq, CheckUsed, StoreAck, Exit
<1>2. InRing' = InRing /\ Unflushed' = Unflushed /\ \A d \in Consumers : InHand(d)' = InHand(d)
  BY <1>1 DEF InRing, Unflushed, InHand
<1>3. TypeOK' /\ AliveExact'
  <2> USE DEF IInv, TypeOK, AliveExact
  <2>1. CASE StartThread(c)
    <3>1. c \notin Alive /\ cpc' = [cpc EXCEPT ![c] = "start"]
      BY <2>1 DEF StartThread, Alive
    <3> QED  BY <2>1, <3>1, AliveSets DEF StartThread
  <2>2. CASE Begin(c)
    <3>1. PICK at \in {"loop", "exit"} : cpc' = [cpc EXCEPT ![c] = at]
      BY <2>2 DEF Begin
    <3>2. c \notin Alive
      BY <2>2 DEF Begin, Alive
    <3>3. Cardinality(Alive') = Cardinality(Alive) + 1 /\ Cardinality(Alive) \in Nat
      BY <3>1, <3>2, AliveSets
    <3>4. AliveExact'
      BY <2>2, <3>3 DEF Begin
    <3> QED  BY <2>2, <3>1, <3>4 DEF Begin
  <2>3. CASE CheckExit(c) \/ GetNothing(c) \/ LoadReq(c)
    <3>1. c \in Alive
      BY <2>3 DEF CheckExit, GetNothing, LoadReq, Alive
    <3>2. PICK at \in {"get", "idle", "check_used"} : cpc' = [cpc EXCEPT ![c] = at]
      BY <2>3 DEF CheckExit, GetNothing, LoadReq
    <3>3. Alive' = Alive
      BY <3>1, <3>2, AliveSets
    <3>4. AliveExact'
      BY <2>3, <3>3 DEF CheckExit, GetNothing, LoadReq
    <3>5. /\ leaving' \in [Consumers -> BOOLEAN]
          /\ req' \in [Consumers -> Nat]
      <4>0. /\ leaving \in [Consumers -> BOOLEAN] /\ req \in [Consumers -> Nat]
            /\ consumer_exit \in BOOLEAN /\ flush_req \in Nat
        OBVIOUS
      <4> HIDE DEF IInv, TypeOK, AliveExact
      <4>1. CASE CheckExit(c)
        BY <4>0, <4>1 DEF CheckExit
      <4>2. CASE GetNothing(c)
        BY <4>0, <4>2 DEF GetNothing
      <4>3. CASE LoadReq(c)
        BY <4>0, <4>3 DEF LoadReq
      <4> QED  BY <2>3, <4>1, <4>2, <4>3
    <3>6. UNCHANGED <<ring, mpc, flags, hand, processed, flushers, data>>
      BY <2>3 DEF CheckExit, GetNothing, LoadReq
    <3> QED  BY <3>2, <3>4, <3>5, <3>6
  <2>4. CASE CheckUsed(c) \/ StoreAck(c)
    <3>1. c \in Alive
      BY <2>4 DEF CheckUsed, StoreAck, Alive
    <3>2. PICK at \in {"ack", "exit", "loop"} : cpc' = [cpc EXCEPT ![c] = at]
      BY <2>4 DEF CheckUsed, StoreAck, AfterIdle
    <3>3. Alive' = Alive
      BY <3>1, <3>2, AliveSets
    <3>4. UNCHANGED <<ring, mpc, consumer_exit, consumer_alive, flush_req, leaving, hand,
                      flushers, data>>
      BY <2>4 DEF CheckUsed, StoreAck
    <3>5. /\ processed' \in [Consumers -> Nat]
          /\ req' \in [Consumers -> Nat]
          /\ flush_ack' \in [Consumers -> Nat]
      <4>1. CASE CheckUsed(c)
        <5>1. \/ UNCHANGED <<processed, req>>
              \/ AfterIdle(c)
          BY <4>1 DEF CheckUsed
        <5>2. UNCHANGED flush_ack
          BY <4>1 DEF CheckUsed
        <5>3. /\ processed \in [Consumers -> Nat]
              /\ req \in [Consumers -> Nat]
              /\ flush_ack \in [Consumers -> Nat]
          OBVIOUS
        <5> HIDE DEF IInv, TypeOK
        <5>4. CASE AfterIdle(c)
          BY <5>2, <5>3, <5>4 DEF AfterIdle
        <5>5. CASE UNCHANGED <<processed, req>>
          BY <5>2, <5>3, <5>5
        <5> QED  BY <5>1, <5>4, <5>5
      <4>2. CASE StoreAck(c)
        BY <4>2 DEF StoreAck, AfterIdle
      <4> QED  BY <2>4, <4>1, <4>2
    <3> QED  BY <3>2, <3>3, <3>4, <3>5
  <2>5. CASE Exit(c)
    <3>1. c \in Alive /\ cpc' = [cpc EXCEPT ![c] = "gone"]
      BY <2>5 DEF Exit, Alive
    <3>2. /\ Cardinality(Alive') = Cardinality(Alive) - 1
          /\ Cardinality(Alive) \in Nat \ {0}
      BY <3>1, AliveSets
    <3>3. AliveExact'
      BY <2>5, <3>2 DEF Exit
    <3>4. consumer_alive' \in Nat
      BY <2>5, <3>2 DEF Exit
    <3> QED  BY <2>5, <3>1, <3>3, <3>4 DEF Exit
  <2> QED  BY <2>1, <2>2, <2>3, <2>4, <2>5
<1> USE DEF StartThread, Begin, CheckExit, GetNothing, LoadReq, CheckUsed, StoreAck, Exit,
            AfterIdle
<1>4. Located' /\ FlushMeansWritten' /\ Counted'
  BY <1>1, <1>2 DEF IInv, Located, FlushMeansWritten, Counted, Certified
<1>5. HandsEmpty'
  BY SMTT(30), <1>1, <1>2 DEF IInv, HandsEmpty, TypeOK
<1>6. Numbered'
  <2>1. \A d \in Consumers : /\ flush_ack'[d] \in {flush_ack[d], req[d]}
                             /\ req'[d] \in {req[d], flush_req, 0}
    BY DEF IInv, TypeOK
  <2> HIDE DEF StartThread, Begin, CheckExit, GetNothing, LoadReq, CheckUsed, StoreAck, Exit
  <2>2. \A d \in Consumers : flush_ack'[d] <= flush_req /\ req'[d] <= flush_req
    <3> TAKE d \in Consumers
    <3>1. flush_req \in Nat /\ flush_ack[d] <= flush_req /\ req[d] <= flush_req
      BY DEF IInv, Numbered, TypeOK
    <3>2. flush_ack'[d] \in {flush_ack[d], req[d]} /\ req'[d] \in {req[d], flush_req, 0}
      BY <2>1
    <3> QED  BY <3>1, <3>2
  <2> QED  BY <1>1, <2>2 DEF IInv, Numbered
<1>7. AckCertifies'
  <2> SUFFICES ASSUME NEW f \in Flushers, NEW d \in Consumers,
                      seq[f] # 0, flush_ack'[d] >= seq[f]
               PROVE  Certified(f, d)'
    BY <1>1 DEF AckCertifies
  <2>1. CASE flush_ack'[d] = flush_ack[d]
    BY <1>1, <1>2, <2>1 DEF IInv, AckCertifies, Certified
  <2>2. CASE flush_ack'[d] # flush_ack[d]
    <3>1. d = c /\ cpc[c] = "ack" /\ flush_ack'[c] = req[c]
      BY <2>2 DEF IInv, TypeOK
    <3>2. before[f] \cap InRing = {} /\ unflushed[c] = {} /\ hand[c] = NoRec
      BY <3>1 DEF IInv, Entitled, HandsEmpty
    <3> QED  BY <1>1, <1>2, <3>1, <3>2 DEF Certified, InHand
  <2> QED  BY <2>1, <2>2
<1>8. Entitled'
  <2> SUFFICES ASSUME NEW f \in Flushers, NEW d \in Consumers,
                      cpc'[d] = "ack", seq[f] # 0, req'[d] >= seq[f]
               PROVE  before[f] \cap InRing = {}
    BY <1>1, <1>2 DEF Entitled
  <2>1. \/ cpc[d] = "ack" /\ req'[d] = req[d]
        \/ queue = <<>>
    BY DEF IInv, TypeOK
  <2> QED  BY <2>1, RingSets DEF IInv, Entitled
<1>9. Leaving'
  <2>1. \A d \in Consumers :
           /\ leaving'[d] => leaving[d] \/ consumer_exit
           /\ leaving'[d] => cpc'[d] \notin {"none", "start", "loop"}
           /\ leaving'[d] /\ cpc'[d] \in {"idle", "load_req", "check_used", "ack", "exit", "gone"}
                => \/ queue = <<>>
                   \/ leaving[d] /\ cpc[d] \in {"idle", "load_req", "check_used", "ack", "exit", "gone"}
    BY SMTT(30) DEF IInv, TypeOK, Leaving
  <2>2. mpc' = mpc \/ (StartThread(c) /\ mpc = "starting")
    OBVIOUS
  <2> QED  BY <1>1, <1>2, <2>1, <2>2, RingSets DEF IInv, Leaving
<1>10. NoThreadLeft'
  BY DEF IInv, NoThreadLeft, TypeOK
<1> QED  BY <1>3, <1>4, <1>5, <1>6, <1>7, <1>8, <1>9, <1>10 DEF IInv

(* The steps of a flush.  A new call gets a number nobody has answered; a  *)
(* call that returns has counted a certificate from every consumer, so the *)
(* records before it can only be written or evicted.                       *)
LEMMA FlushInv ==
    ASSUME IInv, NEW f \in Flushers, FlushCall(f) \/ FlushStep(f)
    PROVE  IInv'
<1> USE DEF FlushStep, FlushCall, FlushUsed, FlushAcks, FlushAgain
<1>1. UNCHANGED <<ring, mpc, consumers, data, flush_ack, consumer_exit, consumer_alive>>
  OBVIOUS
<1>2. InRing' = InRing /\ Unflushed' = Unflushed /\ \A d \in Consumers : InHand(d)' = InHand(d)
  BY <1>1 DEF InRing, Unflushed, InHand
<1>3. TypeOK'
  <2>1. /\ flush_req' \in Nat
        /\ seq' \in [Flushers -> Nat]
        /\ before' \in [Flushers -> SUBSET Records]
    <3>1. \/ UNCHANGED <<flush_req, seq, before>>
          \/ /\ flush_req' = flush_req + 1
             /\ seq' = [seq EXCEPT ![f] = flush_req + 1]
             /\ before' = [before EXCEPT ![f] = accepted]
      OBVIOUS
    <3> HIDE DEF FlushStep, FlushCall, FlushUsed, FlushAcks, FlushAgain
    <3>2. /\ flush_req \in Nat /\ accepted \in SUBSET Records
          /\ seq \in [Flushers -> Nat] /\ before \in [Flushers -> SUBSET Records]
      BY DEF IInv, TypeOK
    <3> QED  BY <3>1, <3>2
  <2>2. fpc' \in [Flushers -> {"idle", "used", "acks", "again", "ok", "timeout"}]
    <3>1. fpc' = fpc \/ \E at \in {"used", "acks", "again", "ok", "timeout"} :
                           fpc' = [fpc EXCEPT ![f] = at]
      OBVIOUS
    <3> HIDE DEF FlushStep, FlushCall, FlushUsed, FlushAcks, FlushAgain
    <3> QED  BY <3>1 DEF IInv, TypeOK
  <2>3. acked' \in [Flushers -> 0 .. ConsumerCount]
    <3>1. acked' \in {acked, [acked EXCEPT ![f] = 0]}
             \/ (acked[f] # ConsumerCount /\ acked' = [acked EXCEPT ![f] = @ + 1])
      OBVIOUS
    <3>2. acked \in [Flushers -> 0 .. ConsumerCount] /\ ConsumerCount \in Nat
      BY ConsumerAssumption DEF IInv, TypeOK
    <3> HIDE DEF FlushStep, FlushCall, FlushUsed, FlushAcks, FlushAgain
    <3> QED  BY <3>1, <3>2
  <2> HIDE DEF FlushStep, FlushCall, FlushUsed, FlushAcks, FlushAgain
  <2> QED  BY <1>1, <2>1, <2>2, <2>3 DEF IInv, TypeOK
<1>4. Located' /\ HandsEmpty' /\ AliveExact' /\ Leaving' /\ NoThreadLeft'
  BY <1>1, <1>2 DEF IInv, Located, HandsEmpty, AliveExact, Alive, Leaving, NoThreadLeft
<1>5. CASE FlushCall(f)
  <2>1. /\ flush_req' = flush_req + 1
        /\ seq' = [seq EXCEPT ![f] = flush_req + 1]
        /\ before' = [before EXCEPT ![f] = accepted]
        /\ fpc' = [fpc EXCEPT ![f] = "used"]
        /\ acked' = acked
    BY <1>5
  <2> HIDE DEF FlushCall, FlushStep
  <2>2. Numbered'
    BY <1>1, <2>1 DEF IInv, Numbered, TypeOK
  <2>3. /\ \A g \in Flushers : g # f => /\ seq'[g] = seq[g] /\ before'[g] = before[g]
                                        /\ fpc'[g] = fpc[g]
        /\ \A d \in Consumers : ~(flush_ack[d] >= seq'[f]) /\ ~(req[d] >= seq'[f])
        /\ fpc'[f] = "used"
    BY <2>1 DEF IInv, Numbered, TypeOK
  <2>4. AckCertifies' /\ Entitled'
    BY <1>1, <1>2, <2>3 DEF IInv, AckCertifies, Entitled, Certified
  <2>5. Counted' /\ FlushMeansWritten'
    BY <1>1, <1>2, <2>1, <2>3 DEF IInv, Counted, Certified, FlushMeansWritten
  <2> QED  BY <1>3, <1>4, <2>2, <2>4, <2>5 DEF IInv
<1>6. CASE FlushStep(f)
  <2>1. UNCHANGED <<seq, before, flush_req>>
    BY <1>6
  <2>2. Numbered'
    <3>1. fpc'[f] \in {"used", "acks", "again"} => fpc[f] \in {"used", "acks", "again"}
      BY <1>6
    <3>2. \A g \in Flushers : g # f => fpc'[g] = fpc[g]
      BY <1>6 DEF IInv, TypeOK
    <3> QED  BY <1>1, <2>1, <3>1, <3>2 DEF IInv, Numbered
  <2>3. AckCertifies' /\ Entitled'
    BY <1>1, <1>2, <2>1 DEF IInv, AckCertifies, Entitled, Certified
  <2>4. Counted'
    <3> SUFFICES ASSUME NEW g \in Flushers, fpc'[g] = "acks",
                        NEW d \in Consumers, d <= acked'[g]
                 PROVE  Certified(g, d)
      BY <1>1, <1>2, <2>1 DEF Counted, Certified
    <3>1. CASE fpc[g] = "acks" /\ acked'[g] = acked[g]
      BY <3>1 DEF IInv, Counted
    <3>2. CASE acked'[g] = 0
      BY <3>2, ConsumerAssumption DEF Consumers
    <3>3. CASE g = f /\ fpc[f] = "acks" /\ acked'[f] = acked[f] + 1
                 /\ ~(flush_ack[acked[f] + 1] < seq[f])
      <4>1. acked[f] \in Nat /\ d \in Nat
        BY DEF IInv, TypeOK, Consumers
      <4>2. d <= acked[f] \/ d = acked[f] + 1
        BY <3>3, <4>1
      <4>3. CASE d <= acked[f]
        BY <3>3, <4>3 DEF IInv, Counted
      <4>4. CASE d = acked[f] + 1
        <5>1. seq[f] # 0 /\ flush_ack[d] >= seq[f]
          BY <3>3, <4>4 DEF IInv, Numbered, TypeOK
        <5> QED  BY <3>3, <5>1 DEF IInv, AckCertifies
      <4> QED  BY <4>2, <4>3, <4>4
    <3>4. \/ fpc[g] = "acks" /\ acked'[g] = acked[g]
          \/ acked'[g] = 0
          \/ g = f /\ fpc[f] = "acks" /\ acked'[f] = acked[f] + 1
               /\ ~(flush_ack[acked[f] + 1] < seq[f])
      BY <1>6 DEF IInv, TypeOK
    <3> QED  BY <3>1, <3>2, <3>3, <3>4
  <2>5. FlushMeansWritten'
    <3> SUFFICES ASSUME NEW g \in Flushers, fpc'[g] = "ok"
                 PROVE  before[g] \subseteq written \cup evicted
      BY <1>1, <2>1 DEF FlushMeansWritten
    <3>1. fpc[g] = "ok" \/ (g = f /\ fpc[f] = "acks" /\ acked[f] = ConsumerCount)
      BY <1>6 DEF IInv, TypeOK
    <3>2. CASE fpc[g] = "ok"
      BY <3>2 DEF IInv, FlushMeansWritten
    <3>3. CASE g = f /\ fpc[f] = "acks" /\ acked[f] = ConsumerCount
      <4>1. \A d \in Consumers : Certified(f, d)
        BY <3>3 DEF IInv, Counted, Consumers
      <4>2. Consumers # {}
        BY ConsumerAssumption DEF Consumers
      <4>3. before[f] \cap InRing = {}
        BY <4>1, <4>2 DEF Certified
      <4>4. before[f] \cap Unflushed = {}
        BY <4>1 DEF Certified, Unflushed
      <4>5. before[f] \cap UNION {InHand(d) : d \in Consumers} = {}
        BY <4>1 DEF Certified
      <4>6. before[f] \subseteq accepted
        BY DEF IInv, Numbered
      <4> QED  BY <3>3, <4>3, <4>4, <4>5, <4>6 DEF IInv, Located
    <3> QED  BY <3>1, <3>2, <3>3
  <2> QED  BY <1>3, <1>4, <2>2, <2>3, <2>4, <2>5 DEF IInv
<1> QED  BY <1>5, <1>6

(* A record enters the ring.  It is none of the records that were accepted *)
(* before an earlier call, so no certificate is disturbed.                 *)
LEMMA PutInv ==
    ASSUME IInv, NEW r \in Records, Put(r)
    PROVE  IInv'
<1> USE DEF Put, Ring!Enqueue
<1>1. InRing' = InRing \cup {r}
  <2>1. queue' = Append(queue, r)
    OBVIOUS
  <2>2. InRing' = {Append(queue, r)[i] : i \in 1 .. Len(Append(queue, r))}
    BY <2>1 DEF InRing
  <2> QED  BY <2>2, RingSets DEF IInv
<1>2. Unflushed' = Unflushed /\ \A d \in Consumers : InHand(d)' = InHand(d)
  BY DEF Unflushed, InHand
<1>3. TypeOK'
  BY DEF IInv, TypeOK
<1>4. Located' /\ HandsEmpty' /\ Numbered' /\ AliveExact' /\ FlushMeansWritten' /\ NoThreadLeft'
  BY <1>1, <1>2 DEF IInv, Located, HandsEmpty, Numbered, AliveExact, Alive, FlushMeansWritten,
                    NoThreadLeft
<1>5. \A f \in Flushers : r \notin before[f]
  BY DEF IInv, Numbered
<1>6. AckCertifies' /\ Entitled' /\ Counted'
  BY <1>1, <1>2, <1>5 DEF IInv, AckCertifies, Entitled, Counted, Certified
<1>7. Leaving'
  BY DEF IInv, Leaving
<1> QED  BY <1>3, <1>4, <1>6, <1>7 DEF IInv

(* The oldest record is overwritten. *)
LEMMA EvictInv ==
    ASSUME IInv, Evict
    PROVE  IInv'
<1> USE DEF Evict, Ring!Evict
<1>1. InRing = InRing' \cup {Head(queue)} /\ Head(queue) \in Records
  <2>1. queue' = Tail(queue) /\ queue # <<>>
    OBVIOUS
  <2>2. InRing' = {Tail(queue)[i] : i \in 1 .. Len(Tail(queue))}
    BY <2>1 DEF InRing
  <2> QED  BY <2>1, <2>2, RingSets DEF IInv
<1>2. Unflushed' = Unflushed /\ \A d \in Consumers : InHand(d)' = InHand(d)
  BY DEF Unflushed, InHand
<1>3. TypeOK'
  BY <1>1, RingSets DEF IInv, TypeOK
<1>4. Located' /\ HandsEmpty' /\ Numbered' /\ AliveExact' /\ FlushMeansWritten' /\ NoThreadLeft'
  BY <1>1, <1>2 DEF IInv, Located, HandsEmpty, Numbered, AliveExact, Alive, FlushMeansWritten,
                    NoThreadLeft
<1>5. AckCertifies' /\ Entitled' /\ Counted'
  BY <1>1, <1>2 DEF IInv, AckCertifies, Entitled, Counted, Certified
<1>6. Leaving'
  BY <1>1 DEF IInv, Leaving
<1> QED  BY <1>3, <1>4, <1>5, <1>6 DEF IInv

(* A consumer takes a record.  Whoever it is certified to has none of the  *)
(* records it is certified for in the ring, so this is not one of them.    *)
LEMMA GetRecordInv ==
    ASSUME IInv, NEW c \in Consumers, GetRecord(c)
    PROVE  IInv'
<1> DEFINE h == Head(queue)
<1> USE DEF GetRecord, Ring!Dequeue, At, Goto
<1>1. InRing = InRing' \cup {h} /\ h \in Records
  <2>1. queue' = Tail(queue) /\ queue # <<>>
    OBVIOUS
  <2>2. InRing' = {Tail(queue)[i] : i \in 1 .. Len(Tail(queue))}
    BY <2>1 DEF InRing
  <2> QED  BY <2>1, <2>2, RingSets DEF IInv
<1>2. /\ Unflushed' = Unflushed
      /\ InHand(c) = {} /\ InHand(c)' = {h}
      /\ \A d \in Consumers \ {c} : InHand(d)' = InHand(d)
  BY <1>1, ConsumerAssumption DEF IInv, HandsEmpty, TypeOK, Unflushed, InHand
<1>3. TypeOK' /\ AliveExact'
  <2>1. c \in Alive /\ cpc' = [cpc EXCEPT ![c] = "process"]
    BY DEF Alive
  <2>2. AliveExact'
    <3> HIDE DEF GetRecord, Ring!Dequeue, At, Goto
    <3>1. Alive' = Alive
      BY <2>1, AliveSets DEF IInv
    <3>2. consumer_alive' = consumer_alive /\ AliveExact
      BY DEF IInv, flags, GetRecord
    <3> QED  BY <3>1, <3>2 DEF AliveExact
  <2>3. queue' \in Seq(Records) /\ delivered' \in Seq(Records)
    BY <1>1, RingSets DEF IInv, TypeOK
  <2>4. cpc' \in [Consumers -> {"none", "start", "loop", "get", "process", "idle",
                               "load_req", "check_used", "ack", "exit", "gone"}]
    BY <2>1 DEF IInv, TypeOK
  <2>5. hand' \in [Consumers -> Records \cup {NoRec}]
    BY <1>1 DEF IInv, TypeOK
  <2>6. UNCHANGED <<mpc, flags, leaving, processed, req, flushers, data,
                    policy, dropped, overwritten, closed>>
    OBVIOUS
  <2> HIDE DEF GetRecord, Ring!Dequeue, At, Goto, h
  <2> QED  BY <2>2, <2>3, <2>4, <2>5, <2>6 DEF IInv, TypeOK, flags, flushers, data
<1>4. Located'
  <2>1. /\ UNION {InHand(d) : d \in Consumers} \subseteq UNION {InHand(d)' : d \in Consumers}
        /\ h \in UNION {InHand(d)' : d \in Consumers}
    <3> HIDE DEF GetRecord, h
    <3>1. h \in InHand(c)'
      BY <1>2
    <3>2. \A d \in Consumers : InHand(d) \subseteq InHand(d)'
      BY <1>2
    <3>3. ASSUME NEW x \in UNION {InHand(d) : d \in Consumers}
          PROVE  x \in UNION {InHand(d)' : d \in Consumers}
      <4>1. PICK d \in Consumers : x \in InHand(d)
        OBVIOUS
      <4>2. x \in InHand(d)'
        BY <3>2, <4>1
      <4> QED  BY <4>2
    <3>4. h \in UNION {InHand(d)' : d \in Consumers}
      BY <3>1
    <3> QED  BY <3>3, <3>4
  <2>2. (UNION {InHand(d) : d \in Consumers})' = UNION {InHand(d)' : d \in Consumers}
    OBVIOUS
  <2> HIDE DEF GetRecord
  <2>3. Located
    BY DEF IInv
  <2>4. UNCHANGED <<accepted, evicted, written>>
    BY DEF GetRecord
  <2> QED  BY <1>1, <1>2, <2>1, <2>2, <2>3, <2>4 DEF Located
<1>5. HandsEmpty'
  BY <1>1, ConsumerAssumption DEF IInv, HandsEmpty, TypeOK
<1>6. Numbered' /\ FlushMeansWritten' /\ NoThreadLeft'
  BY DEF IInv, Numbered, FlushMeansWritten, NoThreadLeft, TypeOK
<1>7. \A f \in Flushers, d \in Consumers : Certified(f, d) => Certified(f, d)'
  BY <1>1, <1>2 DEF Certified
<1>8. AckCertifies' /\ Counted'
  BY <1>7 DEF IInv, AckCertifies, Counted
<1>9. Entitled'
  BY <1>1 DEF IInv, Entitled, TypeOK
<1>10. Leaving'
  BY <1>1 DEF IInv, Leaving, TypeOK
<1> QED  BY <1>3, <1>4, <1>5, <1>6, <1>8, <1>9, <1>10 DEF IInv

(* A record goes from the hand of a consumer to the buffers of outputs. *)
LEMMA ProcessInv ==
    ASSUME IInv, NEW c \in Consumers, Process(c)
    PROVE  IInv'
<1> DEFINE next == IF BatchFull(c) THEN "idle" ELSE IF leaving[c] THEN "get" ELSE "loop"
<1> USE DEF Process, At, Goto
<1>1. InRing' = InRing
  BY DEF InRing
<1>2. /\ next \in {"idle", "get", "loop"}
      /\ leaving[c] => next = "get"
      /\ cpc' = [cpc EXCEPT ![c] = next]
  BY DEF BatchFull
<1> HIDE DEF next
<1>3. hand[c] \in Records
  BY DEF IInv, TypeOK, HandsEmpty
<1>4. /\ hand' = [hand EXCEPT ![c] = NoRec]
      /\ unflushed' = [unflushed EXCEPT ![c] = @ \cup {hand[c]}]
      /\ processed' \in {processed, [processed EXCEPT ![c] = @ + 1]}
      /\ UNCHANGED <<ring, mpc, flags, leaving, req, flushers, accepted, evicted, written>>
      /\ cpc[c] = "process"
  BY DEF IInv, TypeOK
<1> HIDE DEF Process
<1>5. TypeOK' /\ AliveExact'
  <2>1. c \in Alive
    BY <1>4 DEF Alive
  <2>2. AliveExact'
    BY <1>2, <1>4, <2>1, AliveSets DEF IInv, AliveExact
  <2>3. processed' \in [Consumers -> Nat]
    <3>1. processed \in [Consumers -> Nat]
      BY DEF IInv, TypeOK
    <3> QED  BY <1>4, <3>1
  <2>4. hand' \in [Consumers -> Records \cup {NoRec}]
    BY <1>4 DEF IInv, TypeOK
  <2>5. unflushed' \in [Consumers -> SUBSET Records]
    BY <1>3, <1>4 DEF IInv, TypeOK
  <2>6. cpc' \in [Consumers -> {"none", "start", "loop", "get", "process", "idle",
                               "load_req", "check_used", "ack", "exit", "gone"}]
    BY <1>2 DEF IInv, TypeOK
  <2>7. UNCHANGED <<ring, mpc, flags, leaving, req, flushers, accepted, evicted, written>>
    BY <1>4
  <2> QED
    BY <2>2, <2>3, <2>4, <2>5, <2>6, <2>7 DEF IInv, TypeOK, ring, flags, flushers
<1>6. /\ InHand(c) = {hand[c]} /\ InHand(c)' = {}
      /\ unflushed[c]' = unflushed[c] \cup InHand(c)
      /\ \A d \in Consumers \ {c} : InHand(d)' = InHand(d) /\ unflushed[d]' = unflushed[d]
  BY <1>3, <1>4, ConsumerAssumption DEF IInv, TypeOK, InHand
<1>7. Located'
  <2>1. ASSUME NEW x \in accepted
        PROVE  \/ x \in InRing \/ x \in evicted \/ x \in written
               \/ \E d \in Consumers : x \in unflushed[d]' \/ x \in InHand(d)'
    <3>1. \/ x \in InRing \/ x \in evicted \/ x \in written
          \/ \E d \in Consumers : x \in unflushed[d] \/ x \in InHand(d)
      BY DEF IInv, Located, Unflushed
    <3>2. ASSUME NEW d \in Consumers, x \in unflushed[d] \/ x \in InHand(d)
          PROVE  x \in unflushed[d]' \/ x \in InHand(d)'
      BY <1>6, <3>2
    <3> QED  BY <3>1, <3>2
  <2> QED  BY <1>1, <1>4, <2>1 DEF Located, Unflushed
<1>8. HandsEmpty' /\ Numbered' /\ FlushMeansWritten' /\ NoThreadLeft'
  BY <1>2, <1>4 DEF IInv, HandsEmpty, Numbered, FlushMeansWritten, NoThreadLeft, TypeOK
<1>9. \A f \in Flushers, d \in Consumers : Certified(f, d) => Certified(f, d)'
  BY <1>1, <1>4, <1>6 DEF Certified
<1>10. AckCertifies' /\ Counted'
  BY <1>4, <1>9 DEF IInv, AckCertifies, Counted
<1>11. Entitled' /\ Leaving'
  BY <1>1, <1>2, <1>4 DEF IInv, Entitled, Leaving, TypeOK
<1> QED  BY <1>5, <1>7, <1>8, <1>10, <1>11 DEF IInv


(* The outputs are flushed: whatever any consumer dispatched is written. *)
LEMMA FlushOutputsInv ==
    ASSUME IInv, NEW c \in Consumers, FlushOutputs(c)
    PROVE  IInv'
<1>1. /\ cpc' = [cpc EXCEPT ![c] = "load_req"]
      /\ cpc[c] = "idle"
      /\ written' = written \cup Unflushed
      /\ unflushed' = [d \in Consumers |-> {}]
      /\ UNCHANGED <<ring, mpc, flags, leaving, hand, processed, req, flushers, accepted, evicted>>
  BY DEF FlushOutputs, At, Goto, Unflushed
<1>2. InRing' = InRing /\ Unflushed' = {} /\ \A d \in Consumers : InHand(d)' = InHand(d)
  BY <1>1 DEF InRing, Unflushed, InHand
<1>3. TypeOK' /\ AliveExact'
  <2>1. c \in Alive
    BY <1>1 DEF Alive
  <2>2. AliveExact'
    <3>1. Alive' = Alive
      BY <1>1, <2>1, AliveSets DEF IInv
    <3> QED  BY <1>1, <3>1 DEF IInv, AliveExact
  <2>3. Unflushed \subseteq Records
    BY DEF IInv, TypeOK, Unflushed
  <2> QED  BY <1>1, <2>2, <2>3 DEF IInv, TypeOK
<1>4. Located'
  BY <1>1, <1>2 DEF IInv, Located
<1>5. HandsEmpty' /\ Numbered' /\ FlushMeansWritten' /\ NoThreadLeft'
  BY <1>1 DEF IInv, HandsEmpty, Numbered, FlushMeansWritten, NoThreadLeft, TypeOK
<1>6. AckCertifies' /\ Counted' /\ Entitled'
  BY <1>1, <1>2 DEF IInv, AckCertifies, Counted, Entitled, Certified, TypeOK
<1>7. Leaving'
  BY <1>1, <1>2 DEF IInv, Leaving, TypeOK
<1> QED  BY <1>3, <1>4, <1>5, <1>6, <1>7 DEF IInv

(* Every initial state satisfies the inductive invariant. *)
LEMMA InvInit ==
    ASSUME Init
    PROVE  IInv
<1> USE ConsumerAssumption DEF Init, Ring!Init
<1>1. TypeOK
  <2>1. 0 \in 0 .. ConsumerCount
    OBVIOUS
  <2>2. <<>> \in Seq(Records)
    OBVIOUS
  <2> QED  BY <2>1, <2>2 DEF TypeOK
<1>2. AliveExact
  <2>1. Alive = {}
    BY DEF Alive
  <2> QED  BY <2>1, FS_EmptySet DEF AliveExact
<1>3. Located /\ HandsEmpty /\ Numbered /\ Leaving /\ NoThreadLeft
  BY DEF Located, HandsEmpty, Numbered, Leaving, NoThreadLeft
<1>4. AckCertifies /\ Entitled /\ Counted /\ FlushMeansWritten
  BY DEF AckCertifies, Entitled, Counted, FlushMeansWritten
<1> QED  BY <1>1, <1>2, <1>3, <1>4 DEF IInv

(* Every step preserves it. *)
LEMMA InvStep ==
    ASSUME IInv, [Next]_vars
    PROVE  IInv'
<1>1. ASSUME NEW c \in Consumers, StartThread(c) \/ ConsumerStep(c) \/ Process(c)
      PROVE  IInv'
  BY <1>1, QuietConsumerInv, GetRecordInv, FlushOutputsInv, ProcessInv DEF ConsumerStep
<1>2. ASSUME StartFails \/ RingClose \/ StopStep \/ Stopped
      PROVE  IInv'
  BY <1>2, MainInv
<1>3. ASSUME NEW r \in Records, Put(r)
      PROVE  IInv'
  BY <1>3, PutInv
<1>4. ASSUME Evict
      PROVE  IInv'
  BY <1>4, EvictInv
<1>5. ASSUME NEW f \in Flushers, FlushCall(f) \/ FlushStep(f)
      PROVE  IInv'
  BY <1>5, FlushInv
<1>6. CASE UNCHANGED vars
  <2> USE <1>6 DEF vars
  <2>1. TypeOK'
    BY DEF IInv, TypeOK
  <2>2. InRing' = InRing /\ Unflushed' = Unflushed /\ \A d \in Consumers : InHand(d)' = InHand(d)
    BY DEF InRing, Unflushed, InHand
  <2>3. Located' /\ HandsEmpty' /\ Numbered' /\ AliveExact' /\ Leaving' /\ NoThreadLeft'
    BY <2>2 DEF IInv, Located, HandsEmpty, Numbered, AliveExact, Alive, Leaving, NoThreadLeft
  <2>4. AckCertifies' /\ Entitled' /\ Counted' /\ FlushMeansWritten'
    BY <2>2 DEF IInv, AckCertifies, Entitled, Counted, Certified, FlushMeansWritten
  <2> QED  BY <2>1, <2>3, <2>4 DEF IInv
<1> QED  BY <1>1, <1>2, <1>3, <1>4, <1>5, <1>6 DEF Next

(* The inductive invariant of the consumer threads holds in every          *)
(* reachable state.                                                        *)
THEOREM ConsumerInvariant == SafetySpec => []IInv
<1>1. Init => IInv
  BY InvInit
<1>2. IInv /\ [Next]_vars => IInv'
  BY InvStep
<1> QED  BY <1>1, <1>2, PTL DEF SafetySpec

(* hpulogc_flush keeps its word: a flush that returns HPULOGC_OK returns   *)
(* after every record accepted before the call was submitted by the        *)
(* outputs or removed by the overwrite policy.                             *)
THEOREM FlushKeepsItsWord == SafetySpec => []FlushMeansWritten
<1>1. IInv => FlushMeansWritten
  BY DEF IInv
<1> QED  BY <1>1, ConsumerInvariant, PTL

(* A consumer's answer certifies that it has nothing left to do for the    *)
(* request, for as long as the answer stays visible.                       *)
THEOREM AnswersCertify == SafetySpec => []AckCertifies
<1>1. IInv => AckCertifies
  BY DEF IInv
<1> QED  BY <1>1, ConsumerInvariant, PTL

(* Stopping the consumers drains the ring: after the join every accepted   *)
(* record was submitted to the outputs or overwritten, and no thread is    *)
(* left that could touch the ring when it is freed.                        *)
THEOREM StopDrains == SafetySpec => [](ShutdownDrains /\ NoThreadLeft)
<1>1. IInv => ShutdownDrains /\ NoThreadLeft
  <2> SUFFICES ASSUME IInv, mpc = "stopped", NEW c \in Consumers, leaving[c]
               PROVE  accepted \subseteq written \cup evicted
    BY DEF IInv, ShutdownDrains
  <2>1. \A d \in Consumers : cpc[d] \in {"none", "gone"}
    BY DEF IInv, NoThreadLeft
  <2>2. \A d \in Consumers : InHand(d) = {} /\ unflushed[d] = {}
    BY <2>1 DEF IInv, HandsEmpty, InHand
  <2>3. InRing = {}
    BY <2>1 DEF IInv, Leaving
  <2>4. Unflushed = {} /\ UNION {InHand(d) : d \in Consumers} = {}
    BY <2>2 DEF Unflushed
  <2> QED  BY <2>3, <2>4 DEF IInv, Located
<1> QED  BY <1>1, ConsumerInvariant, PTL
=============================================================================
