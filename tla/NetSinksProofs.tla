--------------------------- MODULE NetSinksProofs ---------------------------
(***************************************************************************)
(* Proofs about the stream sinks: for any number of events, any batch and  *)
(* buffer sizes and any way the peer answers, what a peer receives is in   *)
(* order and at most once, a cut frame ends its connection, and a sink     *)
(* that cannot connect backs off.                                          *)
(***************************************************************************)
EXTENDS NetSinks, SequenceTheorems, FiniteSetTheorems, TLAPS

Frame == [ev : 0 .. MaxEvents, part : {"whole", "piece", "open"}]

Increasing(b) == \A j, k \in DOMAIN b : j < k => b[j] < b[k]

Ordered(s) ==
    \A i, j \in DOMAIN s :
        i < j /\ s[i].ev # 0 /\ s[j].ev # 0 => s[i].ev < s[j].ev

(* The peer was sent s, the records b are to follow, and all of them are   *)
(* among the first n events.                                               *)
Delivering(s, b, n) ==
    /\ s \in Seq(Frame) /\ b \in Seq(Events) /\ n \in Nat
    /\ Ordered(s) /\ Increasing(b)
    /\ \A i \in DOMAIN s : s[i].ev <= n
    /\ \A k \in DOMAIN b : b[k] <= n
    /\ \A i \in DOMAIN s, k \in DOMAIN b : s[i].ev < b[k]

(* t is what a send of the records b may put on the stream. *)
SentBy(t, b) ==
    /\ t \in Seq(Frame)
    /\ Len(t) <= Len(b)
    /\ \A i \in 1 .. Len(t) :
          t[i].ev = b[i] /\ t[i].part # "open" /\ (t[i].part = "piece" => i = Len(t))

Unbroken(t) == \A i \in 1 .. Len(t) : t[i].part # "piece"

(* Every cut frame of s is followed by a new connection, or is the last    *)
(* thing on one that is closed.                                            *)
CutsEnd(s, f) ==
    \A i \in DOMAIN s :
        s[i].part = "piece" => IF i = Len(s) THEN f # "open" ELSE s[i + 1].part = "open"

LEMMA EventsNat == Events \subseteq Nat \ {0} /\ MaxEvents \in Nat
BY SizeAssumption DEF Events

LEMMA SeqOfEvents ==
    ASSUME NEW b \in Seq(Events), NEW k \in DOMAIN b
    PROVE  b[k] \in Events /\ b[k] \in Nat /\ b[k] # 0
<1>1. b[k] \in Events
  OBVIOUS
<1> QED  BY <1>1, EventsNat

LEMMA SeqOfFrames ==
    ASSUME NEW s \in Seq(Frame), NEW i \in DOMAIN s
    PROVE  s[i].ev \in Nat
<1>1. s[i] \in Frame
  OBVIOUS
<1> QED  BY <1>1, EventsNat DEF Frame

-----------------------------------------------------------------------------
(* The stream as a sequence *)

LEMMA DeliveringMore ==
    ASSUME NEW s, NEW b, NEW n, NEW m \in Nat, Delivering(s, b, n), n <= m
    PROVE  Delivering(s, b, m) /\ Delivering(s, <<>>, m)
<1>1. n \in Nat /\ s \in Seq(Frame) /\ b \in Seq(Events)
  BY DEF Delivering
<1>2. \A i \in DOMAIN s : s[i].ev \in Nat
  BY <1>1, SeqOfFrames
<1>3. \A k \in DOMAIN b : b[k] \in Nat
  BY <1>1, SeqOfEvents
<1>4. /\ \A i \in DOMAIN s : s[i].ev <= m
      /\ \A k \in DOMAIN b : b[k] <= m
  BY <1>1, <1>2, <1>3 DEF Delivering
<1>5. <<>> \in Seq(Events) /\ DOMAIN <<>> = {}
  OBVIOUS
<1> QED  BY <1>4, <1>5 DEF Delivering, Increasing

(* A new connection. *)
LEMMA DeliveringOpening ==
    ASSUME NEW s, NEW b, NEW n, Delivering(s, b, n)
    PROVE  Delivering(Append(s, Opening), b, n)
<1>1. n \in Nat /\ s \in Seq(Frame) /\ b \in Seq(Events)
  BY DEF Delivering
<1>2. Opening \in Frame /\ Opening.ev = 0
  BY EventsNat DEF Opening, Frame
<1> DEFINE u == Append(s, Opening)
<1>3. u \in Seq(Frame) /\ DOMAIN u = 1 .. Len(s) + 1 /\ DOMAIN s = 1 .. Len(s) /\ Len(s) \in Nat
      /\ u[Len(s) + 1] = Opening /\ \A i \in 1 .. Len(s) : u[i] = s[i]
  BY <1>1, <1>2
<1> HIDE DEF u
<1>4. Ordered(u)
  BY <1>2, <1>3 DEF Delivering, Ordered
<1>5. \A i \in DOMAIN u : u[i].ev <= n
  BY <1>1, <1>2, <1>3 DEF Delivering
<1>6. \A i \in DOMAIN u, k \in DOMAIN b : u[i].ev < b[k]
  <2> TAKE i \in DOMAIN u, k \in DOMAIN b
  <2>1. b[k] \in Nat \ {0}
    BY <1>1, SeqOfEvents
  <2> QED  BY <1>1, <1>2, <1>3, <2>1 DEF Delivering
<1> QED  BY <1>3, <1>4, <1>5, <1>6 DEF Delivering, u

(* The record after the last one joins those that are to follow. *)
LEMMA DeliveringNext ==
    ASSUME NEW s, NEW b, NEW n, NEW e \in Events, Delivering(s, b, n), e = n + 1
    PROVE  Delivering(s, Append(b, e), e)
<1>1. n \in Nat /\ s \in Seq(Frame) /\ b \in Seq(Events) /\ e \in Nat
  BY EventsNat DEF Delivering
<1> DEFINE u == Append(b, e)
<1>2. u \in Seq(Events) /\ DOMAIN u = 1 .. Len(b) + 1 /\ DOMAIN b = 1 .. Len(b) /\ Len(b) \in Nat
      /\ u[Len(b) + 1] = e /\ \A i \in 1 .. Len(b) : u[i] = b[i]
  BY <1>1
<1> HIDE DEF u
<1>3. \A k \in DOMAIN b : b[k] \in Nat /\ b[k] <= n
  BY <1>1, SeqOfEvents DEF Delivering
<1>4. \A i \in DOMAIN s : s[i].ev \in Nat /\ s[i].ev <= n
  BY <1>1, SeqOfFrames DEF Delivering
<1>5. Increasing(u)
  BY <1>1, <1>2, <1>3 DEF Increasing, Delivering
<1>6. \A k \in DOMAIN u : u[k] <= e
  BY <1>1, <1>2, <1>3
<1>7. \A i \in DOMAIN s, k \in DOMAIN u : s[i].ev < u[k]
  BY <1>1, <1>2, <1>4 DEF Delivering
<1>8. \A i \in DOMAIN s : s[i].ev <= e
  BY <1>1, <1>4
<1> QED  BY <1>1, <1>2, <1>5, <1>6, <1>7, <1>8 DEF Delivering, u

(* What was to follow is sent, whole or in part. *)
LEMMA DeliveringSent ==
    ASSUME NEW s, NEW b, NEW n, NEW t, Delivering(s, b, n), SentBy(t, b)
    PROVE  Delivering(s \o t, <<>>, n)
<1>1. n \in Nat /\ s \in Seq(Frame) /\ b \in Seq(Events) /\ t \in Seq(Frame) /\ Len(t) <= Len(b)
  BY DEF Delivering, SentBy
<1> DEFINE u == s \o t
<1>2. /\ u \in Seq(Frame) /\ DOMAIN u = 1 .. Len(s) + Len(t)
      /\ DOMAIN s = 1 .. Len(s) /\ DOMAIN b = 1 .. Len(b)
      /\ Len(s) \in Nat /\ Len(t) \in Nat /\ Len(b) \in Nat
      /\ \A i \in 1 .. Len(s) : u[i] = s[i]
      /\ \A i \in Len(s) + 1 .. Len(s) + Len(t) : u[i] = t[i - Len(s)]
  BY <1>1
<1> HIDE DEF u
<1>3. \A k \in 1 .. Len(b) : b[k] \in Nat /\ b[k] <= n
  BY <1>1, <1>2, SeqOfEvents DEF Delivering
<1>4. \A i \in Len(s) + 1 .. Len(s) + Len(t) : i - Len(s) \in 1 .. Len(b) /\ u[i].ev = b[i - Len(s)]
  BY <1>1, <1>2 DEF SentBy
<1>5. \A i \in DOMAIN u : u[i].ev <= n
  <2> TAKE i \in DOMAIN u
  <2>1. CASE i \in 1 .. Len(s)
    BY <1>2, <2>1 DEF Delivering
  <2>2. CASE i \in Len(s) + 1 .. Len(s) + Len(t)
    BY <1>3, <1>4, <2>2
  <2> QED  BY <1>2, <2>1, <2>2
<1>6. Ordered(u)
  <2> SUFFICES ASSUME NEW i \in DOMAIN u, NEW j \in DOMAIN u, i < j, u[i].ev # 0, u[j].ev # 0
               PROVE  u[i].ev < u[j].ev
    BY DEF Ordered
  <2>1. CASE j \in 1 .. Len(s)
    <3>1. i \in 1 .. Len(s)
      BY <1>2, <2>1
    <3> QED  BY <1>2, <2>1, <3>1 DEF Delivering, Ordered
  <2>2. CASE i \in 1 .. Len(s) /\ j \in Len(s) + 1 .. Len(s) + Len(t)
    BY <1>2, <1>4, <2>2 DEF Delivering
  <2>3. CASE i \in Len(s) + 1 .. Len(s) + Len(t) /\ j \in Len(s) + 1 .. Len(s) + Len(t)
    <3>1. i - Len(s) < j - Len(s)
      BY <1>2, <2>3
    <3>2. i - Len(s) \in DOMAIN b /\ j - Len(s) \in DOMAIN b
      BY <1>2, <1>4, <2>3
    <3>3. b[i - Len(s)] < b[j - Len(s)]
      BY <3>1, <3>2 DEF Delivering, Increasing
    <3> QED  BY <1>4, <2>3, <3>3
  <2> QED  BY <1>2, <2>1, <2>2, <2>3
<1>7. <<>> \in Seq(Events) /\ DOMAIN <<>> = {}
  OBVIOUS
<1> QED  BY <1>1, <1>2, <1>5, <1>6, <1>7 DEF Delivering, Increasing, u

(* One record is sent and nothing was to follow. *)
LEMMA DeliveringRecord ==
    ASSUME NEW s, NEW n, NEW e \in Events, NEW t,
           Delivering(s, <<>>, n), e = n + 1, SentBy(t, <<e>>)
    PROVE  Delivering(s \o t, <<>>, e)
<1>1. Append(<<>>, e) = <<e>>
  OBVIOUS
<1>2. Delivering(s, <<e>>, e)
  BY <1>1, DeliveringNext
<1> QED  BY <1>2, DeliveringSent

(* What one more frame does to the cuts. *)
LEMMA CutsOpening ==
    ASSUME NEW s \in Seq(Frame), NEW f, NEW g, CutsEnd(s, f)
    PROVE  CutsEnd(Append(s, Opening), g)
<1> DEFINE u == Append(s, Opening)
<1>1. DOMAIN u = 1 .. Len(s) + 1 /\ DOMAIN s = 1 .. Len(s) /\ Len(s) \in Nat /\ Len(u) = Len(s) + 1
      /\ u[Len(s) + 1] = Opening /\ \A i \in 1 .. Len(s) : u[i] = s[i]
  OBVIOUS
<1>2. Opening.part = "open"
  BY DEF Opening
<1> HIDE DEF u
<1> SUFFICES ASSUME NEW i \in DOMAIN u, u[i].part = "piece"
             PROVE  i # Len(u) /\ u[i + 1].part = "open"
  BY DEF CutsEnd, u
<1>3. i \in 1 .. Len(s) /\ s[i].part = "piece"
  BY <1>1, <1>2
<1>4. CASE i = Len(s)
  BY <1>1, <1>2, <1>4
<1>5. CASE i # Len(s)
  <2>1. i + 1 \in 1 .. Len(s) /\ s[i + 1].part = "open"
    BY <1>1, <1>3, <1>5 DEF CutsEnd
  <2> QED  BY <1>1, <1>3, <1>5, <2>1
<1> QED  BY <1>4, <1>5

LEMMA CutsClosed ==
    ASSUME NEW s, NEW f, NEW g, CutsEnd(s, f), g # "open"
    PROVE  CutsEnd(s, g)
BY DEF CutsEnd

(* A send on an open connection: its frames are whole or the connection    *)
(* is closed in the same step.                                             *)
LEMMA CutsSent ==
    ASSUME NEW s \in Seq(Frame), NEW b, NEW t, NEW g,
           CutsEnd(s, "open"), SentBy(t, b), Unbroken(t) \/ g # "open"
    PROVE  CutsEnd(s \o t, g)
<1> DEFINE u == s \o t
<1>1. /\ DOMAIN u = 1 .. Len(s) + Len(t) /\ DOMAIN s = 1 .. Len(s) /\ Len(u) = Len(s) + Len(t)
      /\ Len(s) \in Nat /\ Len(t) \in Nat
      /\ \A i \in 1 .. Len(s) : u[i] = s[i]
      /\ \A i \in Len(s) + 1 .. Len(s) + Len(t) : u[i] = t[i - Len(s)]
  BY DEF SentBy
<1> HIDE DEF u
<1> SUFFICES ASSUME NEW i \in DOMAIN u, u[i].part = "piece"
             PROVE  IF i = Len(u) THEN g # "open" ELSE u[i + 1].part = "open"
  BY DEF CutsEnd, u
<1>2. CASE i \in 1 .. Len(s)
  <2>1. i # Len(s) /\ s[i + 1].part = "open"
    BY <1>1, <1>2 DEF CutsEnd
  <2>2. i + 1 \in 1 .. Len(s) /\ i # Len(u)
    BY <1>1, <1>2, <2>1
  <2> QED  BY <1>1, <2>1, <2>2
<1>3. CASE i \in Len(s) + 1 .. Len(s) + Len(t)
  <2>1. i - Len(s) \in 1 .. Len(t) /\ t[i - Len(s)].part = "piece"
    BY <1>1, <1>3
  <2>2. i - Len(s) = Len(t) /\ g # "open"
    BY <2>1 DEF SentBy, Unbroken
  <2> QED  BY <1>1, <1>3, <2>2
<1> QED  BY <1>1, <1>2, <1>3

-----------------------------------------------------------------------------
(* What the socket calls put on the stream *)

LEMMA FramesSent ==
    ASSUME NEW b \in Seq(Events)
    PROVE  SentBy(Frames(b), b) /\ Unbroken(Frames(b)) /\ Len(Frames(b)) = Len(b)
<1>1. \A i \in 1 .. Len(b) : Whole(b[i]) \in Frame
  <2> TAKE i \in 1 .. Len(b)
  <2>1. b[i] \in 0 .. MaxEvents
    BY EventsNat DEF Events
  <2> QED  BY <2>1 DEF Whole, Frame
<1>2. Len(b) \in Nat
  OBVIOUS
<1> DEFINE e(i) == Whole(b[i])
<1>3. \A i \in 1 .. Len(b) : e(i) \in Frame
  BY <1>1
<1> HIDE DEF e
<1>4. [i \in 1 .. Len(b) |-> e(i)] \in Seq(Frame)
  BY <1>2, <1>3, IsASeq
<1>5. Frames(b) = [i \in 1 .. Len(b) |-> e(i)]
  BY DEF Frames, e
<1>6. Len(Frames(b)) = Len(b) /\ \A i \in 1 .. Len(b) : Frames(b)[i] = e(i)
  BY <1>2, <1>5
<1>7. \A i \in 1 .. Len(b) : e(i).ev = b[i] /\ e(i).part = "whole"
  BY DEF e, Whole
<1>8. Frames(b) \in Seq(Frame)
  BY <1>4, <1>5
<1> DEFINE F == Frames(b)
<1> HIDE DEF F
<1>9. F \in Seq(Frame) /\ Len(F) = Len(b) /\ Len(F) <= Len(b)
  BY <1>2, <1>6, <1>8 DEF F
<1>10. \A i \in 1 .. Len(F) : F[i].ev = b[i] /\ F[i].part = "whole"
  BY <1>6, <1>7, <1>9 DEF F
<1>11. SentBy(F, b) /\ Unbroken(F)
  BY <1>9, <1>10 DEF SentBy, Unbroken
<1> QED  BY <1>9, <1>11 DEF F

LEMMA TornSent ==
    ASSUME NEW b \in Seq(Events), NEW t \in Torn(b)
    PROVE  SentBy(t, b)
<1>1. ASSUME NEW k \in 0 .. Len(b), t = Frames(SubSeq(b, 1, k))
      PROVE  SentBy(t, b)
  <2> DEFINE c == SubSeq(b, 1, k)
  <2>1. c \in Seq(Events) /\ Len(c) = k /\ \A i \in 1 .. k : c[i] = b[i]
    OBVIOUS
  <2> HIDE DEF c
  <2>2. t = Frames(c)
    BY <1>1 DEF c
  <2> QED  BY <2>1, <2>2, FramesSent DEF SentBy
<1>2. ASSUME NEW k \in 1 .. Len(b), t = Append(Frames(SubSeq(b, 1, k - 1)), Piece(b[k]))
      PROVE  SentBy(t, b)
  <2> DEFINE d == SubSeq(b, 1, k - 1)
  <2> DEFINE c == Frames(d)
  <2>1. d \in Seq(Events) /\ Len(d) = k - 1 /\ \A i \in 1 .. k - 1 : d[i] = b[i]
    OBVIOUS
  <2> HIDE DEF d
  <2>7. SentBy(c, d) /\ Unbroken(c) /\ Len(c) = k - 1
    BY <2>1, FramesSent
  <2> HIDE DEF c
  <2>2. /\ c \in Seq(Frame) /\ Len(c) = k - 1
        /\ \A i \in 1 .. k - 1 : c[i].ev = b[i] /\ c[i].part # "open" /\ c[i].part # "piece"
    BY <2>1, <2>7 DEF SentBy, Unbroken
  <2>3. b[k] \in 0 .. MaxEvents
    BY EventsNat DEF Events
  <2>4. Piece(b[k]) \in Frame /\ Piece(b[k]).ev = b[k] /\ Piece(b[k]).part = "piece"
    BY <2>3 DEF Piece, Frame
  <2>5. t = Append(c, Piece(b[k]))
    BY <1>2 DEF c, d
  <2>6. /\ t \in Seq(Frame) /\ Len(t) = k /\ t[k] = Piece(b[k])
        /\ \A i \in 1 .. k - 1 : t[i] = c[i]
    BY <2>2, <2>4, <2>5
  <2> QED  BY <2>2, <2>4, <2>6 DEF SentBy
<1> QED  BY <1>1, <1>2 DEF Torn

(* hpu_net_send: everything, or a part and an error; nothing without a     *)
(* descriptor.                                                             *)
LEMMA SendEffect ==
    ASSUME NEW b \in Seq(Events), NEW ok \in BOOLEAN, hpu_net_send(b, ok), stream \in Seq(Frame)
    PROVE  \E t : /\ SentBy(t, b) /\ stream' = stream \o t
                  /\ ok => fd = "open" /\ Unbroken(t) /\ Len(t) = Len(b)
                  /\ fd # "open" => t = <<>>
<1>1. CASE ok
  BY <1>1, FramesSent DEF hpu_net_send
<1>2. CASE ~ok /\ fd = "open"
  BY <1>2, TornSent DEF hpu_net_send
<1>3. CASE ~ok /\ fd # "open"
  <2>1. stream' = stream \o <<>>
    BY <1>3 DEF hpu_net_send
  <2>2. SentBy(<<>>, b)
    BY DEF SentBy
  <2> QED  BY <1>3, <2>1, <2>2
<1> QED  BY <1>1, <1>2, <1>3

(* One frame by itself, whole or cut. *)
LEMMA OneSent ==
    ASSUME NEW e \in Events, NEW f \in {Whole(e), Piece(e)}
    PROVE  SentBy(<<f>>, <<e>>) /\ SentBy(<<>>, <<e>>) /\ <<e>> \in Seq(Events)
<1>1. e \in 0 .. MaxEvents
  BY EventsNat DEF Events
<1>2. f \in Frame /\ f.ev = e /\ f.part # "open"
  BY <1>1 DEF Whole, Piece, Frame
<1> QED  BY <1>2 DEF SentBy

-----------------------------------------------------------------------------
(* The invariant *)

(* The last event the call in progress has dealt with. *)
Reached == handed - Len(batch) + at - 1

(* A call works through the latest events in order; only a stream sink     *)
(* with a queue keeps records, and only during a call.                     *)
CallInv ==
    /\ kind \in SocketKinds \cup {"fifo"}
    /\ handed \in Nat
    /\ pc \in {"idle", "begin", "loop"}
    /\ batch \in Seq(Events) /\ at \in 1 .. Len(batch) + 1 /\ Len(batch) <= handed
    /\ \A k \in 1 .. Len(batch) : batch[k] = handed - Len(batch) + k
    /\ pc # "loop" => body = <<>> /\ at = 1
    /\ pc = "idle" => batch = <<>>
    /\ body # <<>> => kind = "http" \/ (async /\ kind \in {"tcp", "stream"})

StreamInv ==
    /\ Delivering(stream, body, Reached)
    /\ kind \in StreamKinds => CutsEnd(stream, fd)

DInv == CallInv /\ StreamInv

LEMMA InitHolds == Init => DInv
<1> SUFFICES ASSUME Init  PROVE DInv
  OBVIOUS
<1>1. CallInv
  BY KindAssumption DEF Init, CallInv
<1>4. <<>> \in Seq(Frame) /\ <<>> \in Seq(Events) /\ DOMAIN <<>> = {} /\ Len(<<>>) = 0
  OBVIOUS
<1>5. handed = 0 /\ at = 1
  BY DEF Init
<1>6. Len(batch) = 0
  BY <1>4 DEF Init
<1>7. handed - Len(batch) + at - 1 = 0
  BY <1>5, <1>6
<1>2. Reached = 0
  BY <1>7 DEF Reached
<1>3. StreamInv
  BY <1>2, <1>4 DEF Init, StreamInv, Delivering, Ordered, Increasing, CutsEnd
<1> QED  BY <1>1, <1>3 DEF DInv

(* The event at hand is the next one. *)
LEMMA NextEvent ==
    ASSUME CallInv, More
    PROVE  ev \in Events /\ ev = Reached + 1 /\ ev <= handed /\ Reached \in Nat
BY EventsNat DEF CallInv, More, ev, Reached

LEMMA ReachedNat ==
    ASSUME CallInv
    PROVE  Reached \in Nat /\ Reached <= handed
BY DEF CallInv, Reached

(* The call ends: everything handed over is dealt with. *)
LEMMA IdleKeeps ==
    ASSUME CallInv, Idle, body' = <<>>, UNCHANGED <<kind, async, handed>>
    PROVE  CallInv' /\ Reached' = handed
<1>1. <<>> \in Seq(Events) /\ Len(<<>>) = 0
  OBVIOUS
<1> QED  BY <1>1 DEF CallInv, Idle, Reached

(* The call goes on to the next record. *)
LEMMA RecordKeeps ==
    ASSUME CallInv, More, Next_record, UNCHANGED <<kind, async, handed>>,
           body' # <<>> => kind = "http" \/ (async /\ kind \in {"tcp", "stream"})
    PROVE  CallInv' /\ Reached' = ev
BY NextEvent DEF CallInv, More, Next_record, Reached

LEMMA SentKeeps ==
    ASSUME NEW b, NEW n, NEW ok \in BOOLEAN, Delivering(stream, b, n),
           kind \in StreamKinds => CutsEnd(stream, fd), hpu_net_send(b, ok)
    PROVE  /\ Delivering(stream', <<>>, n)
           /\ kind \in StreamKinds => /\ CutsEnd(stream', "closed")
                                      /\ ok => CutsEnd(stream', fd)
<1>0. b \in Seq(Events) /\ stream \in Seq(Frame)
  BY DEF Delivering
<1> PICK t : /\ SentBy(t, b) /\ stream' = stream \o t
             /\ ok => fd = "open" /\ Unbroken(t)
             /\ fd # "open" => t = <<>>
  BY <1>0, SendEffect
<1>1. Delivering(stream', <<>>, n)
  BY DeliveringSent
<1>2. ASSUME kind \in StreamKinds
      PROVE  CutsEnd(stream', "closed") /\ (ok => CutsEnd(stream', fd))
  <2>1. CASE fd = "open"
    BY <1>0, <1>2, <2>1, CutsSent
  <2>2. CASE fd # "open"
    <3>1. stream' = stream
      BY <1>0, <2>2
    <3> QED  BY <1>2, <2>2, <3>1, CutsClosed
  <2> QED  BY <2>1, <2>2
<1> QED  BY <1>1, <1>2

(* A connection that broke is closed and its records are dropped. *)
LEMMA MarkEffect ==
    ASSUME MarkDisconnected
    PROVE  fd' = "closed" /\ (kind # "fifo" => body' = <<>>) /\ (kind = "fifo" => body' = body)
BY DEF MarkDisconnected, tcp_mark_disconnected, http_mark_disconnected,
       unix_mark_disconnected, fifo_arm_backoff, CloseFd

(* A connection attempt: a new connection, or none. *)
LEMMA OpenEffect ==
    ASSUME NEW ok \in BOOLEAN, kind \in SocketKinds, Open(ok)
    PROVE  /\ fd' = IF ok THEN "open" ELSE "closed"
           /\ stream' = IF ok THEN Append(stream, Opening) ELSE stream
BY DEF SocketKinds, StreamKinds, Open, hpu_net_stream_open, hpu_net_dgram_open,
       hpu_net_unix_stream_open, hpu_net_unix_dgram_open, http_connect

LEMMA ReconnectEffect ==
    ASSUME NEW ok \in BOOLEAN, kind \in SocketKinds \cup {"fifo"}, Reconnect(ok)
    PROVE  /\ fd' = IF ok THEN "open" ELSE "closed"
           /\ stream' = IF ok THEN Append(stream, Opening) ELSE stream
           /\ body' = body
<1>1. CASE kind = "fifo"
  BY <1>1 DEF Reconnect, fifo_try_reopen, fifo_open_write_end, fifo_arm_backoff, CloseFd
<1>2. CASE kind \in SocketKinds
  <2>1. tcp_reconnect(ok)
    BY <1>2 DEF Reconnect, http_reconnect, unix_reconnect, SocketKinds, StreamKinds
  <2> QED  BY <1>2, <2>1, OpenEffect DEF tcp_reconnect
<1> QED  BY <1>1, <1>2

(* Either way the stream stays sound. *)
LEMMA ConnectKeeps ==
    ASSUME DInv, NEW ok \in BOOLEAN,
           fd' = IF ok THEN "open" ELSE "closed",
           stream' = IF ok THEN Append(stream, Opening) ELSE stream
    PROVE  /\ Delivering(stream', body, Reached)
           /\ kind \in StreamKinds => CutsEnd(stream', fd')
<1>1. stream \in Seq(Frame) /\ Delivering(stream, body, Reached)
  BY DEF DInv, StreamInv, Delivering
<1> QED  BY <1>1, DeliveringOpening, CutsOpening, CutsClosed DEF DInv, StreamInv

-----------------------------------------------------------------------------
(* Each action keeps it *)

(* Nothing of the call, of what was sent or of the records changed, and    *)
(* the connection at most closed.                                          *)
LEMMA QuietKeeps ==
    ASSUME DInv, UNCHANGED <<kind, async, handed, pc, batch, at, body, stream>>,
           fd' = fd \/ fd' # "open"
    PROVE  DInv'
<1>1. CallInv' /\ Reached' = Reached
  BY DEF DInv, CallInv, Reached
<1>2. StreamInv'
  BY <1>1, CutsClosed DEF DInv, StreamInv
<1> QED  BY <1>1, <1>2 DEF DInv

LEMMA LifecycleKeeps ==
    ASSUME DInv, ConfigureFails \/ InitFails \/ StartFails \/ Tick \/ Destroy
    PROVE  DInv'
BY QuietKeeps DEF ConfigureFails, InitFails, StartFails, Tick, Destroy, CloseFd,
   setup, call, tally, history

LEMMA StartKeeps == ASSUME DInv, Start  PROVE DInv'
<1>1. kind \in SocketKinds \cup {"fifo"}
  BY DEF DInv, CallInv
<1>2. PICK ok \in BOOLEAN : /\ fd' = IF ok THEN "open" ELSE "closed"
                            /\ stream' = IF ok THEN Append(stream, Opening) ELSE stream
                            /\ body' = body
  <2>1. CASE kind = "fifo"
    BY <2>1 DEF Start, fifo_start, fifo_open_write_end, fifo_arm_backoff, CloseFd
  <2>2. CASE kind \in SocketKinds
    <3>1. Open(TRUE) /\ body' = body
      BY <2>2 DEF Start, tcp_start, udp_start, http_start, unix_start, SocketKinds, StreamKinds
    <3> QED  BY <2>2, <3>1, OpenEffect
  <2> QED  BY <1>1, <2>1, <2>2
<1>3. UNCHANGED <<kind, async, handed, pc, batch, at>>
  BY DEF Start, setup, call, tally
<1>4. CallInv' /\ Reached' = Reached
  BY <1>2, <1>3 DEF DInv, CallInv, Reached
<1>5. StreamInv'
  BY <1>2, <1>3, <1>4, ConnectKeeps DEF StreamInv
<1> QED  BY <1>4, <1>5 DEF DInv

LEMMA CallKeeps == ASSUME DInv, Call  PROVE DInv'
<1> PICK n \in 1 .. IF async THEN MaxBatch ELSE 1 :
        /\ handed + n <= MaxEvents
        /\ handed' = handed + n
        /\ batch' = [i \in 1 .. n |-> handed + i]
  BY DEF Call
<1>1. /\ pc = "idle" /\ pc' = "begin"
      /\ UNCHANGED <<kind, async, at, body, fd, stream>>
  BY DEF Call, setup, history
<1>2. handed \in Nat /\ body = <<>> /\ at = 1 /\ batch = <<>> /\ n \in Nat \ {0}
  BY <1>1, SizeAssumption DEF DInv, CallInv
<1>3. batch' \in Seq(Events) /\ Len(batch') = n /\ \A k \in 1 .. n : batch'[k] = handed + k
  <2>1. \A i \in 1 .. n : handed + i \in Events
    BY <1>2, EventsNat DEF Events
  <2> QED  BY <1>2, <2>1
<1>4. CallInv'
  BY <1>1, <1>2, <1>3 DEF DInv, CallInv
<1>5. Reached = handed /\ Reached' = handed
  <2>1. Len(<<>>) = 0
    OBVIOUS
  <2> QED  BY <1>1, <1>2, <1>3, <2>1 DEF Reached
<1>6. StreamInv'
  BY <1>1, <1>5 DEF DInv, StreamInv
<1> QED  BY <1>4, <1>6 DEF DInv

LEMMA BeginKeeps == ASSUME DInv, Begin  PROVE DInv'
<1>1. pc = "begin" /\ UNCHANGED <<kind, async, handed>>
  BY DEF Begin, setup
<1>2. body = <<>> /\ Reached \in Nat /\ Reached <= handed /\ handed \in Nat
      /\ kind \in SocketKinds \cup {"fifo"} /\ CallInv
  BY <1>1, ReachedNat DEF DInv, CallInv
<1>3. CASE pc' = "loop" /\ UNCHANGED <<fd, body, stream, call>>
  <2>1. CallInv' /\ Reached' = Reached
    BY <1>1, <1>3 DEF DInv, CallInv, Reached, call
  <2> QED  BY <1>1, <1>3, <2>1 DEF DInv, StreamInv
<1>4. CASE Reconnect(TRUE) /\ pc' = "loop" /\ UNCHANGED call
  <2>1. fd' = "open" /\ stream' = Append(stream, Opening) /\ body' = body
    BY <1>2, <1>4, ReconnectEffect
  <2>2. CallInv' /\ Reached' = Reached
    BY <1>1, <1>4, <2>1 DEF DInv, CallInv, Reached, call
  <2>3. Delivering(stream', body, Reached) /\ (kind \in StreamKinds => CutsEnd(stream', fd'))
    BY <2>1, ConnectKeeps
  <2> QED  BY <1>1, <2>1, <2>2, <2>3 DEF DInv, StreamInv
<1>5. CASE Idle /\ body' = body /\ stream' = stream /\ (fd' = fd \/ fd' = "closed")
  <2>1. CallInv' /\ Reached' = handed
    BY <1>1, <1>2, <1>5, IdleKeeps
  <2>2. Delivering(stream, <<>>, handed)
    BY <1>2, DeliveringMore DEF DInv, StreamInv
  <2>3. kind \in StreamKinds => CutsEnd(stream, fd')
    BY <1>5, CutsClosed DEF DInv, StreamInv
  <2> QED  BY <1>1, <1>2, <1>5, <2>1, <2>2, <2>3 DEF DInv, StreamInv
<1>6. CASE Reconnect(FALSE) /\ Return(0)
  <2>1. fd' = "closed" /\ stream' = stream /\ body' = body
    BY <1>2, <1>6, ReconnectEffect
  <2> QED  BY <1>5, <1>6, <2>1 DEF Return
<1>7. CASE Return(0) /\ UNCHANGED <<fd, body, stream>>
  BY <1>5, <1>7 DEF Return
<1> QED  BY <1>3, <1>4, <1>6, <1>7 DEF Begin

(* One record of the batch is sent by itself; what is to follow is empty.  *)
(* ok: it got through and the call goes on; otherwise the connection       *)
(* broke, or the record was refused or cut.                                *)
LEMMA RecordSent ==
    ASSUME DInv, More, body = <<>>, UNCHANGED <<kind, async, handed, body>>,
           Delivering(stream', <<>>, ev), Next_record \/ Idle,
           kind \in StreamKinds => CutsEnd(stream', fd')
    PROVE  DInv'
<1>1. ev \in Events /\ ev <= handed /\ handed \in Nat /\ CallInv
  BY NextEvent DEF DInv, CallInv
<1>2. CASE Next_record
  <2>1. CallInv' /\ Reached' = ev
    BY <1>1, <1>2, RecordKeeps
  <2> QED  BY <2>1 DEF DInv, StreamInv
<1>3. CASE Idle
  <2>1. CallInv' /\ Reached' = handed
    BY <1>1, <1>3, IdleKeeps
  <2>2. Delivering(stream', <<>>, handed)
    BY <1>1, DeliveringMore
  <2> QED  BY <2>1, <2>2 DEF DInv, StreamInv
<1> QED  BY <1>2, <1>3

(* Before it is sent the record at hand is what is to follow. *)
LEMMA HeldRecord ==
    ASSUME DInv, More, body = <<>>
    PROVE  Delivering(stream, <<ev>>, ev)
<1>1. ev \in Events /\ ev = Reached + 1
  BY NextEvent DEF DInv
<1>2. Delivering(stream, Append(<<>>, ev), ev)
  BY <1>1, DeliveringNext DEF DInv, StreamInv
<1> QED  BY <1>1, <1>2

LEMMA SkippedRecord ==
    ASSUME DInv, More, body = <<>>
    PROVE  Delivering(stream, <<>>, ev)
BY HeldRecord, EventsNat, NextEvent, DeliveringMore DEF DInv

LEMMA UdpKeeps == ASSUME DInv, udp_emit_batch  PROVE DInv'
<1>1. More /\ kind = "udp" /\ Next_record /\ UNCHANGED <<kind, async, handed, body>>
  BY DEF udp_emit_batch, setup, tally
<1>2. body = <<>> /\ kind \notin StreamKinds
  BY <1>1 DEF DInv, CallInv, StreamKinds
<1> PICK ok \in BOOLEAN : udp_send_one(ok)
  BY DEF udp_emit_batch
<1>3. CASE stream' = stream
  BY <1>1, <1>2, <1>3, SkippedRecord, RecordSent
<1>4. ASSUME NEW f \in {Whole(ev), Piece(ev)}, stream' = Append(stream, f)
      PROVE  DInv'
  <2>1. SentBy(<<f>>, <<ev>>)
    BY <1>1, OneSent, NextEvent DEF DInv
  <2>2. Delivering(stream \o <<f>>, <<>>, ev)
    BY <1>1, <1>2, <2>1, HeldRecord, DeliveringSent
  <2>3. stream' = stream \o <<f>>
    BY <1>4, <2>1 DEF DInv, StreamInv, Delivering, SentBy
  <2> QED  BY <1>1, <1>2, <2>2, <2>3, RecordSent
<1> QED  BY <1>3, <1>4 DEF udp_send_one

LEMMA DgramKeeps == ASSUME DInv, unix_send_dgram  PROVE DInv'
<1>1. More /\ kind = "dgram" /\ UNCHANGED <<kind, async, handed>>
  BY DEF unix_send_dgram, setup
<1>2. body = <<>> /\ kind \notin StreamKinds
  BY <1>1 DEF DInv, CallInv, StreamKinds
<1>3. body' = body /\ (Next_record \/ Idle)
  BY <1>1, <1>2, MarkEffect DEF unix_send_dgram, Broken, Return
<1>4. stream' = stream \/ stream' = Append(stream, Whole(ev))
  BY DEF unix_send_dgram, hpu_net_send_dgram
<1>5. CASE stream' = stream
  BY <1>1, <1>2, <1>3, <1>5, SkippedRecord, RecordSent
<1>6. CASE stream' = Append(stream, Whole(ev))
  <2>1. SentBy(<<Whole(ev)>>, <<ev>>)
    BY <1>1, OneSent, NextEvent DEF DInv
  <2>2. Delivering(stream \o <<Whole(ev)>>, <<>>, ev)
    BY <1>1, <1>2, <2>1, HeldRecord, DeliveringSent
  <2>3. stream' = stream \o <<Whole(ev)>>
    BY <1>6, <2>1 DEF DInv, StreamInv, Delivering, SentBy
  <2> QED  BY <1>1, <1>2, <1>3, <2>2, <2>3, RecordSent
<1> QED  BY <1>4, <1>5, <1>6

LEMMA FifoKeeps == ASSUME DInv, fifo_emit_batch  PROVE DInv'
<1>1. More /\ kind = "fifo" /\ UNCHANGED <<kind, async, handed>>
  BY DEF fifo_emit_batch, setup
<1>2. body = <<>> /\ kind \notin StreamKinds
  BY <1>1 DEF DInv, CallInv, StreamKinds
<1> PICK rc \in {"written", "full", "gone"} : fifo_deliver(rc)
  BY DEF fifo_emit_batch
<1>3. body' = body /\ (Next_record \/ Idle)
  BY DEF fifo_deliver, fifo_arm_backoff
<1>4. Delivering(stream', <<>>, ev)
  <2>1. hpu_net_send(<<ev>>, rc = "written") /\ (rc = "written") \in BOOLEAN
    BY DEF fifo_deliver, fifo_write_record
  <2> QED  BY <1>1, <1>2, <2>1, HeldRecord, SentKeeps
<1> QED  BY <1>1, <1>2, <1>3, <1>4, RecordSent

LEMMA SendFrameKeeps ==
    ASSUME DInv, More, SendFrame, body = <<>>, kind \in StreamKinds
    PROVE  DInv'
<1>1. UNCHANGED <<kind, async, handed>>
  BY DEF SendFrame, setup
<1>2. Delivering(stream, <<ev>>, ev) /\ CutsEnd(stream, fd)
  BY HeldRecord DEF DInv, StreamInv
<1>3. CASE hpu_net_send(<<ev>>, TRUE) /\ Next_record /\ UNCHANGED <<fd, body>>
  <2>1. Delivering(stream', <<>>, ev) /\ CutsEnd(stream', fd')
    BY <1>2, <1>3, SentKeeps
  <2> QED  BY <1>1, <1>3, <2>1, RecordSent
<1>4. CASE hpu_net_send(<<ev>>, FALSE) /\ Broken(done)
  <2>1. fd' = "closed" /\ body' = body /\ Idle
    BY <1>4, MarkEffect DEF Broken, Return, StreamKinds
  <2>2. Delivering(stream', <<>>, ev) /\ CutsEnd(stream', fd')
    BY <1>2, <1>4, <2>1, SentKeeps
  <2> QED  BY <1>1, <2>1, <2>2, RecordSent
<1> QED  BY <1>3, <1>4 DEF SendFrame

(* The coalesced records are sent: they got through, and the call goes on  *)
(* where it was, on this connection or on none; or the connection broke.   *)
LEMMA BodySent ==
    ASSUME DInv, NEW ok \in BOOLEAN, hpu_net_send(body, ok), body' = <<>>,
           UNCHANGED <<kind, async, handed>>,
           UNCHANGED <<pc, batch, at>> \/ Idle,
           (ok /\ fd' = fd) \/ fd' = "closed"
    PROVE  DInv'
<1>1. /\ Delivering(stream', <<>>, Reached)
      /\ kind \in StreamKinds => CutsEnd(stream', fd')
  BY SentKeeps DEF DInv, StreamInv
<1>2. Reached \in Nat /\ Reached <= handed /\ handed \in Nat /\ CallInv
  BY ReachedNat DEF DInv, CallInv
<1>3. CASE UNCHANGED <<pc, batch, at>>
  <2>1. CallInv' /\ Reached' = Reached
    BY <1>2, <1>3 DEF CallInv, Reached
  <2> QED  BY <1>1, <2>1 DEF DInv, StreamInv
<1>4. CASE Idle
  <2>1. CallInv' /\ Reached' = handed
    BY <1>2, <1>4, IdleKeeps
  <2>2. Delivering(stream', <<>>, handed)
    BY <1>1, <1>2, DeliveringMore
  <2> QED  BY <1>1, <2>1, <2>2 DEF DInv, StreamInv
<1> QED  BY <1>3, <1>4

LEMMA FlushKeeps ==
    ASSUME DInv, FlushPending, kind \in {"tcp", "stream"}
    PROVE  DInv'
<1>1. UNCHANGED <<kind, async, handed>> /\ tcp_flush_pending
  BY DEF FlushPending, setup, unix_flush_pending
<1>2. CASE hpu_net_send(body, TRUE) /\ body' = <<>> /\ UNCHANGED <<fd, pc, batch, at>>
  BY <1>1, <1>2, BodySent
<1>3. CASE hpu_net_send(body, FALSE) /\ Broken(done - Len(body))
  <2>1. fd' = "closed" /\ body' = <<>> /\ Idle
    BY <1>3, MarkEffect DEF Broken, Return
  <2> QED  BY <1>1, <1>3, <2>1, BodySent
<1> QED  BY <1>1, <1>2, <1>3 DEF tcp_flush_pending, call

(* A record joins those that are to follow. *)
LEMMA AppendKeeps ==
    ASSUME DInv, More, body' = Append(body, ev), Next_record,
           UNCHANGED <<kind, async, handed, fd, stream>>,
           kind = "http" \/ (async /\ kind \in {"tcp", "stream"})
    PROVE  DInv'
<1>1. CallInv' /\ Reached' = ev /\ ev \in Events /\ ev = Reached + 1
  BY NextEvent, RecordKeeps DEF DInv
<1>2. Delivering(stream', body', Reached')
  BY <1>1, DeliveringNext DEF DInv, StreamInv
<1> QED  BY <1>1, <1>2 DEF DInv, StreamInv

LEMMA CoalesceKeeps ==
    ASSUME DInv, Coalesce, async, kind \in {"tcp", "stream"}
    PROVE  DInv'
BY AppendKeeps DEF Coalesce, setup, tally, history

LEMMA TcpUnixKeeps ==
    ASSUME DInv, tcp_emit \/ tcp_emit_batch \/ unix_emit \/ unix_emit_batch
    PROVE  DInv'
<1>1. CASE tcp_emit \/ (unix_emit /\ kind = "stream")
  <2>1. More /\ ~async /\ kind \in {"tcp", "stream"}
    BY <1>1 DEF tcp_emit, unix_emit, unix_send_dgram
  <2>2. body = <<>> /\ kind \in StreamKinds
    BY <2>1 DEF DInv, CallInv, StreamKinds
  <2>3. SendFrame
    BY <1>1, <2>1 DEF tcp_emit, unix_emit, unix_send_dgram
  <2> QED  BY <2>1, <2>2, <2>3, SendFrameKeeps
<1>2. CASE unix_send_dgram
  BY <1>2, DgramKeeps
<1>3. CASE /\ async /\ kind \in {"tcp", "stream"}
           /\ FlushPending \/ Coalesce \/ SendOversized
  BY <1>3, FlushKeeps, CoalesceKeeps, SendFrameKeeps DEF SendOversized, StreamKinds
<1> QED  BY <1>1, <1>2, <1>3 DEF tcp_emit, tcp_emit_batch, unix_emit, unix_emit_batch

LEMMA PostKeeps == ASSUME DInv, PostBatch  PROVE DInv'
<1>1. kind = "http" /\ UNCHANGED <<kind, async, handed>> /\ http_flush_post
  BY DEF PostBatch, setup
<1>2. CASE hpu_net_send(body, FALSE) /\ Broken(done - Len(body))
  <2>1. fd' = "closed" /\ body' = <<>> /\ Idle
    BY <1>1, <1>2, MarkEffect DEF Broken, Return
  <2> QED  BY <1>1, <1>2, <2>1, BodySent
<1>3. ASSUME NEW r \in http_read_response, hpu_net_send(body, TRUE),
             CASE r = "reusable" ->
                     /\ body' = <<>>
                     /\ UNCHANGED <<fd, connected, gate, call, pc, failed, foreign>>
               [] r = "unusable" -> http_conn_close /\ UNCHANGED <<call, pc, failed>>
               [] OTHER -> Broken(done - Len(body))
      PROVE  DInv'
  <2>1. CASE r = "reusable"
    BY <1>1, <1>3, <2>1, BodySent DEF call
  <2>2. CASE r = "unusable"
    <3>1. fd' = "closed" /\ body' = <<>> /\ UNCHANGED <<pc, batch, at>>
      BY <1>3, <2>2 DEF http_conn_close, CloseFd, call
    <3> QED  BY <1>1, <1>3, <3>1, BodySent
  <2>3. CASE r \notin {"reusable", "unusable"}
    <3>1. fd' = "closed" /\ body' = <<>> /\ Idle
      BY <1>1, <1>3, <2>3, MarkEffect DEF Broken, Return
    <3> QED  BY <1>1, <1>3, <3>1, BodySent
  <2> QED  BY <2>1, <2>2, <2>3
<1> QED  BY <1>1, <1>2, <1>3 DEF http_flush_post

LEMMA HttpAppendKeeps == ASSUME DInv, http_emit_batch  PROVE DInv'
BY AppendKeeps DEF http_emit_batch, setup, tally, history

LEMMA SkipKeeps == ASSUME DInv, SkipOversized  PROVE DInv'
<1>1. More /\ kind = "http" /\ Next_record /\ UNCHANGED <<kind, async, handed, fd, body, stream>>
  BY DEF SkipOversized, setup, tally, history
<1>2. CallInv' /\ Reached' = ev /\ ev = Reached + 1 /\ Reached \in Nat
  BY <1>1, NextEvent, RecordKeeps DEF DInv
<1>3. Delivering(stream, body, Reached')
  BY <1>2, DeliveringMore DEF DInv, StreamInv
<1> QED  BY <1>1, <1>2, <1>3 DEF DInv, StreamInv

LEMMA FinishKeeps == ASSUME DInv, Finish  PROVE DInv'
<1>1. body = <<>> /\ Idle /\ UNCHANGED <<kind, async, handed, fd, body, stream>>
  BY DEF Finish, Return, setup, history
<1>2. CallInv' /\ Reached' = handed /\ Reached <= handed /\ handed \in Nat
  BY <1>1, IdleKeeps, ReachedNat DEF DInv, CallInv
<1>3. Delivering(stream, <<>>, handed)
  BY <1>2, DeliveringMore DEF DInv, StreamInv
<1> QED  BY <1>1, <1>2, <1>3 DEF DInv, StreamInv

LEMMA NextKeeps == DInv /\ [Next]_vars => DInv'
<1> SUFFICES ASSUME DInv, [Next]_vars  PROVE DInv'
  OBVIOUS
<1>1. CASE UNCHANGED vars
  BY <1>1, QuietKeeps DEF vars, setup, call, tally, history
<1>2. CASE Next
  BY <1>2, LifecycleKeeps, StartKeeps, CallKeeps, BeginKeeps, UdpKeeps, FifoKeeps,
     TcpUnixKeeps, PostKeeps, HttpAppendKeeps, SkipKeeps, FinishKeeps DEF Next
<1> QED  BY <1>1, <1>2

(* Whatever breaks in whichever send, and however often the sink           *)
(* reconnects, no event and no part of one reaches the peer twice or after *)
(* a later one.                                                            *)
THEOREM StreamsAreOrdered == Spec => []AtMostOnceInOrder
<1>1. DInv => AtMostOnceInOrder
  BY DEF DInv, StreamInv, Delivering, Ordered, AtMostOnceInOrder
<1> QED  BY <1>1, InitHolds, NextKeeps, PTL DEF Spec

(* On a stream socket a frame that hpu_net_send cut is the last thing on   *)
(* its connection: whoever sees the error closes before the next send.     *)
THEOREM CutFramesEndConnections == Spec => []CutFrameEndsConnection
<1>1. DInv => CutFrameEndsConnection
  BY DEF DInv, StreamInv, CutsEnd, CutFrameEndsConnection
<1> QED  BY <1>1, InitHolds, NextKeeps, PTL DEF Spec

-----------------------------------------------------------------------------
(* The size of the buffer *)

Cells(s) == UNION {{i} \X (1 .. Need[s[i]]) : i \in DOMAIN s}

LEMMA CellsFinite ==
    ASSUME NEW s \in Seq(Events)
    PROVE  IsFiniteSet(Cells(s)) /\ SumOf(s) \in Nat /\ SumOf(s) = Cardinality(Cells(s))
<1> DEFINE row(i) == {i} \X (1 .. Need[s[i]])
           rows == {row(i) : i \in DOMAIN s}
           f == [i \in DOMAIN s |-> row(i)]
<1>1. DOMAIN s = 1 .. Len(s) /\ Len(s) \in Nat /\ \A i \in DOMAIN s : s[i] \in Events
  OBVIOUS
<1>2. IsFiniteSet(DOMAIN s)
  BY <1>1, FS_Interval
<1>3. f \in Surjection(DOMAIN s, rows)
  BY DEF Surjection
<1>4. IsFiniteSet(rows)
  BY <1>2, <1>3, FS_Surjection
<1>5. \A r \in rows : IsFiniteSet(r)
  <2> SUFFICES ASSUME NEW i \in DOMAIN s  PROVE IsFiniteSet(row(i))
    OBVIOUS
  <2>1. Need[s[i]] \in Nat
    BY <1>1, SizeAssumption
  <2>2. IsFiniteSet(1 .. Need[s[i]])
    BY <2>1, FS_Interval
  <2>3. IsFiniteSet({i})
    BY FS_Singleton, Zenon
  <2> QED  BY <2>2, <2>3, FS_Product
<1>6. IsFiniteSet(UNION rows)
  BY <1>4, <1>5, FS_UNION
<1> QED  BY <1>6, FS_CardinalityType DEF Cells, SumOf

(* One more frame adds its size. *)
LEMMA SumOfAppend ==
    ASSUME NEW s \in Seq(Events), NEW e \in Events
    PROVE  SumOf(Append(s, e)) = SumOf(s) + Need[e]
<1> DEFINE n == Len(s) + 1
           row == {n} \X (1 .. Need[e])
           u == Append(s, e)
<1>1. /\ Len(s) \in Nat /\ DOMAIN s = 1 .. Len(s) /\ u \in Seq(Events)
      /\ DOMAIN u = 1 .. n /\ u[n] = e /\ \A i \in DOMAIN s : u[i] = s[i]
  OBVIOUS
<1> HIDE DEF u
<1>2. Cells(u) = Cells(s) \cup row /\ Cells(s) \cap row = {}
  <2>1. /\ n \in Nat /\ n \notin DOMAIN s /\ n \in DOMAIN u
        /\ \A i \in DOMAIN u : i \in DOMAIN s \/ i = n
        /\ \A i \in DOMAIN s : i \in DOMAIN u
    BY <1>1
  <2> HIDE DEF n
  <2>2. Cells(u) \subseteq Cells(s) \cup row
    BY <1>1, <2>1 DEF Cells
  <2>3. Cells(s) \subseteq Cells(u)
    BY <1>1, <2>1 DEF Cells
  <2>4. row \subseteq Cells(u)
    BY <1>1, <2>1 DEF Cells
  <2>5. Cells(s) \cap row = {}
    BY <2>1 DEF Cells
  <2> QED  BY <2>2, <2>3, <2>4, <2>5
<1>3. Need[e] \in Nat /\ Need[e] >= 1
  BY SizeAssumption
<1>4. IsFiniteSet(row) /\ Cardinality(row) = Need[e]
  <2>1. IsFiniteSet({n}) /\ Cardinality({n}) = 1
    BY FS_Singleton, Zenon
  <2>2. IsFiniteSet(1 .. Need[e]) /\ Cardinality(1 .. Need[e]) = Need[e]
    <3> DEFINE k == Need[e]
    <3>1. k \in Nat /\ k >= 1
      BY <1>3
    <3> HIDE DEF k
    <3>2. IsFiniteSet(1 .. k) /\ Cardinality(1 .. k) = k
      BY <3>1, FS_Interval
    <3> QED  BY <3>2 DEF k
  <2>3. IsFiniteSet(row) /\ Cardinality(row) = Cardinality({n}) * Cardinality(1 .. Need[e])
    BY <2>1, <2>2, FS_Product, Zenon
  <2>4. Cardinality(row) = 1 * Need[e]
    BY <2>1, <2>2, <2>3
  <2> QED  BY <1>3, <2>3, <2>4
<1> HIDE DEF row
<1>5. IsFiniteSet(Cells(s)) /\ Cardinality(Cells(s)) \in Nat /\ SumOf(s) = Cardinality(Cells(s))
  BY CellsFinite
<1>6. Cardinality(Cells(s) \cup row)
          = Cardinality(Cells(s)) + Cardinality(row) - Cardinality(Cells(s) \cap row)
  BY <1>4, <1>5, FS_Union
<1>7. Cardinality(Cells(s) \cap row) = 0
  BY <1>2, FS_EmptySet
<1>8. SumOf(u) = Cardinality(Cells(u))
  BY <1>1, CellsFinite
<1> QED  BY <1>2, <1>3, <1>4, <1>5, <1>6, <1>7, <1>8 DEF u

(* What a step does to the buffer. *)
LEMMA BufferStep ==
    ASSUME CallInv, Next
    PROVE  /\ UNCHANGED <<kind, ndjson>>
           /\ \/ body' \in {body, <<>>}
              \/ /\ More /\ body' = Append(body, ev)
                 /\ IF kind = "http" THEN ~NoRoom(ev) ELSE SumOf(body) + Need[ev] <= BufferSize
<1> DEFINE Kept == UNCHANGED <<kind, ndjson>> /\ body' \in {body, <<>>}
<1> USE DEF setup, call, tally, history
<1>1. CASE ConfigureFails \/ InitFails \/ StartFails \/ Call \/ Finish \/ Tick \/ Destroy
  BY <1>1 DEF ConfigureFails, InitFails, StartFails, Call, Finish, Tick, Destroy
<1>2. CASE Start
  BY <1>2 DEF Start, tcp_start, udp_start, unix_start, http_start, fifo_start, fifo_open_write_end, fifo_arm_backoff
<1>3. CASE Begin
  BY <1>3 DEF Begin, Reconnect, tcp_reconnect, http_reconnect, unix_reconnect, fifo_try_reopen, fifo_open_write_end,
              fifo_arm_backoff
<1>4. MarkDisconnected => body' \in {body, <<>>}
  BY DEF MarkDisconnected, tcp_mark_disconnected, http_mark_disconnected, unix_mark_disconnected, fifo_arm_backoff
<1>5. CASE udp_emit_batch \/ fifo_emit_batch \/ SkipOversized
  BY <1>5 DEF udp_emit_batch, fifo_emit_batch, fifo_deliver, fifo_arm_backoff, SkipOversized
<1>6. ASSUME SendFrame  PROVE Kept
  BY <1>4, <1>6 DEF SendFrame, Broken
<1>7. ASSUME FlushPending  PROVE Kept
  BY <1>4, <1>7 DEF FlushPending, tcp_flush_pending, unix_flush_pending, Broken
<1>8. ASSUME unix_send_dgram  PROVE Kept
  BY <1>4, <1>8 DEF unix_send_dgram, Broken
<1>9. ASSUME Coalesce, kind # "http"
      PROVE  /\ UNCHANGED <<kind, ndjson>>
             /\ More /\ body' = Append(body, ev) /\ SumOf(body) + Need[ev] <= BufferSize
  BY <1>9 DEF Coalesce
<1>10. CASE tcp_emit \/ tcp_emit_batch \/ unix_emit \/ unix_emit_batch
  BY <1>6, <1>7, <1>8, <1>9, <1>10 DEF tcp_emit, tcp_emit_batch, unix_emit, unix_emit_batch, SendOversized
<1>11. CASE PostBatch
  BY <1>4, <1>11 DEF PostBatch, http_flush_post, Broken, http_conn_close, http_read_response
<1>12. CASE http_emit_batch
  BY <1>12 DEF http_emit_batch
<1> QED  BY <1>1, <1>2, <1>3, <1>5, <1>10, <1>11, <1>12 DEF Next

LEMMA RoomKept ==
    ASSUME DInv, BodyFits, [Next]_vars
    PROVE  BodyFits'
<1>1. CASE UNCHANGED vars
  BY <1>1 DEF vars, setup, BodyFits, body_len, Brackets, Commas
<1>2. CASE Next
  <2>1. UNCHANGED <<kind, ndjson>>
    BY <1>2, BufferStep DEF DInv
  <2>2. CASE body' \in {body, <<>>}
    BY <2>1, <2>2 DEF BodyFits, body_len, Brackets, Commas
  <2>3. CASE /\ More /\ body' = Append(body, ev)
             /\ IF kind = "http" THEN ~NoRoom(ev) ELSE SumOf(body) + Need[ev] <= BufferSize
    <3>1. /\ ev \in Events /\ Need[ev] \in Nat /\ BufferSize \in Nat /\ body \in Seq(Events)
          /\ SumOf(body) \in Nat /\ Len(body) \in Nat
      <4>1. ev \in Events /\ body \in Seq(Events)
        BY <2>3, NextEvent DEF DInv, StreamInv, Delivering
      <4> QED  BY <4>1, SizeAssumption, CellsFinite
    <3>2. SumOf(body') = SumOf(body) + Need[ev]
      BY <2>3, <3>1, SumOfAppend
    <3>3. Len(body') = Len(body) + 1 /\ body' # <<>> /\ (body = <<>> <=> Len(body) = 0)
      BY <2>3, <3>1
    <3>4. CASE kind # "http"
      BY <2>1, <2>3, <3>2, <3>4 DEF BodyFits
    <3>5. CASE kind = "http"
      <4>1. Brackets + SumOf(body) + Commas(body) + Need[ev] + Comma(body) <= BufferSize - Brackets
        <5>1. body_len(body) \in Int /\ http_json_element_len(ev) \in Int /\ budget \in Int
          BY <3>1 DEF body_len, http_json_element_len, budget, Brackets, Commas, Comma
        <5>2. body_len(body) + http_json_element_len(ev) <= budget
          BY <2>3, <3>5, <5>1 DEF NoRoom
        <5> QED  BY <3>1, <5>2 DEF body_len, http_json_element_len, budget, Brackets, Commas, Comma
      <4>2. Commas(body') = Commas(body) + Comma(body)
        BY <2>1, <3>1, <3>3 DEF Commas, Comma
      <4>3. Brackets \in Nat /\ Commas(body) \in Int /\ Comma(body) \in Int
        BY <3>1 DEF Brackets, Commas, Comma
      <4>4. body_len(body)' + Brackets' <= BufferSize
        <5>1. Brackets' = Brackets /\ Commas(body)' = Commas(body')
          BY <2>1 DEF Brackets, Commas
        <5>2. body_len(body)' = Brackets + SumOf(body') + Commas(body')
          BY <5>1 DEF body_len
        <5> QED  BY <3>1, <3>2, <4>1, <4>2, <4>3, <5>1, <5>2
      <4> QED  BY <2>1, <3>5, <4>4 DEF BodyFits
    <3> QED  BY <3>4, <3>5
  <2> QED  BY <1>2, <2>2, <2>3, BufferStep DEF DInv
<1> QED  BY <1>1, <1>2

(* The records that tcp_emit_batch, unix_emit_batch and http_emit_batch    *)
(* coalesce fit the buffer, those of an ndjson body with its commas and    *)
(* both of its brackets, also when the body was begun anew by a POST in    *)
(* the middle of a batch.                                                  *)
THEOREM BodiesFit == Spec => []BodyFits
<1>1. Init => BodyFits
  BY DEF Init, BodyFits
<1> QED  BY <1>1, InitHolds, NextKeeps, RoomKept, PTL DEF Spec

-----------------------------------------------------------------------------
(* The backoff gate *)

(* A sink that is not connected has a backoff to arm the window with, and  *)
(* the backoff stays between the two keys; udp has no connection, and http *)
(* resets its gate on a planned close.                                     *)
GateInv ==
    /\ kind \in SocketKinds \cup {"fifo"}
    /\ init \in 0 .. MaxBackoff /\ max \in 0 .. MaxBackoff
    /\ life \in {"new", "running", "gone"}
    /\ life = "new" => backoff = 0 /\ window = NoWindow
    /\ pc # "idle" => life = "running"
    /\ life = "running" /\ kind # "udp" => InitOf <= MaxOf
    /\ life = "running" /\ kind = "udp" => backoff = 0 /\ window = NoWindow
    /\ life = "running" /\ kind \notin {"udp", "http"} =>
          /\ backoff = 0 \/ backoff \in InitOf .. MaxOf
          /\ kind # "fifo" /\ ~connected => backoff # 0
          /\ window # NoWindow => window \in InitOf .. MaxOf /\ window <= backoff

LEMMA KeysNat ==
    ASSUME GateInv
    PROVE  InitOf \in Nat \ {0} /\ MaxOf \in Nat
BY SizeAssumption DEF GateInv, InitOf, MaxOf

(* Arming with a value between the keys leaves one that is no smaller.     *)
LEMMA ArmKeeps ==
    ASSUME GateInv, life = "running", NEW b \in InitOf .. MaxOf, Arm(b)
    PROVE  backoff' \in InitOf .. MaxOf /\ b <= backoff' /\ wait' = b
BY KeysNat DEF Arm, Doubled, Least

(* A step that leaves the gate, the connection and the setup alone. *)
LEMMA GateQuiet ==
    ASSUME GateInv, UNCHANGED <<setup, life, backoff, window>>,
           pc' = "idle" \/ life = "running",
           connected' = connected \/ kind = "http"
    PROVE  GateInv'
<1>1. UNCHANGED <<kind, init, max, life, backoff, window>> /\ InitOf' = InitOf /\ MaxOf' = MaxOf
  BY DEF setup, InitOf, MaxOf
<1> QED  BY <1>1 DEF GateInv

(* A sink that is destroyed, or was never started. *)
LEMMA GateGone ==
    ASSUME GateInv, UNCHANGED <<setup, pc>>, life' = "gone", pc = "idle"
    PROVE  GateInv'
<1>1. UNCHANGED <<kind, init, max>>
  BY DEF setup
<1> QED  BY <1>1 DEF GateInv

(* For http nothing but the order of the keys is kept. *)
LEMMA GateHttp ==
    ASSUME GateInv, kind = "http", life = "running", UNCHANGED <<setup, life>>
    PROVE  GateInv'
<1>1. UNCHANGED <<kind, init, max, life>> /\ InitOf' = InitOf /\ MaxOf' = MaxOf
  BY DEF setup, InitOf, MaxOf
<1> QED  BY <1>1 DEF GateInv

(* A connection that broke. *)
LEMMA GateMark ==
    ASSUME GateInv, MarkDisconnected, life = "running", kind # "udp",
           UNCHANGED <<setup, life, window>>
    PROVE  GateInv'
<1>1. UNCHANGED <<kind, init, max, life, window>> /\ InitOf' = InitOf /\ MaxOf' = MaxOf
  BY DEF setup, InitOf, MaxOf
<1>2. CASE kind = "http"
  BY <1>2, GateHttp
<1>3. CASE kind # "http"
  <2> DEFINE b == IF backoff = 0 THEN InitOf ELSE backoff
  <2>1. b \in InitOf .. MaxOf
    BY <1>3, KeysNat DEF GateInv
  <2>2. Arm(b)
    BY <1>3 DEF MarkDisconnected, tcp_mark_disconnected, unix_mark_disconnected, fifo_arm_backoff
  <2>3. backoff' \in InitOf .. MaxOf /\ b <= backoff'
    BY <2>1, <2>2, ArmKeeps
  <2>4. backoff' \in InitOf' .. MaxOf' /\ backoff' # 0
    BY <1>1, <2>3, KeysNat
  <2>5. window' # NoWindow => window' \in InitOf' .. MaxOf' /\ window' <= backoff'
    <3> SUFFICES ASSUME window # NoWindow
                 PROVE  window \in InitOf .. MaxOf /\ window <= backoff'
      BY <1>1
    <3>1. window \in InitOf .. MaxOf /\ window <= backoff
      BY <1>3 DEF GateInv
    <3>2. b = backoff
      BY <2>1, <3>1, KeysNat
    <3>3. backoff \in Nat /\ backoff <= backoff' /\ backoff' \in Nat
      BY <2>1, <2>3, <3>2, KeysNat
    <3> HIDE DEF b
    <3> QED  BY <3>1, <3>3, KeysNat
  <2> QED  BY <1>1, <1>3, <2>4, <2>5 DEF GateInv
<1> QED  BY <1>2, <1>3

(* An attempt to connect. *)
LEMMA GateReconnect ==
    ASSUME GateInv, life = "running", NEW ok \in BOOLEAN, Lost, Reconnect(ok),
           UNCHANGED <<setup, life>>
    PROVE  GateInv'
<1>1. UNCHANGED <<kind, init, max, life>> /\ InitOf' = InitOf /\ MaxOf' = MaxOf
  BY DEF setup, InitOf, MaxOf
<1>0. kind # "udp"
  BY DEF Lost
<1>2. CASE kind = "http"
  BY <1>2, GateHttp
<1>3. CASE ok /\ kind # "http"
  <2>1. backoff' = InitOf /\ window' = NoWindow
    BY <1>3 DEF Reconnect, tcp_reconnect, unix_reconnect, fifo_try_reopen, fifo_open_write_end
  <2>2. backoff' \in InitOf' .. MaxOf' /\ backoff' # 0
    BY <1>0, <1>1, <2>1, KeysNat DEF GateInv
  <2> QED  BY <1>0, <1>1, <1>3, <2>1, <2>2 DEF GateInv
<1>4. ASSUME ~ok, kind # "http", NEW b \in InitOf .. MaxOf, Arm(b), window' = wait'
      PROVE  GateInv'
  <2>1. backoff' \in InitOf .. MaxOf /\ b <= backoff' /\ window' = b
    BY <1>4, ArmKeeps
  <2>2. backoff' \in InitOf' .. MaxOf' /\ backoff' # 0 /\ window' \in InitOf' .. MaxOf'
    BY <1>1, <2>1, KeysNat
  <2> QED  BY <1>0, <1>1, <1>4, <2>1, <2>2 DEF GateInv
<1>5. CASE ~ok /\ kind = "fifo"
  <2> DEFINE b == IF backoff = 0 THEN InitOf ELSE backoff
  <2>1. b \in InitOf .. MaxOf
    BY <1>5, KeysNat DEF GateInv
  <2>2. Arm(b) /\ window' = wait'
    BY <1>5 DEF Reconnect, fifo_try_reopen, fifo_open_write_end, fifo_arm_backoff
  <2> QED  BY <1>4, <1>5, <2>1, <2>2
<1>6. CASE ~ok /\ kind \notin {"http", "fifo"}
  <2>1. backoff \in InitOf .. MaxOf
    BY <1>0, <1>6 DEF Lost, GateInv
  <2>2. Arm(backoff) /\ window' = wait'
    BY <1>6 DEF Reconnect, tcp_reconnect, unix_reconnect
  <2> QED  BY <1>4, <1>6, <2>1, <2>2
<1> QED  BY <1>2, <1>3, <1>5, <1>6

LEMMA GateStart == ASSUME GateInv, Start  PROVE GateInv'
<1>1. UNCHANGED <<kind, init, max, pc>> /\ InitOf' = InitOf /\ MaxOf' = MaxOf
      /\ life = "new" /\ life' = "running" /\ backoff = 0 /\ window = NoWindow
  BY DEF Start, setup, InitOf, MaxOf, GateInv
<1>2. kind # "udp" => InitOf <= MaxOf
  BY DEF Start, InitRejects, tcp_init, fifo_init, http_init, unix_init
<1>3. CASE kind = "fifo"
  <2> PICK ok \in BOOLEAN : fifo_open_write_end(ok) /\ (ok => UNCHANGED gate)
    BY <1>3 DEF Start, fifo_start
  <2>1. CASE ok
    BY <1>1, <1>2, <1>3, <2>1 DEF fifo_open_write_end, gate, GateInv
  <2>2. CASE ~ok
    <3>1. wait' = InitOf /\ backoff' = Doubled(InitOf) /\ window' = wait'
      BY <1>1, <2>2 DEF fifo_open_write_end, fifo_arm_backoff, Arm
    <3>2. backoff' \in InitOf .. MaxOf /\ window' \in InitOf .. MaxOf /\ window' <= backoff'
      BY <1>2, <1>3, <3>1, KeysNat DEF Doubled, Least
    <3> QED  BY <1>1, <1>2, <1>3, <3>2 DEF GateInv
  <2> QED  BY <2>1, <2>2
<1>4. CASE kind # "fifo" /\ kind # "udp"
  <2>1. connected' = TRUE /\ UNCHANGED <<gate, window>>
    BY <1>4 DEF Start, tcp_start, http_start, unix_start
  <2> QED  BY <1>1, <1>2, <1>4, <2>1 DEF gate, GateInv
<1>5. CASE kind = "udp"
  BY <1>1, <1>5 DEF Start, udp_start, gate, GateInv
<1> QED  BY <1>3, <1>4, <1>5

LEMMA GateInit == Init => GateInv
BY KindAssumption DEF Init, GateInv

LEMMA GateBegin == ASSUME GateInv, Begin  PROVE GateInv'
<1>1. UNCHANGED <<setup, life>> /\ life = "running"
  BY DEF Begin, GateInv
<1>2. ASSUME NEW ok \in BOOLEAN, Lost, Reconnect(ok)
      PROVE  GateInv'
  BY <1>1, <1>2, GateReconnect
<1>3. CASE UNCHANGED <<connected, gate, window>>
  BY <1>1, <1>3, GateQuiet DEF gate
<1> QED  BY <1>2, <1>3 DEF Begin

(* The steps of a call after its beginning. *)
LEMMA GateRecords ==
    ASSUME GateInv, pc = "loop",
           \/ udp_emit_batch \/ fifo_emit_batch
           \/ tcp_emit \/ tcp_emit_batch \/ unix_emit \/ unix_emit_batch
           \/ http_emit_batch \/ SkipOversized \/ Finish
    PROVE  GateInv'
<1>1. life = "running"
  BY DEF GateInv
<1>2. ASSUME UNCHANGED <<setup, life, connected, gate, window>>
      PROVE  GateInv'
  BY <1>1, <1>2, GateQuiet DEF gate
<1>3. ASSUME MarkDisconnected, UNCHANGED <<setup, life, window>>, kind # "udp"
      PROVE  GateInv'
  BY <1>1, <1>3, GateMark
<1>4. CASE udp_emit_batch
  BY <1>2, <1>4 DEF udp_emit_batch
<1>5. CASE fifo_emit_batch
  <2>1. UNCHANGED <<setup, life, window>> /\ kind = "fifo"
    BY <1>5 DEF fifo_emit_batch
  <2>2. UNCHANGED <<connected, gate>> \/ MarkDisconnected
    BY <1>5, <2>1 DEF fifo_emit_batch, fifo_deliver, MarkDisconnected
  <2> QED  BY <1>2, <1>3, <2>1, <2>2
<1>6. CASE SendFrame /\ kind # "udp"
  <2>1. UNCHANGED <<setup, life, window>>
    BY <1>6 DEF SendFrame
  <2>2. UNCHANGED <<connected, gate>> \/ MarkDisconnected
    BY <1>6 DEF SendFrame, Broken
  <2> QED  BY <1>2, <1>3, <1>6, <2>1, <2>2
<1>7. CASE FlushPending /\ kind # "udp"
  <2>1. UNCHANGED <<setup, life, window>>
    BY <1>7 DEF FlushPending
  <2>2. UNCHANGED <<connected, gate>> \/ MarkDisconnected
    BY <1>7 DEF FlushPending, unix_flush_pending, tcp_flush_pending, Broken
  <2> QED  BY <1>2, <1>3, <1>7, <2>1, <2>2
<1>8. CASE unix_send_dgram
  <2>1. UNCHANGED <<setup, life, window>> /\ kind # "udp"
    BY <1>8 DEF unix_send_dgram
  <2>2. UNCHANGED <<connected, gate>> \/ MarkDisconnected
    BY <1>8 DEF unix_send_dgram, Broken
  <2> QED  BY <1>2, <1>3, <2>1, <2>2
<1>9. CASE Coalesce
  BY <1>2, <1>9 DEF Coalesce, history
<1>10. CASE http_emit_batch \/ SkipOversized \/ Finish
  BY <1>2, <1>10 DEF http_emit_batch, SkipOversized, Finish, history
<1> QED
  BY <1>4, <1>5, <1>6, <1>7, <1>8, <1>9, <1>10
  DEF tcp_emit, tcp_emit_batch, unix_emit, unix_emit_batch, SendOversized

LEMMA GatePost == ASSUME GateInv, PostBatch  PROVE GateInv'
<1>1. kind = "http" /\ UNCHANGED <<setup, life>> /\ pc = "loop"
  BY DEF PostBatch
<1> QED  BY <1>1, GateHttp DEF GateInv

LEMMA GateNext == GateInv /\ [Next]_vars => GateInv'
<1> SUFFICES ASSUME GateInv, [Next]_vars  PROVE GateInv'
  OBVIOUS
<1>1. CASE UNCHANGED vars
  <2>1. UNCHANGED <<kind, init, max, life, backoff, window, pc, connected>>
        /\ InitOf' = InitOf /\ MaxOf' = MaxOf
    BY <1>1 DEF vars, setup, gate, history, InitOf, MaxOf
  <2> QED  BY <2>1 DEF GateInv
<1>2. CASE ConfigureFails \/ InitFails \/ StartFails
  <2>1. life = "new" /\ life' = "gone" /\ UNCHANGED <<setup, pc>>
    BY <1>2 DEF ConfigureFails, InitFails, StartFails
  <2> QED  BY <2>1, GateGone DEF GateInv
<1>3. CASE Destroy
  BY <1>3, GateGone DEF Destroy
<1>4. CASE Tick \/ Call
  <2>1. UNCHANGED <<setup, life, backoff, window, connected>>
    BY <1>4 DEF Tick, Call, gate, history
  <2>2. pc' = "idle" \/ life = "running"
    BY <1>4 DEF Tick, Call
  <2> QED  BY <2>1, <2>2, GateQuiet
<1>5. CASE udp_emit_batch \/ fifo_emit_batch \/ tcp_emit \/ tcp_emit_batch \/ unix_emit
           \/ unix_emit_batch \/ http_emit_batch \/ SkipOversized \/ Finish
  <2>1. pc = "loop"
    BY <1>5 DEF udp_emit_batch, fifo_emit_batch, tcp_emit, tcp_emit_batch, unix_emit,
       unix_emit_batch, http_emit_batch, SkipOversized, Finish, More, FlushPending,
       Coalesce, SendOversized, unix_send_dgram
  <2> QED  BY <1>5, <2>1, GateRecords
<1> QED
  BY <1>1, <1>2, <1>3, <1>4, <1>5, GateStart, GateBegin, GatePost DEF Next

(* A failed attempt to connect leaves a window between the initial and the *)
(* maximal backoff, and the next one will be no shorter: true for any      *)
(* values of the two keys, of every sink but http.                         *)
THEOREM SocketsBackOffHolds == Spec => []SocketsBackOff
<1>1. GateInv => SocketsBackOff
  <2> SUFFICES ASSUME GateInv, life = "running", kind # "http", window # NoWindow
               PROVE  InitOf <= window /\ window <= MaxOf /\ window <= backoff
    BY DEF SocketsBackOff, BacksOff
  <2>1. window \in InitOf .. MaxOf /\ window <= backoff
    BY DEF GateInv
  <2> QED  BY <2>1, KeysNat
<1> QED  BY <1>1, GateInit, GateNext, PTL DEF Spec

-----------------------------------------------------------------------------
(* What arrived *)

Wholes(s) == {s[i].ev : i \in {j \in DOMAIN s : s[j].part = "whole"}}

LEMMA WholesGrow ==
    ASSUME NEW s \in Seq(Frame), NEW t \in Seq(Frame)
    PROVE  Wholes(s) \subseteq Wholes(s \o t) /\ Wholes(t) \subseteq Wholes(s \o t)
<1> DEFINE u == s \o t
<1>1. /\ DOMAIN u = 1 .. Len(s) + Len(t) /\ DOMAIN s = 1 .. Len(s) /\ DOMAIN t = 1 .. Len(t)
      /\ Len(s) \in Nat /\ Len(t) \in Nat
      /\ \A i \in 1 .. Len(s) : u[i] = s[i]
      /\ \A i \in 1 .. Len(t) : u[Len(s) + i] = t[i]
  OBVIOUS
<1> HIDE DEF u
<1>2. \A i \in DOMAIN s : i \in DOMAIN u /\ u[i] = s[i]
  BY <1>1
<1>3. \A i \in DOMAIN t : Len(s) + i \in DOMAIN u /\ u[Len(s) + i] = t[i]
  BY <1>1
<1>4. Wholes(s) \subseteq Wholes(u)
  BY <1>2 DEF Wholes
<1>5. Wholes(t) \subseteq Wholes(u)
  BY <1>3 DEF Wholes
<1> QED  BY <1>4, <1>5 DEF u

LEMMA WholesFinite ==
    ASSUME NEW s \in Seq(Frame)
    PROVE  IsFiniteSet(Wholes(s))
<1>1. \A i \in DOMAIN s : s[i].ev \in 0 .. MaxEvents
  <2> TAKE i \in DOMAIN s
  <2>1. s[i] \in Frame
    OBVIOUS
  <2> QED  BY <2>1 DEF Frame
<1>2. Wholes(s) \subseteq 0 .. MaxEvents
  BY <1>1 DEF Wholes
<1>3. IsFiniteSet(0 .. MaxEvents)
  BY EventsNat, FS_Interval
<1>4. Wholes(s) \in SUBSET (0 .. MaxEvents)
  BY <1>2
<1> QED  BY <1>3, <1>4, FS_Subset

(* As many events as records. *)
LEMMA RecordCount ==
    ASSUME NEW b \in Seq(Events), Increasing(b)
    PROVE  IsFiniteSet(ToSet(b)) /\ Cardinality(ToSet(b)) = Len(b)
<1> DEFINE K == 1 .. Len(b)
<1> DEFINE f == [k \in K |-> b[k]]
<1>1. ToSet(b) = {b[k] : k \in K} /\ Len(b) \in Nat /\ DOMAIN b = K
  BY DEF ToSet
<1>2. IsFiniteSet(K) /\ Cardinality(K) = Len(b)
  <2>1. IsFiniteSet(K) /\ Cardinality(K) = IF 1 > Len(b) THEN 0 ELSE Len(b) - 1 + 1
    BY <1>1, FS_Interval
  <2> QED  BY <1>1, <2>1
<1>3. \A j, k \in K : b[j] = b[k] => j = k
  <2> TAKE j, k \in K
  <2>1. b[j] \in Nat /\ b[k] \in Nat
    BY SeqOfEvents
  <2>2. j < k \/ k < j \/ j = k
    BY <1>1
  <2> QED  BY <1>1, <2>1, <2>2 DEF Increasing
<1> HIDE DEF K
<1>4. f \in [K -> ToSet(b)] /\ \A e \in ToSet(b) : \E k \in K : f[k] = e
  BY <1>1
<1>5. \A j, k \in K : f[j] = f[k] => j = k
  BY <1>3
<1> HIDE DEF f
<1>6. f \in Bijection(K, ToSet(b))
  BY <1>4, <1>5 DEF Bijection, Injection, Surjection, IsInjective
<1> QED  BY <1>2, <1>6, FS_Bijection DEF ExistsBijection

LEMMA DisjointCount ==
    ASSUME NEW A, NEW B, NEW C, IsFiniteSet(A), IsFiniteSet(B), IsFiniteSet(C),
           A \cap B = {}, A \cup B \subseteq C
    PROVE  /\ Cardinality(A) \in Nat /\ Cardinality(B) \in Nat /\ Cardinality(C) \in Nat
           /\ Cardinality(A) + Cardinality(B) <= Cardinality(C)
<1>1. Cardinality(A) \in Nat /\ Cardinality(B) \in Nat /\ Cardinality(C) \in Nat
  BY FS_CardinalityType
<1>2. Cardinality(A \cup B) = Cardinality(A) + Cardinality(B) - Cardinality(A \cap B)
  BY FS_Union
<1>3. Cardinality(A \cap B) = 0
  BY FS_EmptySet
<1>4. Cardinality(A \cup B) <= Cardinality(C)
  BY FS_Subset
<1>5. Cardinality(A \cup B) = Cardinality(A) + Cardinality(B)
  BY <1>1, <1>2, <1>3
<1> QED  BY <1>1, <1>4, <1>5

(* The records of b all get through: as many events more have arrived.     *)
LEMMA SentCount ==
    ASSUME NEW b, NEW n, NEW t, Delivering(stream, b, n),
           SentBy(t, b), Unbroken(t), Len(t) = Len(b), stream' = stream \o t
    PROVE  /\ Cardinality(Wholes(stream)) \in Nat /\ Cardinality(Wholes(stream')) \in Nat
           /\ Cardinality(Wholes(stream)) + Len(b) <= Cardinality(Wholes(stream'))
<1>0. b \in Seq(Events) /\ stream \in Seq(Frame) /\ Increasing(b)
  BY DEF Delivering
<1>1. t \in Seq(Frame) /\ stream' \in Seq(Frame)
  BY <1>0 DEF SentBy
<1>2. ToSet(b) \subseteq Wholes(t)
  <2>1. DOMAIN b = 1 .. Len(b) /\ DOMAIN t = 1 .. Len(b)
    BY <1>0, <1>1
  <2>2. \A i \in DOMAIN t : t[i].ev = b[i] /\ t[i].part = "whole"
    <3> TAKE i \in DOMAIN t
    <3>1. t[i] \in Frame
      BY <1>1
    <3> QED  BY <2>1, <3>1 DEF SentBy, Unbroken, Frame
  <2> QED  BY <2>1, <2>2 DEF ToSet, Wholes
<1>3. Wholes(stream) \cap ToSet(b) = {}
  <2> SUFFICES ASSUME NEW i \in DOMAIN stream, NEW k \in DOMAIN b, stream[i].ev = b[k]
               PROVE  FALSE
    BY DEF Wholes, ToSet
  <2>1. stream[i].ev < b[k] /\ b[k] \in Nat
    BY <1>0, SeqOfEvents DEF Delivering
  <2> QED  BY <2>1
<1>4. Wholes(stream) \cup ToSet(b) \subseteq Wholes(stream')
  BY <1>0, <1>1, <1>2, WholesGrow
<1> QED  BY <1>0, <1>1, <1>3, <1>4, RecordCount, WholesFinite, DisjointCount

-----------------------------------------------------------------------------
(* What is claimed *)

(* What the statistics would say if the call ended now: the events of      *)
(* earlier calls that did not fail, and those of this one that are done    *)
(* and no longer wait in the buffer.                                       *)
Claimed == handed - Len(batch) - failed + done - Len(body)

AnsweredInv ==
    /\ answered \subseteq Events
    /\ \A e \in answered : e <= Reached /\ \A k \in DOMAIN body : e < body[k]

CountInv ==
    /\ failed \in Int /\ done \in Int
    /\ pc # "loop" => done = 0
    /\ AnsweredInv
    /\ Claimed <= Cardinality(Arrived)

LEMMA CountInit == Init => CountInv
<1> SUFFICES ASSUME Init  PROVE CountInv
  OBVIOUS
<1>1. Len(<<>>) = 0 /\ DOMAIN <<>> = {}
  OBVIOUS
<1>2. Claimed = 0
  BY <1>1 DEF Init, Claimed
<1>3. Arrived = {}
  BY <1>1 DEF Init, Arrived
<1> QED  BY <1>1, <1>2, <1>3, FS_EmptySet DEF Init, CountInv, AnsweredInv

LEMMA ClaimedInt ==
    ASSUME CallInv, failed \in Int, done \in Int, body \in Seq(Events)
    PROVE  Claimed \in Int /\ Len(body) \in Nat /\ Len(batch) \in Nat /\ handed \in Nat
BY DEF CallInv, Claimed

LEMMA ArrivedCount ==
    ASSUME DInv, AnsweredInv
    PROVE  IsFiniteSet(Arrived) /\ Cardinality(Arrived) \in Nat
<1>1. CASE kind = "http"
  <2>1. IsFiniteSet(Events) /\ answered \in SUBSET Events
    BY EventsNat, FS_Interval DEF Events, AnsweredInv
  <2> QED  BY <1>1, <2>1, FS_Subset, FS_CardinalityType DEF Arrived
<1>2. CASE kind # "http"
  <2>1. Arrived = Wholes(stream) /\ stream \in Seq(Frame)
    BY <1>2 DEF Arrived, Wholes, DInv, StreamInv, Delivering
  <2> QED  BY <2>1, WholesFinite, FS_CardinalityType
<1> QED  BY <1>1, <1>2

(* A longer stream: what had arrived still has. *)
LEMMA ArrivedGrows ==
    ASSUME DInv, DInv', AnsweredInv, AnsweredInv', kind' = kind, answered \subseteq answered',
           NEW t \in Seq(Frame), stream' = stream \o t
    PROVE  Cardinality(Arrived) <= Cardinality(Arrived')
<1>1. IsFiniteSet(Arrived')
  <2>1. (IsFiniteSet(Arrived) /\ Cardinality(Arrived) \in Nat)'
    BY ArrivedCount, PTL
  <2> QED  BY <2>1
<1>2. stream \in Seq(Frame)
  BY DEF DInv, StreamInv, Delivering
<1>3. Wholes(stream) \subseteq Wholes(stream')
  BY <1>2, WholesGrow
<1>4. Arrived \subseteq Arrived'
  BY <1>3 DEF Arrived, Wholes
<1> QED  BY <1>1, <1>4, FS_Subset

(* The call moves forward only. *)
LEMMA ReachedGrows ==
    ASSUME CallInv, handed' = handed,
           UNCHANGED <<batch, at>> \/ Idle \/ (More /\ Next_record)
    PROVE  Reached \in Nat /\ Reached' \in Nat /\ Reached <= Reached'
<1>1. Reached \in Nat /\ Reached <= handed /\ handed \in Nat
  BY ReachedNat DEF CallInv
<1>2. CASE UNCHANGED <<batch, at>>
  BY <1>1, <1>2 DEF Reached
<1>3. CASE Idle
  <2>1. Len(<<>>) = 0
    OBVIOUS
  <2> QED  BY <1>1, <1>3, <2>1 DEF Idle, Reached
<1>4. CASE More /\ Next_record
  BY <1>1, <1>4 DEF More, Next_record, Reached, CallInv
<1> QED  BY <1>2, <1>3, <1>4

LEMMA AnsweredKeeps ==
    ASSUME AnsweredInv, answered' = answered, body' = body \/ body' = <<>>,
           Reached \in Nat, Reached' \in Nat, Reached <= Reached'
    PROVE  AnsweredInv'
<1>1. DOMAIN <<>> = {}
  OBVIOUS
<1>2. \A e \in answered : e \in Nat
  BY EventsNat DEF AnsweredInv
<1> QED  BY <1>1, <1>2 DEF AnsweredInv

(* A step that sends nothing that is claimed for it. *)
LEMMA NothingMoreClaimed ==
    ASSUME DInv, DInv', CountInv, UNCHANGED <<kind, answered>>,
           AnsweredInv', failed' \in Int, done' \in Int, pc' # "loop" => done' = 0,
           NEW t \in Seq(Frame), stream' = stream \o t, Claimed' <= Claimed
    PROVE  CountInv'
<1>1. Cardinality(Arrived) <= Cardinality(Arrived')
  BY ArrivedGrows DEF CountInv
<1>2. Cardinality(Arrived) \in Nat /\ Claimed <= Cardinality(Arrived)
  BY ArrivedCount DEF CountInv
<1>3. (IsFiniteSet(Arrived) /\ Cardinality(Arrived) \in Nat)'
  BY ArrivedCount, PTL
<1>4. Claimed \in Int
  BY ClaimedInt DEF CountInv, DInv, StreamInv, Delivering
<1>5. Claimed' \in Int
  <2>1. handed' \in Nat /\ batch' \in Seq(Events) /\ body' \in Seq(Events)
    BY DEF DInv, CallInv, StreamInv, Delivering
  <2> QED  BY <2>1 DEF Claimed
<1>6. Claimed' <= Cardinality(Arrived')
  BY <1>1, <1>2, <1>3, <1>4, <1>5
<1> QED  BY <1>6 DEF CountInv

(* The records of b got through, and as many are claimed; the sink is not  *)
(* http.                                                                   *)
LEMMA SentAreClaimed ==
    ASSUME DInv, DInv', CountInv, UNCHANGED <<kind, answered, failed>>, kind # "http",
           AnsweredInv', done' \in Int, pc' = "loop",
           NEW b, NEW n, NEW t, Delivering(stream, b, n),
           SentBy(t, b), Unbroken(t), Len(t) = Len(b), stream' = stream \o t,
           Claimed' <= Claimed + Len(b)
    PROVE  CountInv'
<1>1. /\ Cardinality(Wholes(stream)) \in Nat /\ Cardinality(Wholes(stream')) \in Nat
      /\ Cardinality(Wholes(stream)) + Len(b) <= Cardinality(Wholes(stream'))
  BY SentCount
<1>2. Arrived = Wholes(stream) /\ Arrived' = Wholes(stream')
  BY DEF Arrived, Wholes
<1>3. Claimed \in Int /\ Claimed <= Cardinality(Arrived)
  BY ClaimedInt DEF CountInv, DInv, StreamInv, Delivering
<1>4. Claimed' \in Int
  <2>1. handed' \in Nat /\ batch' \in Seq(Events) /\ body' \in Seq(Events)
    BY DEF DInv, CallInv, StreamInv, Delivering
  <2> QED  BY <2>1 DEF Claimed, CountInv
<1>5. Len(b) \in Nat
  BY DEF Delivering
<1>6. Claimed' <= Cardinality(Arrived')
  BY <1>1, <1>2, <1>3, <1>4, <1>5
<1> QED  BY <1>6 DEF CountInv

(* The call ends; of its records d are claimed. *)
LEMMA ReturnClaims ==
    ASSUME DInv, CountInv, NEW d \in Int, Return(d), handed' = handed, body' = <<>>,
           d <= done - Len(body)
    PROVE  failed' \in Int /\ done' = 0 /\ Claimed' <= Claimed
<1>1. Len(<<>>) = 0
  OBVIOUS
<1>2. Claimed \in Int /\ Len(body) \in Nat /\ Len(batch) \in Nat /\ handed \in Nat
      /\ failed \in Int /\ done \in Int
  BY ClaimedInt DEF CountInv, DInv, StreamInv, Delivering
<1>3. batch' = <<>> /\ done' = 0 /\ failed' = failed + (Len(batch) - d)
  BY DEF Return, Idle
<1>4. Claimed' = handed - failed - Len(batch) + d
  BY <1>1, <1>2, <1>3 DEF Claimed
<1>5. Claimed = handed - Len(batch) - failed + done - Len(body)
  BY DEF Claimed
<1> HIDE DEF Claimed
<1> QED  BY <1>2, <1>3, <1>4, <1>5

LEMMA NothingSent ==
    ASSUME DInv, stream' = stream
    PROVE  <<>> \in Seq(Frame) /\ stream' = stream \o <<>>
BY DEF DInv, StreamInv, Delivering

LEMMA OpeningSent ==
    ASSUME DInv, stream' = Append(stream, Opening)
    PROVE  <<Opening>> \in Seq(Frame) /\ stream' = stream \o <<Opening>>
<1>1. Opening \in Frame
  BY EventsNat DEF Opening, Frame
<1>2. stream \in Seq(Frame)
  BY DEF DInv, StreamInv, Delivering
<1> QED  BY <1>1, <1>2

(* The call, the count and the records are left alone, and the stream too  *)
(* but for a new connection.                                               *)
LEMMA CountQuiet ==
    ASSUME DInv, DInv', CountInv,
           UNCHANGED <<kind, answered, handed, failed, batch, at, done, body>>,
           pc' = pc \/ pc' = "loop",
           stream' = stream \/ stream' = Append(stream, Opening)
    PROVE  CountInv'
<1>1. AnsweredInv'
  BY AnsweredKeeps, ReachedGrows DEF CountInv, DInv
<1>2. Claimed' = Claimed /\ Claimed' <= Claimed
  <2>1. Claimed \in Int
    BY ClaimedInt DEF CountInv, DInv, StreamInv, Delivering
  <2>2. Claimed' = Claimed
    BY DEF Claimed
  <2> QED  BY <2>1, <2>2
<1>3. failed' \in Int /\ done' \in Int /\ (pc' # "loop" => done' = 0)
  BY DEF CountInv
<1> QED  BY <1>1, <1>2, <1>3, NothingSent, OpeningSent, NothingMoreClaimed

(* The call ends, and claims no more than what is known to have got        *)
(* through.                                                                *)
LEMMA CountReturn ==
    ASSUME DInv, DInv', CountInv, UNCHANGED <<kind, answered, handed>>,
           NEW d \in Int, Return(d), body' = <<>>, d <= done - Len(body),
           NEW t \in Seq(Frame), stream' = stream \o t
    PROVE  CountInv'
<1>1. failed' \in Int /\ done' = 0 /\ Claimed' <= Claimed
  BY ReturnClaims
<1>2. AnsweredInv'
  BY AnsweredKeeps, ReachedGrows DEF CountInv, DInv, Return
<1> QED  BY <1>1, <1>2, NothingMoreClaimed

(* The record at hand is passed over: refused, cut, or put in the buffer.  *)
LEMMA CountPassed ==
    ASSUME DInv, DInv', CountInv, UNCHANGED <<kind, answered, handed, batch, done, body>>,
           More, Next_record, NEW m \in Nat, failed' = failed + m,
           NEW t \in Seq(Frame), stream' = stream \o t
    PROVE  CountInv'
<1>1. AnsweredInv'
  BY AnsweredKeeps, ReachedGrows DEF CountInv, DInv
<1>2. failed' \in Int /\ done' \in Int /\ pc' = "loop" /\ Claimed' <= Claimed
  BY ClaimedInt DEF CountInv, DInv, StreamInv, Delivering, Claimed, Next_record
<1> QED  BY <1>1, <1>2, NothingMoreClaimed

(* The record at hand got through by itself. *)
LEMMA CountOne ==
    ASSUME DInv, DInv', CountInv, UNCHANGED <<kind, answered, handed, failed, body>>,
           kind # "http", More, Next_record, body = <<>>, done' = done + 1,
           NEW t, SentBy(t, <<ev>>), Unbroken(t), Len(t) = 1, stream' = stream \o t
    PROVE  CountInv'
<1>1. AnsweredInv'
  BY AnsweredKeeps, ReachedGrows DEF CountInv, DInv
<1>2. done' \in Int /\ pc' = "loop" /\ Claimed' <= Claimed + 1
  BY ClaimedInt DEF CountInv, DInv, StreamInv, Delivering, Claimed, Next_record
<1>3. Delivering(stream, <<ev>>, ev) /\ Len(<<ev>>) = 1
  BY HeldRecord
<1> QED  BY <1>1, <1>2, <1>3, SentAreClaimed

-----------------------------------------------------------------------------
(* Each action keeps the count *)

LEMMA CountLifecycle ==
    ASSUME DInv, DInv', CountInv, ConfigureFails \/ InitFails \/ StartFails \/ Tick \/ Destroy
    PROVE  CountInv'
BY CountQuiet DEF ConfigureFails, InitFails, StartFails, Tick, Destroy,
   setup, call, tally, history

LEMMA CountStart == ASSUME DInv, DInv', CountInv, Start  PROVE CountInv'
<1>1. kind \in SocketKinds \cup {"fifo"}
  BY DEF DInv, CallInv
<1>2. body' = body /\ (stream' = stream \/ stream' = Append(stream, Opening))
  <2>1. CASE kind = "fifo"
    BY <2>1 DEF Start, fifo_start, fifo_open_write_end, fifo_arm_backoff, CloseFd
  <2>2. CASE kind \in SocketKinds
    <3>1. Open(TRUE) /\ body' = body
      BY <2>2 DEF Start, tcp_start, udp_start, http_start, unix_start, SocketKinds, StreamKinds
    <3> QED  BY <2>2, <3>1, OpenEffect
  <2> QED  BY <1>1, <2>1, <2>2
<1>3. UNCHANGED <<kind, answered, handed, failed, pc, batch, at, done>>
  BY DEF Start, setup, call, tally
<1> QED  BY <1>2, <1>3, CountQuiet

LEMMA CountCall == ASSUME DInv, DInv', CountInv, Call  PROVE CountInv'
<1> PICK n \in 1 .. IF async THEN MaxBatch ELSE 1 :
        handed' = handed + n /\ batch' = [i \in 1 .. n |-> handed + i]
  BY DEF Call
<1>1. pc = "idle" /\ UNCHANGED <<kind, answered, stream, at, done, body, failed>>
  BY DEF Call, setup, history
<1>2. handed \in Nat /\ batch = <<>> /\ n \in Nat /\ at = 1
  BY <1>1, SizeAssumption DEF DInv, CallInv
<1>3. Len(batch) = 0 /\ Len(batch') = n
  BY <1>2
<1>4. Claimed' = Claimed /\ Claimed \in Int /\ Reached' = Reached /\ Reached \in Nat
  <2>1. failed \in Int /\ done \in Int /\ body \in Seq(Events)
    BY DEF CountInv, DInv, StreamInv, Delivering
  <2>2. Claimed \in Int /\ Len(body) \in Nat
    BY <2>1, ClaimedInt DEF DInv
  <2> QED  BY <1>1, <1>2, <1>3, <2>1, <2>2 DEF Claimed, Reached
<1>5. AnsweredInv'
  BY <1>1, <1>4, AnsweredKeeps DEF CountInv
<1>6. failed' \in Int /\ done' \in Int /\ done' = 0 /\ Claimed' <= Claimed
  BY <1>1, <1>4 DEF CountInv
<1> QED  BY <1>1, <1>5, <1>6, NothingSent, NothingMoreClaimed

LEMMA CountBegin == ASSUME DInv, DInv', CountInv, Begin  PROVE CountInv'
<1>1. pc = "begin" /\ UNCHANGED <<kind, handed, answered>>
  BY DEF Begin, setup
<1>2. body = <<>> /\ kind \in SocketKinds \cup {"fifo"} /\ 0 \in Int /\ 0 <= done - Len(body)
  BY <1>1 DEF DInv, CallInv, CountInv
<1>3. CASE pc' = "loop" /\ UNCHANGED <<body, stream, call, failed>>
  BY <1>1, <1>3, CountQuiet DEF call
<1>4. CASE Reconnect(TRUE) /\ pc' = "loop" /\ UNCHANGED <<call, failed>>
  BY <1>1, <1>2, <1>4, ReconnectEffect, CountQuiet DEF call
<1>5. CASE Return(0) /\ body' = body /\ stream' = stream
  BY <1>1, <1>2, <1>5, NothingSent, CountReturn
<1>6. CASE Reconnect(FALSE) /\ Return(0)
  BY <1>2, <1>5, <1>6, ReconnectEffect
<1>7. CASE Return(0) /\ UNCHANGED <<body, stream>>
  BY <1>5, <1>7
<1> QED  BY <1>3, <1>4, <1>6, <1>7 DEF Begin

(* What a step puts on the stream is a sequence of frames. *)
LEMMA SendIsFrames ==
    ASSUME DInv, NEW b \in Seq(Events), NEW ok \in BOOLEAN, hpu_net_send(b, ok)
    PROVE  \E t \in Seq(Frame) :
              /\ SentBy(t, b) /\ stream' = stream \o t
              /\ ok => Unbroken(t) /\ Len(t) = Len(b)
<1>1. stream \in Seq(Frame)
  BY DEF DInv, StreamInv, Delivering
<1> QED  BY <1>1, SendEffect DEF SentBy

LEMMA AppendSends ==
    ASSUME DInv, More, NEW f \in {Whole(ev), Piece(ev)}, stream' = Append(stream, f)
    PROVE  SentBy(<<f>>, <<ev>>) /\ <<f>> \in Seq(Frame) /\ stream' = stream \o <<f>>
<1>1. SentBy(<<f>>, <<ev>>)
  BY OneSent, NextEvent DEF DInv
<1>2. <<f>> \in Seq(Frame) /\ stream \in Seq(Frame)
  BY <1>1 DEF SentBy, DInv, StreamInv, Delivering
<1>3. f \in Frame
  BY <1>2
<1> QED  BY <1>1, <1>2, <1>3

LEMMA WholeUnbroken == ASSUME NEW e  PROVE Unbroken(<<Whole(e)>>) /\ Len(<<Whole(e)>>) = 1
BY DEF Unbroken, Whole

LEMMA CountUdp == ASSUME DInv, DInv', CountInv, udp_emit_batch  PROVE CountInv'
<1>1. /\ More /\ kind = "udp" /\ Next_record
      /\ UNCHANGED <<kind, answered, handed, failed, body, batch>>
  BY DEF udp_emit_batch, setup, tally, Next_record
<1>2. body = <<>>
  BY <1>1 DEF DInv, CallInv
<1> PICK ok \in BOOLEAN : udp_send_one(ok)
  BY DEF udp_emit_batch
<1>3. failed' = failed + 0
  BY <1>1 DEF CountInv
<1>4. CASE ~ok
  BY <1>1, <1>3, <1>4, NothingSent, CountPassed DEF udp_send_one
<1>5. CASE ok /\ Fits
  BY <1>1, <1>2, <1>5, AppendSends, WholeUnbroken, CountOne DEF udp_send_one
<1>6. CASE ok /\ ~Fits
  BY <1>1, <1>3, <1>6, AppendSends, CountPassed DEF udp_send_one
<1> QED  BY <1>4, <1>5, <1>6

LEMMA CountDgram == ASSUME DInv, DInv', CountInv, unix_send_dgram  PROVE CountInv'
<1>1. More /\ kind = "dgram" /\ UNCHANGED <<kind, answered, handed>>
  BY DEF unix_send_dgram, setup
<1>2. body = <<>>
  BY <1>1 DEF DInv, CallInv
<1>3. ASSUME NEW ok \in BOOLEAN, hpu_net_send_dgram(ev, ok),
             done' = (IF ok THEN done + 1 ELSE done), Next_record, UNCHANGED <<body, failed>>
      PROVE  CountInv'
  <2>1. failed' = failed + 0 /\ batch' = batch
    BY <1>3 DEF CountInv, Next_record
  <2>2. CASE ok
    BY <1>1, <1>2, <1>3, <2>2, AppendSends, WholeUnbroken, CountOne DEF hpu_net_send_dgram
  <2>3. CASE ~ok
    BY <1>1, <1>3, <2>1, <2>3, NothingSent, CountPassed DEF hpu_net_send_dgram
  <2> QED  BY <2>2, <2>3
<1>4. CASE hpu_net_send_dgram(ev, FALSE) /\ Broken(done)
  <2>1. stream' = stream /\ body' = <<>> /\ Return(done)
    BY <1>1, <1>4, MarkEffect DEF hpu_net_send_dgram, Broken
  <2>2. done \in Int /\ done <= done - Len(body)
    BY <1>2 DEF CountInv
  <2> QED  BY <1>1, <2>1, <2>2, NothingSent, CountReturn
<1> QED  BY <1>3, <1>4 DEF unix_send_dgram

(* A record of a batch that fails is counted twice, never less.            *)
LEMMA CountFifo == ASSUME DInv, DInv', CountInv, fifo_emit_batch  PROVE CountInv'
<1>1. More /\ kind = "fifo" /\ UNCHANGED <<kind, answered, handed>>
  BY DEF fifo_emit_batch, setup
<1>2. body = <<>> /\ ev \in Events /\ <<ev>> \in Seq(Events) /\ Len(<<ev>>) = 1
  BY <1>1, NextEvent DEF DInv, CallInv
<1> PICK rc \in {"written", "full", "gone"} : fifo_deliver(rc)
  BY DEF fifo_emit_batch
<1>3. PICK t \in Seq(Frame) : /\ SentBy(t, <<ev>>) /\ stream' = stream \o t
                              /\ rc = "written" => Unbroken(t) /\ Len(t) = 1
  <2>1. hpu_net_send(<<ev>>, rc = "written") /\ (rc = "written") \in BOOLEAN
    BY DEF fifo_deliver, fifo_write_record
  <2> QED  BY <1>2, <2>1, SendIsFrames
<1>4. CountedTwice \in Nat
  BY DEF CountedTwice
<1>5. CASE rc = "written"
  <2>1. done' = done + 1 /\ Next_record /\ UNCHANGED <<body, failed>>
    BY <1>5 DEF fifo_deliver
  <2> QED  BY <1>1, <1>2, <1>3, <1>5, <2>1, CountOne
<1>6. CASE rc = "full"
  <2>1. failed' = failed + CountedTwice /\ Next_record /\ UNCHANGED <<done, body, batch>>
    BY <1>6 DEF fifo_deliver, Next_record
  <2> QED  BY <1>1, <1>3, <1>4, <2>1, CountPassed
<1>7. CASE rc = "gone"
  <2>1. Idle /\ body' = <<>> /\ failed' = failed + CountedTwice + (Len(batch) - done)
    BY <1>2, <1>7 DEF fifo_deliver, fifo_arm_backoff
  <2> DEFINE d == done - CountedTwice
  <2>2. d \in Int /\ d <= done - Len(body)
    BY <1>2, <1>4 DEF CountInv
  <2>3. Return(d)
    BY <1>4, <2>1 DEF Return, CountInv, DInv, CallInv
  <2> HIDE DEF d
  <2> QED  BY <1>1, <1>3, <2>1, <2>2, <2>3, CountReturn
<1> QED  BY <1>5, <1>6, <1>7

LEMMA CountSendFrame ==
    ASSUME DInv, DInv', CountInv, More, SendFrame, body = <<>>, kind \in {"tcp", "stream"}
    PROVE  CountInv'
<1>1. UNCHANGED <<kind, answered, handed>> /\ <<ev>> \in Seq(Events) /\ Len(<<ev>>) = 1
  BY NextEvent DEF SendFrame, setup, DInv
<1>2. CASE hpu_net_send(<<ev>>, TRUE) /\ done' = done + 1 /\ Next_record /\ UNCHANGED <<body, failed>>
  <2>1. PICK t \in Seq(Frame) : /\ SentBy(t, <<ev>>) /\ stream' = stream \o t
                                /\ Unbroken(t) /\ Len(t) = 1
    BY <1>1, <1>2, SendIsFrames
  <2> QED  BY <1>1, <1>2, <2>1, CountOne
<1>3. CASE hpu_net_send(<<ev>>, FALSE) /\ Broken(done)
  <2>1. PICK t \in Seq(Frame) : stream' = stream \o t
    BY <1>1, <1>3, SendIsFrames
  <2>2. body' = <<>> /\ Return(done) /\ done \in Int /\ done <= done - Len(body)
    BY <1>3, MarkEffect DEF Broken, CountInv
  <2> QED  BY <1>1, <2>1, <2>2, CountReturn
<1> QED  BY <1>2, <1>3 DEF SendFrame

(* The coalesced records did not get through, or it is not known that they *)
(* did: they are taken out of what is done.                                *)
LEMMA CountBodyLost ==
    ASSUME DInv, DInv', CountInv, UNCHANGED <<kind, answered, handed>>, kind # "fifo",
           NEW ok \in BOOLEAN, hpu_net_send(body, ok), Broken(done - Len(body))
    PROVE  CountInv'
<1>1. body \in Seq(Events) /\ Len(body) \in Nat
  BY DEF DInv, StreamInv, Delivering
<1>2. PICK t \in Seq(Frame) : stream' = stream \o t
  BY <1>1, SendIsFrames
<1> DEFINE d == done - Len(body)
<1>3. d \in Int /\ d <= done - Len(body) /\ body' = <<>> /\ Return(d)
  BY <1>1, MarkEffect DEF Broken, CountInv
<1> HIDE DEF d
<1> QED  BY <1>2, <1>3, CountReturn

LEMMA CountFlush ==
    ASSUME DInv, DInv', CountInv, FlushPending, kind \in {"tcp", "stream"}
    PROVE  CountInv'
<1>1. UNCHANGED <<kind, answered, handed>> /\ tcp_flush_pending /\ pc = "loop"
  BY DEF FlushPending, setup, unix_flush_pending
<1>2. CASE hpu_net_send(body, TRUE) /\ body' = <<>> /\ UNCHANGED <<call, pc, failed>>
  <2>1. Delivering(stream, body, Reached) /\ body \in Seq(Events)
    BY DEF DInv, StreamInv, Delivering
  <2>2. PICK t \in Seq(Frame) : /\ SentBy(t, body) /\ stream' = stream \o t
                                /\ Unbroken(t) /\ Len(t) = Len(body)
    BY <1>2, <2>1, SendIsFrames
  <2>3. UNCHANGED <<batch, at, done>>
    BY <1>2 DEF call
  <2>4. AnsweredInv'
    BY <1>1, <1>2, <2>3, AnsweredKeeps, ReachedGrows DEF CountInv, DInv
  <2>5. done' \in Int /\ Claimed' <= Claimed + Len(body)
    <3>1. Len(<<>>) = 0
      OBVIOUS
    <3>2. Claimed \in Int /\ Len(body) \in Nat /\ Len(batch) \in Nat /\ handed \in Nat
      BY <2>1, ClaimedInt DEF CountInv, DInv
    <3>3. Claimed' = handed - Len(batch) - failed + done
      BY <1>1, <1>2, <2>3, <3>1, <3>2 DEF Claimed, CountInv
    <3> QED  BY <2>3, <3>2, <3>3 DEF Claimed, CountInv
  <2> QED  BY <1>1, <1>2, <2>1, <2>2, <2>4, <2>5, SentAreClaimed
<1>3. CASE hpu_net_send(body, FALSE) /\ Broken(done - Len(body))
  BY <1>1, <1>3, CountBodyLost
<1> QED  BY <1>1, <1>2, <1>3 DEF tcp_flush_pending

(* A record that is coalesced is done and waits: nothing more is claimed.  *)
LEMMA CountAppend ==
    ASSUME DInv, DInv', CountInv, More, body' = Append(body, ev), done' = done + 1, Next_record,
           UNCHANGED <<kind, answered, handed, failed, stream>>
    PROVE  CountInv'
<1>1. Reached \in Nat /\ Reached' = ev /\ ev = Reached + 1 /\ ev \in Events
  BY NextEvent DEF DInv, CallInv, Next_record, Reached, More
<1>2. body \in Seq(Events) /\ Len(body) \in Nat
  BY DEF DInv, StreamInv, Delivering
<1>3. AnsweredInv'
  <2>1. \A e \in answered : e \in Nat /\ e < ev
    BY <1>1, EventsNat DEF CountInv, AnsweredInv
  <2>2. DOMAIN body' = 1 .. Len(body) + 1 /\ DOMAIN body = 1 .. Len(body)
        /\ body'[Len(body) + 1] = ev /\ \A k \in 1 .. Len(body) : body'[k] = body[k]
    BY <1>1, <1>2
  <2> QED  BY <1>1, <1>2, <2>1, <2>2 DEF CountInv, AnsweredInv
<1>4. failed' \in Int /\ done' \in Int /\ pc' = "loop" /\ Claimed' <= Claimed
  <2>1. Len(body') = Len(body) + 1
    BY <1>1, <1>2
  <2>2. Claimed \in Int /\ Len(batch) \in Nat /\ handed \in Nat /\ failed \in Int /\ done \in Int
    BY <1>2, ClaimedInt DEF CountInv, DInv
  <2>3. batch' = batch /\ pc' = "loop"
    BY DEF Next_record
  <2> QED  BY <1>2, <2>1, <2>2, <2>3 DEF Claimed
<1> QED  BY <1>3, <1>4, NothingSent, NothingMoreClaimed

LEMMA CountTcpUnix ==
    ASSUME DInv, DInv', CountInv, tcp_emit \/ tcp_emit_batch \/ unix_emit \/ unix_emit_batch
    PROVE  CountInv'
<1>1. CASE tcp_emit \/ (unix_emit /\ kind = "stream")
  <2>1. More /\ ~async /\ kind \in {"tcp", "stream"}
    BY <1>1 DEF tcp_emit, unix_emit, unix_send_dgram
  <2>2. body = <<>>
    BY <2>1 DEF DInv, CallInv
  <2>3. SendFrame
    BY <1>1, <2>1 DEF tcp_emit, unix_emit, unix_send_dgram
  <2> QED  BY <2>1, <2>2, <2>3, CountSendFrame
<1>2. CASE unix_send_dgram
  BY <1>2, CountDgram
<1>3. CASE Coalesce
  BY <1>3, CountAppend DEF Coalesce, setup, tally, history
<1>4. CASE /\ async /\ kind \in {"tcp", "stream"}
           /\ FlushPending \/ SendOversized
  BY <1>4, CountFlush, CountSendFrame DEF SendOversized
<1> QED  BY <1>1, <1>2, <1>3, <1>4 DEF tcp_emit, tcp_emit_batch, unix_emit, unix_emit_batch

-----------------------------------------------------------------------------
(* http: what arrived is what was answered with 2xx. *)

(* The request was answered with 2xx: as many events more have arrived as  *)
(* the body held, none of them before.                                     *)
LEMMA AnswerCount ==
    ASSUME DInv, DInv', CountInv, kind = "http", kind' = kind, handed' = handed, body' = <<>>,
           UNCHANGED <<batch, at>> \/ Idle, answered' = answered \cup ToSet(body)
    PROVE  /\ AnsweredInv'
           /\ Cardinality(Arrived) \in Nat /\ Cardinality(Arrived') \in Nat
           /\ Cardinality(Arrived) + Len(body) <= Cardinality(Arrived')
<1>1. /\ Delivering(stream, body, Reached) /\ body \in Seq(Events) /\ Increasing(body)
      /\ Len(body) \in Nat
  BY DEF DInv, StreamInv, Delivering
<1>2. Reached \in Nat /\ Reached' \in Nat /\ Reached <= Reached'
  BY ReachedGrows DEF DInv
<1>3. \A k \in DOMAIN body : body[k] \in Events /\ body[k] \in Nat /\ body[k] <= Reached
  BY <1>1, SeqOfEvents DEF Delivering
<1>4. ToSet(body) \subseteq Events /\ \A e \in ToSet(body) : e \in Nat /\ e <= Reached
  BY <1>3 DEF ToSet
<1>5. \A e \in answered : e \in Nat /\ e <= Reached
  BY EventsNat DEF CountInv, AnsweredInv
<1>6. AnsweredInv'
  <2>1. DOMAIN <<>> = {}
    OBVIOUS
  <2>2. answered' \subseteq Events
    BY <1>4 DEF CountInv, AnsweredInv
  <2>3. \A e \in answered' : e \in Nat /\ e <= Reached
    BY <1>4, <1>5
  <2>4. \A e \in answered' : e <= Reached'
    BY <1>2, <2>3
  <2> QED  BY <2>1, <2>2, <2>4 DEF AnsweredInv
<1>7. answered \cap ToSet(body) = {}
  <2> SUFFICES ASSUME NEW e \in answered, NEW k \in DOMAIN body, e = body[k]  PROVE FALSE
    BY DEF ToSet
  <2>1. e < body[k]
    BY DEF CountInv, AnsweredInv
  <2> QED  BY <1>3, <2>1
<1>8. IsFiniteSet(answered) /\ IsFiniteSet(answered')
  <2>1. IsFiniteSet(Events)
    BY EventsNat, FS_Interval DEF Events
  <2>2. answered \in SUBSET Events /\ answered' \in SUBSET Events
    BY <1>6 DEF CountInv, AnsweredInv
  <2> QED  BY <2>1, <2>2, FS_Subset
<1>9. /\ Cardinality(answered) \in Nat /\ Cardinality(answered') \in Nat
      /\ Cardinality(answered) + Len(body) <= Cardinality(answered')
  BY <1>1, <1>7, <1>8, RecordCount, DisjointCount
<1> QED  BY <1>6, <1>9 DEF Arrived

LEMMA CountPost == ASSUME DInv, DInv', CountInv, PostBatch  PROVE CountInv'
<1>1. kind = "http" /\ UNCHANGED <<kind, handed>> /\ http_flush_post /\ pc = "loop"
  BY DEF PostBatch, setup
<1>2. /\ Claimed \in Int /\ Len(body) \in Nat /\ Len(batch) \in Nat /\ handed \in Nat
      /\ failed \in Int /\ done \in Int
  BY ClaimedInt DEF CountInv, DInv, StreamInv, Delivering
<1>3. Claimed <= Cardinality(Arrived) /\ AnsweredInv
  BY DEF CountInv
<1>4. CASE hpu_net_send(body, FALSE) /\ Broken(done - Len(body)) /\ UNCHANGED answered
  BY <1>1, <1>4, CountBodyLost
<1>5. ASSUME hpu_net_send(body, TRUE), answered' = answered \cup ToSet(body), body' = <<>>,
             UNCHANGED <<call, pc, failed>>
      PROVE  CountInv'
  <2>1. UNCHANGED <<batch, at, done>>
    BY <1>5 DEF call
  <2>2. Len(<<>>) = 0
    OBVIOUS
  <2>3. Claimed' = Claimed + Len(body)
    BY <1>1, <1>2, <1>5, <2>1, <2>2 DEF Claimed
  <2>4. /\ AnsweredInv'
        /\ Cardinality(Arrived) \in Nat /\ Cardinality(Arrived') \in Nat
        /\ Cardinality(Arrived) + Len(body) <= Cardinality(Arrived')
    BY <1>1, <1>5, <2>1, AnswerCount
  <2>5. Claimed' <= Cardinality(Arrived')
    BY <1>2, <1>3, <2>3, <2>4
  <2> QED  BY <1>1, <1>2, <1>5, <2>1, <2>4, <2>5 DEF CountInv
<1>6. ASSUME Broken(done - Len(body)), answered' = answered \cup ToSet(body)
      PROVE  CountInv'
  <2> DEFINE d == done - Len(body)
  <2>1. Return(d) /\ body' = <<>> /\ d \in Int /\ d <= done - Len(body)
    BY <1>1, <1>2, <1>6, MarkEffect DEF Broken
  <2> HIDE DEF d
  <2>2. failed' \in Int /\ done' = 0 /\ Claimed' <= Claimed
    BY <1>1, <2>1, ReturnClaims
  <2>3. /\ AnsweredInv'
        /\ Cardinality(Arrived) \in Nat /\ Cardinality(Arrived') \in Nat
        /\ Cardinality(Arrived) + Len(body) <= Cardinality(Arrived')
    BY <1>1, <1>6, <2>1, AnswerCount DEF Return
  <2>4. Claimed' \in Int
    <3>1. handed' \in Nat /\ batch' \in Seq(Events) /\ body' \in Seq(Events)
      BY DEF DInv, CallInv, StreamInv, Delivering
    <3> QED  BY <2>2, <3>1 DEF Claimed
  <2>5. Claimed' <= Cardinality(Arrived')
    BY <1>2, <1>3, <2>2, <2>3, <2>4
  <2> QED  BY <2>2, <2>3, <2>5 DEF CountInv
<1>7. ASSUME NEW r \in http_read_response, hpu_net_send(body, TRUE),
             answered' = (IF Answered2xx(r) THEN answered \cup ToSet(body) ELSE answered),
             CASE r = "reusable" ->
                     /\ body' = <<>>
                     /\ UNCHANGED <<fd, connected, gate, call, pc, failed, foreign>>
               [] r = "unusable" -> http_conn_close /\ UNCHANGED <<call, pc, failed>>
               [] OTHER -> Broken(done - Len(body))
      PROVE  CountInv'
  <2>1. CASE r \in {"reusable", "unusable"}
    <3>1. answered' = answered \cup ToSet(body) /\ body' = <<>> /\ UNCHANGED <<call, pc, failed>>
      BY <1>7, <2>1 DEF Answered2xx, http_conn_close
    <3> QED  BY <1>5, <1>7, <3>1
  <2>2. CASE r = "undrained"
    BY <1>6, <1>7, <2>2 DEF Answered2xx
  <2>3. CASE r \in {"status", "dead"}
    BY <1>1, <1>7, <2>3, CountBodyLost DEF Answered2xx
  <2> QED  BY <2>1, <2>2, <2>3 DEF http_read_response
<1> QED  BY <1>1, <1>4, <1>7 DEF http_flush_post

LEMMA CountHttpAppend == ASSUME DInv, DInv', CountInv, http_emit_batch  PROVE CountInv'
BY CountAppend DEF http_emit_batch, setup, tally, history

LEMMA CountSkip == ASSUME DInv, DInv', CountInv, SkipOversized  PROVE CountInv'
<1>1. More /\ Next_record /\ UNCHANGED <<kind, answered, handed, failed, batch, done, body, stream>>
  BY DEF SkipOversized, setup, tally, history, Next_record
<1>2. failed' = failed + 0
  BY <1>1 DEF CountInv
<1> QED  BY <1>1, <1>2, NothingSent, CountPassed

LEMMA CountFinish == ASSUME DInv, DInv', CountInv, Finish  PROVE CountInv'
<1>1. body = <<>> /\ body' = <<>> /\ Return(done) /\ UNCHANGED <<kind, answered, handed, stream>>
  BY DEF Finish, setup, history
<1>2. done \in Int /\ done <= done - Len(body)
  BY <1>1 DEF CountInv
<1> QED  BY <1>1, <1>2, NothingSent, CountReturn

LEMMA CountNext == DInv /\ DInv' /\ CountInv /\ [Next]_vars => CountInv'
<1> SUFFICES ASSUME DInv, DInv', CountInv, [Next]_vars  PROVE CountInv'
  OBVIOUS
<1>1. CASE UNCHANGED vars
  BY <1>1, CountQuiet DEF vars, setup, call, tally, history
<1>2. CASE Next
  BY <1>2, CountLifecycle, CountStart, CountCall, CountBegin, CountUdp, CountFifo,
     CountTcpUnix, CountPost, CountHttpAppend, CountSkip, CountFinish DEF Next
<1> QED  BY <1>1, <1>2

(* What the statistics call neither dropped nor failed did leave, however  *)
(* many records were coalesced, half sent or unanswered when a connection  *)
(* broke, and whatever was counted twice.                                  *)
THEOREM NothingOverclaimed == Spec => []NeverOverclaimed
<1>1. DInv /\ CountInv => NeverOverclaimed
  <2> SUFFICES ASSUME DInv, CountInv, pc = "idle"
               PROVE  handed - failed <= Cardinality(Arrived)
    BY DEF NeverOverclaimed
  <2>1. batch = <<>> /\ body = <<>> /\ done = 0 /\ Len(<<>>) = 0
    BY DEF DInv, CallInv, CountInv
  <2>2. Claimed <= Cardinality(Arrived) /\ failed \in Int /\ handed \in Nat
    BY DEF CountInv, DInv, CallInv
  <2>3. Claimed = handed - 0 - failed + 0 - 0
    BY <2>1 DEF Claimed
  <2>4. Claimed = handed - failed
    BY <2>2, <2>3
  <2> QED  BY <2>2, <2>4
<1>2. DInv /\ CountInv /\ [Next]_vars => (DInv /\ CountInv)'
  BY NextKeeps, CountNext
<1> QED  BY <1>1, <1>2, InitHolds, CountInit, PTL DEF Spec
=============================================================================
