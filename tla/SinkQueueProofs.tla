-------------------------- MODULE SinkQueueProofs --------------------------
(***************************************************************************)
(* Proofs about the queue of an asynchronous sink: for a ring of any size  *)
(* and records of any length, what lies between the cursors can always be  *)
(* decoded, no accepted event is lost between ring, sweep and batch, and   *)
(* the statistics are exact.                                               *)
(***************************************************************************)
EXTENDS SinkQueue, FiniteSetTheorems, TLAPS

-----------------------------------------------------------------------------
(* Where monotonic cursors fall in a ring of C cells *)

(* An offset is a valid index. *)
LEMMA ModRange ==
    ASSUME NEW C \in Nat \ {0}, NEW a \in Nat
    PROVE  a % C \in 0 .. C - 1
  OBVIOUS

(* A cursor is so many full laps plus its offset. *)
LEMMA DivMod ==
    ASSUME NEW C \in Nat \ {0}, NEW a \in Nat
    PROVE  a \div C \in Nat /\ a = C * (a \div C) + (a % C)
  OBVIOUS

(* Cursors on different laps are at least a lap apart at lap starts. *)
LEMMA MulGap ==
    ASSUME NEW C \in Nat \ {0}, NEW q \in Int, NEW k \in Int, q < k
    PROVE  C * q + C <= C * k
  OBVIOUS

(* Laps and offset are unique. *)
LEMMA DivModUnique ==
    ASSUME NEW C \in Nat \ {0}, NEW q \in Int, NEW k \in Int,
           NEW r \in 0 .. C - 1, NEW s \in 0 .. C - 1, C * q + r = C * k + s
    PROVE  q = k /\ r = s
  <1>1. ~(q < k)
    BY MulGap
  <1>2. ~(k < q)
    BY MulGap
  <1>3. q = k
    BY <1>1, <1>2
  <1> QED
    BY <1>3

(* The offset of a cursor given as laps plus offset. *)
LEMMA ModOf ==
    ASSUME NEW C \in Nat \ {0}, NEW b \in Nat, NEW k \in Nat,
           NEW r \in 0 .. C - 1, b = C * k + r
    PROVE  b % C = r
  <1>1. b = C * (b \div C) + (b % C) /\ b \div C \in Nat
    BY DivMod
  <1>2. b % C \in 0 .. C - 1
    BY ModRange
  <1>3. C * k + r = C * (b \div C) + (b % C)
    BY <1>1
  <1>4. \A q \in Int : \A s \in 0 .. C - 1 : C * k + r = C * q + s => r = s
    BY DivModUnique
  <1> QED
    BY <1>1, <1>2, <1>3, <1>4

(* Advancing within a lap advances the offset. *)
LEMMA ModAdd ==
    ASSUME NEW C \in Nat \ {0}, NEW a \in Nat, NEW i \in Nat, (a % C) + i < C
    PROVE  (a + i) % C = (a % C) + i
  <1>1. a = C * (a \div C) + (a % C) /\ a \div C \in Nat
    BY DivMod
  <1>2. (a % C) + i \in 0 .. C - 1 /\ a % C \in 0 .. C - 1
    BY ModRange
  <1>3. a + i \in Nat
    OBVIOUS
  <1>4. C * (a \div C) \in Nat
    BY <1>1
  <1>5. a + i = C * (a \div C) + ((a % C) + i)
    BY <1>1, <1>2, <1>4
  <1> QED
    BY <1>1, <1>2, <1>3, <1>5, ModOf

(* Cursors less than a lap apart have different offsets. *)
LEMMA ModDistinct ==
    ASSUME NEW C \in Nat \ {0}, NEW a \in Nat, NEW b \in Nat, a < b, b < a + C
    PROVE  a % C # b % C
  <1>1. a = C * (a \div C) + (a % C) /\ a \div C \in Nat
    BY DivMod
  <1>2. b = C * (b \div C) + (b % C) /\ b \div C \in Nat
    BY DivMod
  <1>3. a % C \in 0 .. C - 1 /\ b % C \in 0 .. C - 1
    BY ModRange
  <1>4. SUFFICES ASSUME a % C = b % C
                 PROVE  FALSE
    OBVIOUS
  <1>5. C * (a \div C) \in Nat /\ C * (b \div C) \in Nat
    BY <1>1, <1>2
  <1>6. C * (a \div C) < C * (b \div C) /\ C * (b \div C) < C * (a \div C) + C
    BY <1>1, <1>2, <1>3, <1>4, <1>5
  <1>7. ~(a \div C < b \div C)
    BY <1>1, <1>2, <1>5, <1>6, MulGap
  <1>8. ~(b \div C < a \div C)
    BY <1>1, <1>2, <1>5, <1>6, MulGap
  <1>9. a \div C = b \div C
    BY <1>1, <1>2, <1>7, <1>8
  <1> QED
    BY <1>5, <1>6, <1>9

-----------------------------------------------------------------------------
LEMMA Sizes ==
    /\ Cap \in Nat \ {0} /\ PadLen \in Nat \ {0} /\ Hdr \in Nat /\ PadLen < Hdr /\ Hdr <= Cap
    /\ \A e \in Events : PackedLen[e] \in Nat \ {0} /\ Hdr <= PackedLen[e] /\ e # Pad /\ e # Unwritten
    /\ Pad # Unwritten /\ BatchMax \in Nat \ {0}
BY QueueAssumption

-----------------------------------------------------------------------------
(* Writing into the ring *)

(* What a free stretch of the ring holds once who was written to it.       *)
LEMMA PutInside ==
    ASSUME NEW b \in [Offsets -> Cells], NEW t \in Nat, NEW n \in Nat, (t % Cap) + n <= Cap,
           NEW who, NEW p \in t .. t + n - 1
    PROVE  Put(b, t % Cap, n, who)[p % Cap] = [ev |-> who, i |-> p - t]
<1>1. t % Cap \in Offsets /\ Cap \in Nat \ {0} /\ p - t \in Nat /\ p - t < n /\ p = t + (p - t)
  BY Sizes, ModRange DEF Offsets
<1>2. p % Cap = (t % Cap) + (p - t)
  <2>1. (t % Cap) + (p - t) < Cap
    BY <1>1 DEF Offsets
  <2> QED  BY <1>1, <2>1, ModAdd
<1>3. p % Cap \in Offsets /\ t % Cap <= p % Cap /\ p % Cap < (t % Cap) + n /\ (p % Cap) - (t % Cap) = p - t
  BY <1>1, <1>2 DEF Offsets
<1> QED  BY <1>3 DEF Put

(* The cells of the lap before it are untouched. *)
LEMMA PutOutside ==
    ASSUME NEW b \in [Offsets -> Cells], NEW t \in Nat, NEW n \in Nat, (t % Cap) + n <= Cap,
           NEW who, NEW p \in Nat, p \in t + n - Cap .. t - 1
    PROVE  Put(b, t % Cap, n, who)[p % Cap] = b[p % Cap]
<1>1. t % Cap \in Offsets /\ p % Cap \in Offsets /\ Cap \in Nat \ {0}
  BY Sizes, ModRange DEF Offsets
<1>2. ASSUME t % Cap <= p % Cap, p % Cap < (t % Cap) + n
      PROVE  FALSE
  <2> DEFINE i == (p % Cap) - (t % Cap)
  <2>1. i \in Nat /\ i < n /\ (t % Cap) + i < Cap /\ (t % Cap) + i = p % Cap
    BY <1>1, <1>2 DEF Offsets
  <2> HIDE DEF i
  <2>2. (t + i) % Cap = p % Cap
    BY <1>1, <2>1, ModAdd
  <2>3. p < t + i /\ t + i < p + Cap /\ t + i \in Nat
    BY <1>1, <2>1
  <2> QED  BY <1>1, <2>2, <2>3, ModDistinct
<1> QED  BY <1>1, <1>2 DEF Put

LEMMA PutType ==
    ASSUME NEW b \in [Offsets -> Cells], NEW at \in Offsets, NEW n \in Nat, NEW who \in Events \cup {Pad}
    PROVE  Put(b, at, n, who) \in [Offsets -> Cells]
<1> SUFFICES ASSUME NEW o \in Offsets
             PROVE  (IF at <= o /\ o < at + n THEN [ev |-> who, i |-> o - at] ELSE b[o]) \in Cells
  BY DEF Put
<1>1. CASE at <= o
  <2>1. o - at \in Nat
    BY <1>1, Sizes DEF Offsets
  <2> QED  BY <2>1 DEF Cells
<1> QED  BY <1>1

-----------------------------------------------------------------------------
(* Types *)

LEMMA TypeInit == Init => TypeOK
<1> SUFFICES ASSUME Init  PROVE TypeOK
  OBVIOUS
<1>1. [ev |-> Unwritten, i |-> 0] \in Cells
  BY DEF Cells
<1>2. <<>> \in Seq(Cells) /\ <<>> \in Seq(Events)
  OBVIOUS
<1>3. 0 \in 0 .. Word - 1 /\ 1 \in 0 .. Word - 1
  BY QueueAssumption
<1>4. buf \in [Offsets -> Cells] /\ fate \in [Events -> Fates]
  BY <1>1 DEF Init, Fates
<1> QED  BY <1>2, <1>3, <1>4 DEF Init, TypeOK

LEMMA DeliverTypes ==
    ASSUME TypeOK, NEW e \in Events, DeliverFull(e) \/ DeliverQueued(e)
    PROVE  TypeOK'
<1>1. tail % Cap \in Offsets /\ tail \in Nat /\ PadLen \in Nat /\ PackedLen[e] \in Nat
  BY Sizes, ModRange DEF TypeOK, Offsets
<1>2. TailAfterPad(e) \in Nat
  BY <1>1 DEF TailAfterPad
<1>3. BufAfterPad(e) \in [Offsets -> Cells]
  BY <1>1, PutType DEF BufAfterPad, TypeOK
<1>4. CASE DeliverFull(e)
  <2>1. fate' \in [Events -> Fates]
    BY <1>4 DEF DeliverFull, TypeOK, Fates
  <2> QED  BY <1>2, <1>3, <1>4, <2>1 DEF DeliverFull, TypeOK, worker, clock
<1>5. CASE DeliverQueued(e)
  <2>1. fate' \in [Events -> Fates]
    BY <1>5 DEF DeliverQueued, TypeOK, Fates
  <2>2. TailAfterPad(e) % Cap \in Offsets
    BY <1>2, Sizes, ModRange DEF Offsets
  <2>3. buf' \in [Offsets -> Cells]
    BY <1>1, <1>3, <1>5, <2>2, PutType DEF DeliverQueued
  <2>4. tail' \in Nat
    BY <1>1, <1>2, <1>5 DEF DeliverQueued
  <2> QED  BY <1>5, <2>1, <2>3, <2>4 DEF DeliverQueued, TypeOK, worker, clock
<1> QED  BY <1>4, <1>5

(* The copy made by a sweep: the bytes between the cursors, in order. *)
LEMMA LinearIs ==
    ASSUME TypeOK, head <= tail
    PROVE  /\ Linear \in Seq(Cells) /\ Len(Linear) = tail - head
           /\ \A k \in 0 .. tail - head - 1 : Linear[k + 1] = buf[(head + k) % Cap]
<1>1. avail = tail - head /\ tail - head \in Nat /\ head \in Nat /\ Cap \in Nat \ {0}
  BY Sizes DEF avail, TypeOK
<1>2. \A k \in 1 .. avail : buf[(head + k - 1) % Cap] \in Cells
  <2> TAKE k \in 1 .. avail
  <2>1. head + k - 1 \in Nat
    BY <1>1
  <2>2. (head + k - 1) % Cap \in Offsets
    BY <1>1, <2>1, ModRange DEF Offsets
  <2> QED  BY <2>2 DEF TypeOK
<1>3. Linear \in Seq(Cells) /\ Len(Linear) = tail - head
  BY <1>1, <1>2 DEF Linear
<1>4. ASSUME NEW k \in 0 .. tail - head - 1
      PROVE  Linear[k + 1] = buf[(head + k) % Cap]
  <2>1. k + 1 \in 1 .. avail /\ head + (k + 1) - 1 = head + k
    BY <1>1
  <2> QED  BY <2>1 DEF Linear
<1> QED  BY <1>3, <1>4

LEMMA SweepTypes ==
    ASSUME TypeOK, head <= tail, Sweep \/ SweepAndExit
    PROVE  TypeOK'
<1>1. sweep' \in Seq(Cells)
  BY LinearIs DEF Sweep, SweepAndExit
<1>2. head' \in Nat
  BY DEF Sweep, SweepAndExit, avail, TypeOK
<1>3. fate' \in [Events -> Fates]
  BY DEF Sweep, SweepAndExit, TypeOK, Fates
<1>5. <<>> \in Seq(Events)
  OBVIOUS
<1>4. batch' \in Seq(Events) /\ off' \in Nat /\ wpc' \in {"decode", "exited"}
  <2>1. CASE Sweep
    BY <1>5, <2>1 DEF Sweep
  <2>2. CASE SweepAndExit
    BY <2>2 DEF SweepAndExit, TypeOK
  <2> QED  BY <2>1, <2>2
<1> QED  BY <1>1, <1>2, <1>3, <1>4 DEF Sweep, SweepAndExit, TypeOK, stats, clock

LEMMA DecodeTypes ==
    ASSUME TypeOK, SkipPad \/ Decode \/ EndSweep
    PROVE  TypeOK'
<1>1. CASE SkipPad
  <2>1. off' \in Nat
    BY <1>1, Sizes DEF SkipPad, TypeOK
  <2> QED  BY <1>1, <2>1 DEF SkipPad, TypeOK, queue, stats, clock
<1>2. CASE Decode
  <2>1. CellAt(off).ev \in Events
    BY <1>2 DEF Decode, AtRecord
  <2>2. off' \in Nat /\ batch' \in Seq(Events)
    BY <1>2, <2>1, Sizes DEF Decode, TypeOK
  <2> QED  BY <1>2, <2>2 DEF Decode, TypeOK, queue, stats, clock
<1>3. CASE EndSweep
  BY <1>3 DEF EndSweep, TypeOK, queue, stats, clock
<1> QED  BY <1>1, <1>2, <1>3

(* How many of the batch the sink took, and how many not. *)
LEMMA TakenRange ==
    ASSUME TypeOK, NEW done, done \in -1 .. Len(batch)
    PROVE  Taken(done) \in 0 .. Len(batch) /\ Unsent(done) = Len(batch) - Taken(done) /\ Len(batch) \in Nat
BY DEF TypeOK, Taken, Unsent

LEMMA EmitTypes ==
    ASSUME TypeOK, NEW done, EmitBatch(done)
    PROVE  TypeOK'
<1>1. st_failed' \in Nat
  BY TakenRange DEF EmitBatch, TypeOK
<1>2. fate' \in [Events -> Fates]
  BY DEF EmitBatch, TypeOK, Fates
<1>3. <<>> \in Seq(Events)
  OBVIOUS
<1>4. batch' \in Seq(Events)
  BY <1>3 DEF EmitBatch
<1> QED  BY <1>1, <1>2, <1>4 DEF EmitBatch, TypeOK, queue, clock

LEMMA CloseTypes ==
    ASSUME TypeOK, CloseBegin \/ CloseStep \/ Tick
    PROVE  TypeOK'
<1>1. CASE CloseBegin
  <2>1. Deadline \in 0 .. Word - 1
    <3>1. Word \in Nat \ {0} /\ TimeoutMs \in Nat /\ now \in Nat
      BY QueueAssumption DEF TypeOK
    <3>2. now + (IF TimeoutMs = 0 THEN Word - 1 ELSE TimeoutMs) \in Nat
      BY <3>1
    <3> QED  BY <3>1, <3>2, ModRange DEF Deadline
  <2> QED  BY <1>1, <2>1 DEF CloseBegin, TypeOK, queue, worker, stats
<1>2. CASE DrainEnds
  BY <1>2 DEF DrainEnds, TypeOK, queue, worker, stats, clock
<1>3. CASE Join
  BY <1>3 DEF Join, TypeOK, queue, worker, stats, clock
<1>4. CASE Tick
  <2>1. now' \in 0 .. Word - 1
    BY <1>4, QueueAssumption DEF Tick, TypeOK
  <2> QED  BY <1>4, <2>1 DEF Tick, TypeOK, queue, worker, stats
<1> QED  BY <1>1, <1>2, <1>3, <1>4 DEF CloseStep

-----------------------------------------------------------------------------
(* The ring *)

Size(x) == IF x = Pad THEN PadLen ELSE PackedLen[x]

Start(e) == [ev |-> e, i |-> 0]

(* The byte of ring memory b under a cursor, and that it belongs to a pad  *)
(* or a record which lies between h and t and does not straddle the end.   *)
Cell(b, p) == b[p % Cap]

InRing(b, h, t, p) ==
    LET c == Cell(b, p)
    IN  /\ c.ev # Unwritten
        /\ c.i <= p - h
        /\ c.i < Size(c.ev)
        /\ p - c.i + Size(c.ev) <= t
        /\ ((p - c.i) % Cap) + Size(c.ev) <= Cap
        /\ \A k \in 0 .. Size(c.ev) - 1 : Cell(b, p - c.i + k) = [ev |-> c.ev, i |-> k]

Ring(b, h, t) ==
    /\ h <= t /\ t - h <= Cap
    /\ \A p \in h .. t - 1 : InRing(b, h, t, p)

(* The records of the events in q are in the ring, each once, and no other.*)
Holds(b, h, t, q) ==
    /\ \A e \in Events : e \in q <=> \E p \in h .. t - 1 : Cell(b, p) = Start(e)
    /\ \A e \in Events : \A p1, p2 \in h .. t - 1 :
          Cell(b, p1) = Start(e) /\ Cell(b, p2) = Start(e) => p1 = p2

RingInv == Ring(buf, head, tail) /\ Holds(buf, head, tail, Queued)

LEMMA RingIsStream == ASSUME RingInv  PROVE StreamWellFormed
BY DEF RingInv, Ring, InRing, StreamWellFormed, Size, Cell

LEMMA CellType ==
    ASSUME NEW b \in [Offsets -> Cells], NEW p \in Nat
    PROVE  Cell(b, p) \in Cells /\ Cell(b, p).i \in Nat /\ Cell(b, p).ev \in Events \cup {Pad, Unwritten}
<1>1. p % Cap \in Offsets
  BY Sizes, ModRange DEF Offsets
<1> QED  BY <1>1 DEF Cell, Cells

LEMMA SizeType ==
    ASSUME NEW x \in Events \cup {Pad}
    PROVE  Size(x) \in Nat \ {0} /\ x # Unwritten
BY Sizes DEF Size

(* A stretch written behind the tail, within a lap and into free space:    *)
(* what was in the ring is untouched, what was written is in it.           *)
LEMMA WriteCells ==
    ASSUME NEW b \in [Offsets -> Cells], NEW h \in Nat, NEW t \in Nat,
           NEW who \in Events \cup {Pad}, NEW n \in Nat,
           t + n <= h + Cap, (t % Cap) + n <= Cap
    PROVE  /\ \A p \in h .. t - 1 : Cell(Put(b, t % Cap, n, who), p) = Cell(b, p)
           /\ \A p \in t .. t + n - 1 :
                 Cell(Put(b, t % Cap, n, who), p) = [ev |-> who, i |-> p - t]
<1>1. ASSUME NEW p \in h .. t - 1
      PROVE  Put(b, t % Cap, n, who)[p % Cap] = b[p % Cap]
  <2>1. p \in Nat /\ p \in t + n - Cap .. t - 1
    BY Sizes
  <2> QED  BY <2>1, PutOutside
<1>2. ASSUME NEW p \in t .. t + n - 1
      PROVE  Put(b, t % Cap, n, who)[p % Cap] = [ev |-> who, i |-> p - t]
  BY PutInside
<1> QED  BY <1>1, <1>2 DEF Cell

LEMMA WriteKeepsRing ==
    ASSUME NEW b \in [Offsets -> Cells], NEW h \in Nat, NEW t \in Nat, Ring(b, h, t),
           NEW who \in Events \cup {Pad},
           t + Size(who) <= h + Cap, (t % Cap) + Size(who) <= Cap
    PROVE  Ring(Put(b, t % Cap, Size(who), who), h, t + Size(who))
<1> DEFINE n == Size(who)
<1> DEFINE b2 == Put(b, t % Cap, n, who)
<1>1. n \in Nat \ {0} /\ who # Unwritten /\ Cap \in Nat /\ t + n <= h + Cap /\ h <= t /\ Size(who) = n
  BY SizeType, Sizes DEF Ring
<1>0. t + n \in Nat /\ (t % Cap) + n <= Cap /\ n \in Nat /\ t + n <= h + Cap
  BY <1>1
<1>2. /\ \A p \in h .. t - 1 : Cell(b2, p) = Cell(b, p)
      /\ \A p \in t .. t + n - 1 : Cell(b2, p) = [ev |-> who, i |-> p - t]
  BY <1>0, WriteCells
<1> HIDE DEF n, b2
<1>4. ASSUME NEW p \in h .. t - 1
      PROVE  InRing(b2, h, t + n, p)
  <2> DEFINE c == Cell(b, p)
  <2>0. Cell(b2, p) = c
    BY <1>2
  <2>1. /\ c.ev # Unwritten /\ c.i <= p - h /\ c.i < Size(c.ev) /\ p - c.i + Size(c.ev) <= t
        /\ ((p - c.i) % Cap) + Size(c.ev) <= Cap
        /\ \A k \in 0 .. Size(c.ev) - 1 : Cell(b, p - c.i + k) = [ev |-> c.ev, i |-> k]
    BY DEF Ring, InRing
  <2>2. c.i \in Nat /\ Size(c.ev) \in Nat \ {0} /\ p \in Nat
    BY <2>1, CellType, SizeType
  <2> HIDE DEF c
  <2>3. \A k \in 0 .. Size(c.ev) - 1 : p - c.i + k \in h .. t - 1
    BY <2>1, <2>2
  <2>4. \A k \in 0 .. Size(c.ev) - 1 : Cell(b2, p - c.i + k) = [ev |-> c.ev, i |-> k]
    BY <1>2, <2>1, <2>3
  <2>5. p - c.i + Size(c.ev) <= t + n
    BY <1>1, <2>1, <2>2
  <2> QED  BY <2>0, <2>1, <2>4, <2>5 DEF InRing
<1>5. ASSUME NEW p \in t .. t + n - 1
      PROVE  InRing(b2, h, t + n, p)
  <2>1. Cell(b2, p) = [ev |-> who, i |-> p - t]
    BY <1>2
  <2>2. p - (p - t) = t /\ p - t < n /\ p - t <= p - h
    BY <1>1
  <2>3. \A k \in 0 .. n - 1 : Cell(b2, t + k) = [ev |-> who, i |-> k]
    <3> TAKE k \in 0 .. n - 1
    <3>1. t + k \in t .. t + n - 1 /\ (t + k) - t = k
      BY <1>1
    <3> QED  BY <1>2, <3>1
  <2> DEFINE c == Cell(b2, p)
  <2>4. c.ev = who /\ c.i = p - t
    BY <2>1
  <2> HIDE DEF c
  <2>5. p - c.i = t /\ t + n <= t + n /\ Size(c.ev) = n
    BY <1>0, <1>1, <2>2, <2>4
  <2> QED  BY <1>0, <1>1, <2>2, <2>3, <2>4, <2>5 DEF InRing, c
<1>6. \A p \in h .. t + n - 1 : p \in h .. t - 1 \/ p \in t .. t + n - 1
  BY <1>1
<1>7. h <= t + n /\ (t + n) - h <= Cap
  BY <1>1
<1>8. Ring(b2, h, t + n)
  <2>1. ASSUME NEW p \in h .. t + n - 1
        PROVE  InRing(b2, h, t + n, p)
    BY <1>4, <1>5, <1>6
  <2> QED  BY <1>0, <1>7, <2>1 DEF Ring
<1> QED  BY <1>8 DEF n, b2

(* A pad adds no record; a record adds its own, once. *)
LEMMA WriteHolds ==
    ASSUME NEW b \in [Offsets -> Cells], NEW h \in Nat, NEW t \in Nat, NEW q,
           Ring(b, h, t), Holds(b, h, t, q), NEW who \in Events \cup {Pad}, who \notin q,
           t + Size(who) <= h + Cap, (t % Cap) + Size(who) <= Cap
    PROVE  Holds(Put(b, t % Cap, Size(who), who), h, t + Size(who), q \cup ({who} \cap Events))
<1> DEFINE n == Size(who)
<1> DEFINE b2 == Put(b, t % Cap, n, who)
<1>1. n \in Nat \ {0} /\ n \in Nat /\ h <= t
  BY SizeType DEF Ring
<1>2. /\ \A p \in h .. t - 1 : Cell(b2, p) = Cell(b, p)
      /\ \A p \in t .. t + n - 1 : Cell(b2, p) = [ev |-> who, i |-> p - t]
  BY <1>1, WriteCells
<1> HIDE DEF n, b2
<1>3. \A p \in h .. t + n - 1 : p \in h .. t - 1 \/ p \in t .. t + n - 1
  BY <1>1
<1>4. \A p \in h .. t - 1 : p \in h .. t + n - 1
  BY <1>1
<1>5. t \in t .. t + n - 1 /\ t \in h .. t + n - 1 /\ t - t = 0
  BY <1>1
<1>6. \A p \in t .. t + n - 1 : \A e \in Events : Cell(b2, p) = Start(e) => who = e /\ p = t
  BY <1>1, <1>2 DEF Start
<1>7. Cell(b2, t) = Start(who)
  BY <1>2, <1>5 DEF Start
<1> DEFINE r == q \cup ({who} \cap Events)
<1>8. ASSUME NEW e \in Events
      PROVE  e \in r <=> \E p \in h .. t + n - 1 : Cell(b2, p) = Start(e)
  <2>1. ASSUME e \in q
        PROVE  \E p \in h .. t + n - 1 : Cell(b2, p) = Start(e)
    <3> PICK p \in h .. t - 1 : Cell(b, p) = Start(e)
      BY <2>1 DEF Holds
    <3>1. p \in h .. t + n - 1 /\ Cell(b2, p) = Start(e)
      BY <1>2, <1>4
    <3> QED  BY <3>1
  <2>2. ASSUME e = who
        PROVE  \E p \in h .. t + n - 1 : Cell(b2, p) = Start(e)
    BY <1>5, <1>7, <2>2
  <2>3. ASSUME NEW p \in h .. t + n - 1, Cell(b2, p) = Start(e)
        PROVE  e \in r
    <3>1. CASE p \in h .. t - 1
      BY <1>2, <2>3, <3>1 DEF Holds
    <3>2. CASE p \in t .. t + n - 1
      BY <1>6, <2>3, <3>2
    <3> QED  BY <1>3, <3>1, <3>2
  <2> QED  BY <2>1, <2>2, <2>3
<1>9. ASSUME NEW e \in Events, NEW p1 \in h .. t + n - 1, NEW p2 \in h .. t + n - 1,
             Cell(b2, p1) = Start(e), Cell(b2, p2) = Start(e)
      PROVE  p1 = p2
  <2>1. CASE p1 \in h .. t - 1 /\ p2 \in h .. t - 1
    BY <1>2, <1>9, <2>1 DEF Holds
  <2>2. CASE p1 \in t .. t + n - 1 /\ p2 \in t .. t + n - 1
    BY <1>6, <1>9, <2>2
  <2>3. ASSUME NEW p \in h .. t - 1, NEW p3 \in t .. t + n - 1,
               Cell(b2, p) = Start(e), Cell(b2, p3) = Start(e)
        PROVE  FALSE
    <3>1. who = e
      BY <1>6, <2>3
    <3>2. e \in q
      BY <1>2, <2>3 DEF Holds
    <3> QED  BY <3>1, <3>2
  <2> QED  BY <1>3, <1>9, <2>1, <2>2, <2>3
<1>10. Holds(b2, h, t + n, r)
  <2> DEFINE t2 == t + n
  <2>1. t2 - 1 = t + n - 1
    BY <1>1
  <2> HIDE DEF r, t2
  <2>2. Holds(b2, h, t2, r)
    BY <1>8, <1>9, <2>1 DEF Holds
  <2> QED  BY <2>2 DEF t2
<1> QED  BY <1>10 DEF n, b2

(* The bridge in front of a record, if there is one. *)
LEMMA PadKeeps ==
    ASSUME TypeOK, RingInv, NEW e \in Events
    PROVE  /\ BufAfterPad(e) \in [Offsets -> Cells] /\ TailAfterPad(e) \in Nat
           /\ Ring(BufAfterPad(e), head, TailAfterPad(e))
           /\ Holds(BufAfterPad(e), head, TailAfterPad(e), Queued)
<1>1. /\ buf \in [Offsets -> Cells] /\ head \in Nat /\ tail \in Nat /\ PadLen \in Nat \ {0}
      /\ tail % Cap \in Offsets /\ Cap \in Nat \ {0}
  BY Sizes, ModRange DEF TypeOK, Offsets
<1>2. CASE ~PadWritten(e)
  BY <1>1, <1>2 DEF BufAfterPad, TailAfterPad, RingInv
<1>3. CASE PadWritten(e)
  <2>1. BufAfterPad(e) = Put(buf, tail % Cap, Size(Pad), Pad) /\ TailAfterPad(e) = tail + Size(Pad)
    BY <1>3 DEF BufAfterPad, TailAfterPad, Size
  <2>2. tail + Size(Pad) <= head + Cap /\ (tail % Cap) + Size(Pad) <= Cap
    BY <1>1, <1>3 DEF PadWritten, Free, contig, Size, Offsets
  <2>3. Pad \notin Queued /\ Queued \cup ({Pad} \cap Events) = Queued
    BY Sizes DEF Queued
  <2>4. Ring(buf, head, tail) /\ Holds(buf, head, tail, Queued)
    BY DEF RingInv
  <2>8. Pad \in Events \cup {Pad} /\ head \in Nat /\ tail \in Nat /\ buf \in [Offsets -> Cells]
    BY <1>1
  <2>5. Ring(BufAfterPad(e), head, TailAfterPad(e))
    BY <2>1, <2>2, <2>4, <2>8, WriteKeepsRing
  <2>6. Holds(BufAfterPad(e), head, TailAfterPad(e), Queued)
    BY <2>1, <2>2, <2>3, <2>4, <2>8, WriteHolds
  <2>7. BufAfterPad(e) \in [Offsets -> Cells] /\ TailAfterPad(e) \in Nat
    BY <1>1, PutType DEF BufAfterPad, TailAfterPad
  <2> QED  BY <2>5, <2>6, <2>7
<1> QED  BY <1>2, <1>3

LEMMA DeliverKeepsRing ==
    ASSUME TypeOK, RingInv, NEW e \in Events, DeliverFull(e) \/ DeliverQueued(e)
    PROVE  RingInv'
<1> DEFINE b == BufAfterPad(e)
<1> DEFINE t == TailAfterPad(e)
<1>1. /\ b \in [Offsets -> Cells] /\ t \in Nat /\ head \in Nat
      /\ Ring(b, head, t) /\ Holds(b, head, t, Queued)
  BY PadKeeps DEF TypeOK
<1>2. CASE DeliverFull(e)
  <2>1. buf' = b /\ tail' = t /\ head' = head
    BY <1>2 DEF DeliverFull
  <2>2. Queued' = Queued
    BY <1>2 DEF DeliverFull, Queued, TypeOK
  <2> HIDE DEF b, t
  <2>3. Ring(buf', head', tail') /\ Holds(buf', head', tail', Queued')
    BY <1>1, <2>1, <2>2
  <2> QED  BY <2>3 DEF RingInv, Ring, Holds, InRing, Cell, Start, Size, Queued
<1>3. CASE DeliverQueued(e)
  <2>1. /\ buf' = Put(b, t % Cap, Size(e), e) /\ tail' = t + Size(e) /\ head' = head
    BY <1>3, Sizes DEF DeliverQueued, Size
  <2>2. Queued' = Queued \cup ({e} \cap Events) /\ e \notin Queued
    BY <1>3 DEF DeliverQueued, Queued, TypeOK
  <2>3. t + Size(e) <= head + Cap /\ (t % Cap) + Size(e) <= Cap
    <3>1. Free(t) >= Size(e) /\ (t % Cap) + Size(e) <= Cap
      <4>1. Size(e) = PackedLen[e] /\ Size(e) \in Nat /\ Cap \in Nat
        BY Sizes DEF Size
      <4>2. t % Cap \in Nat
        BY <1>1, Sizes, ModRange
      <4> HIDE DEF b, t
      <4>3. ~(Free(t) < Size(e)) /\ ~((t % Cap) + Size(e) > Cap)
        BY <1>3, <4>1 DEF DeliverQueued, Full, t
      <4>4. Free(t) \in Int
        BY <1>1, <4>1 DEF Free
      <4> QED  BY <4>1, <4>2, <4>3, <4>4
    <3>2. Size(e) \in Nat /\ Cap \in Nat
      BY Sizes DEF Size
    <3> HIDE DEF b, t
    <3> QED  BY <1>1, <3>1, <3>2 DEF Free
  <2> HIDE DEF b, t
  <2>5. e \in Events \cup {Pad}
    OBVIOUS
  <2>6. Ring(buf', head', tail')
    BY <1>1, <2>1, <2>3, <2>5, WriteKeepsRing
  <2>7. Holds(buf', head', tail', Queued')
    BY <1>1, <2>1, <2>2, <2>3, <2>5, WriteHolds
  <2> QED  BY <2>6, <2>7 DEF RingInv, Ring, Holds, InRing, Cell, Start, Size, Queued
<1> QED  BY <1>2, <1>3

(* A sweep leaves the ring empty. *)
LEMMA SweepKeepsRing ==
    ASSUME TypeOK, RingInv, Sweep \/ SweepAndExit
    PROVE  RingInv'
<1>1. head' = tail /\ tail' = tail /\ buf' = buf /\ tail \in Nat /\ Cap \in Nat
  BY Sizes DEF Sweep, SweepAndExit, avail, TypeOK
<1>2. Queued' = {}
  BY DEF Sweep, SweepAndExit, Queued
<1>3. head' .. tail' - 1 = {}
  BY <1>1
<1>4. head' <= tail' /\ tail' - head' <= Cap
  BY <1>1
<1> QED  BY <1>2, <1>3, <1>4 DEF RingInv, Ring, Holds

LEMMA OthersKeepRing ==
    ASSUME TypeOK, RingInv, UNCHANGED queue, Queued' = Queued
    PROVE  RingInv'
BY DEF RingInv, Ring, Holds, InRing, Cell, Start, Size, queue

-----------------------------------------------------------------------------
(* The worker *)

(* A byte of the swept copy belongs to a whole pad or record of it. *)
InSweep(k) ==
    LET c == CellAt(k)
    IN  /\ c.ev # Unwritten
        /\ c.i <= k
        /\ c.i < Size(c.ev)
        /\ k - c.i + Size(c.ev) <= Len(sweep)
        /\ \A j \in 0 .. Size(c.ev) - 1 : CellAt(k - c.i + j) = [ev |-> c.ev, i |-> j]

InBatch(e) == \E k \in 1 .. Len(batch) : batch[k] = e
Left(e) == \E k \in off .. Len(sweep) - 1 : CellAt(k) = Start(e)

(* While the worker decodes, every event it swept is in the batch or still *)
(* ahead in the copy, once; between sweeps it has none.                    *)
Decodable ==
    /\ Len(sweep) <= Cap
    /\ \A k \in 0 .. Len(sweep) - 1 : InSweep(k)
    /\ off <= Len(sweep) /\ (off < Len(sweep) => CellAt(off).i = 0)
    /\ \A e \in Events : \A k1, k2 \in 0 .. Len(sweep) - 1 :
          CellAt(k1) = Start(e) /\ CellAt(k2) = Start(e) => k1 = k2

Accounted ==
    /\ \A e \in Events : fate[e] = "swept" <=> InBatch(e) \/ Left(e)
    /\ \A e \in Events : ~(InBatch(e) /\ Left(e))
    /\ \A j, k \in 1 .. Len(batch) : batch[j] = batch[k] => j = k

SweepInv ==
    /\ \A e \in Events : fate[e] = "swept" => wpc # "wait"
    /\ wpc = "decode" => Decodable /\ Accounted

LEMMA SweepCellType ==
    ASSUME TypeOK, NEW k \in 0 .. Len(sweep) - 1
    PROVE  /\ CellAt(k) \in Cells /\ CellAt(k).i \in Nat
           /\ CellAt(k) = [ev |-> CellAt(k).ev, i |-> CellAt(k).i]
           /\ CellAt(k).ev # Unwritten => Size(CellAt(k).ev) \in Nat \ {0}
<1>1. k + 1 \in 1 .. Len(sweep) /\ sweep \in Seq(Cells)
  BY DEF TypeOK
<1>2. CellAt(k) \in Cells
  BY <1>1 DEF CellAt
<1>3. CellAt(k).ev \in Events \cup {Pad, Unwritten} /\ CellAt(k).i \in Nat
      /\ CellAt(k) = [ev |-> CellAt(k).ev, i |-> CellAt(k).i]
  BY <1>2 DEF Cells
<1> QED  BY <1>2, <1>3, SizeType

(* The copy of a sweep can be decoded from its beginning. *)
LEMMA SweepKeepsSweep ==
    ASSUME TypeOK, RingInv, SweepInv, Sweep
    PROVE  SweepInv'
<1>1. /\ head \in Nat /\ tail \in Nat /\ head <= tail /\ tail - head <= Cap /\ Cap \in Nat
      /\ wpc = "wait" /\ wpc' = "decode" /\ sweep' = Linear /\ off' = 0 /\ batch' = <<>>
  BY Sizes DEF TypeOK, RingInv, Ring, Sweep
<1> DEFINE n == tail - head
<1>2. n \in Nat /\ Len(sweep') = n /\ \A k \in 0 .. n - 1 : CellAt(k)' = Cell(buf, head + k)
  BY <1>1, LinearIs DEF CellAt, Cell
<1>3. \A k \in 0 .. n - 1 : head + k \in head .. tail - 1
  BY <1>1
<1>4. \A p \in head .. tail - 1 : p - head \in 0 .. n - 1 /\ head + (p - head) = p
  BY <1>1
<1>5. ASSUME NEW k \in 0 .. n - 1
      PROVE  InSweep(k)'
  <2> DEFINE c == Cell(buf, head + k)
  <2>1. InRing(buf, head, tail, head + k)
    BY <1>3 DEF RingInv, Ring
  <2>2. /\ c.ev # Unwritten /\ c.i <= (head + k) - head /\ c.i < Size(c.ev)
        /\ (head + k) - c.i + Size(c.ev) <= tail
        /\ \A j \in 0 .. Size(c.ev) - 1 :
              Cell(buf, (head + k) - c.i + j) = [ev |-> c.ev, i |-> j]
    BY <2>1 DEF InRing
  <2>3. c.i \in Nat /\ Size(c.ev) \in Nat \ {0}
    <3>1. head + k \in Nat /\ buf \in [Offsets -> Cells]
      BY <1>1 DEF TypeOK
    <3> QED  BY <2>2, <3>1, CellType, SizeType
  <2>4. CellAt(k)' = c
    BY <1>2
  <2> HIDE DEF c
  <2>5. c.i <= k /\ k - c.i + Size(c.ev) <= n
    BY <1>1, <2>2, <2>3
  <2>6. \A j \in 0 .. Size(c.ev) - 1 : sweep'[k - c.i + j + 1] = [ev |-> c.ev, i |-> j]
    <3> TAKE j \in 0 .. Size(c.ev) - 1
    <3>1. k - c.i + j \in 0 .. n - 1 /\ head + (k - c.i + j) = (head + k) - c.i + j
      BY <1>1, <2>3, <2>5
    <3>2. sweep'[(k - c.i + j) + 1] = Cell(buf, head + (k - c.i + j))
      BY <1>2, <3>1 DEF CellAt
    <3> QED  BY <2>2, <3>1, <3>2
  <2> QED  BY <1>2, <2>2, <2>4, <2>5, <2>6 DEF InSweep, CellAt, Size
<1> HIDE DEF n
<1>6. \A e \in Events : \A k1, k2 \in 0 .. n - 1 :
         CellAt(k1)' = Start(e) /\ CellAt(k2)' = Start(e) => k1 = k2
  <2> TAKE e \in Events
  <2> TAKE k1, k2 \in 0 .. n - 1
  <2> HAVE CellAt(k1)' = Start(e) /\ CellAt(k2)' = Start(e)
  <2>1. head + k1 = head + k2
    BY <1>2, <1>3 DEF RingInv, Holds
  <2>2. k1 \in Nat /\ k2 \in Nat /\ head \in Nat
    BY <1>1, <1>2
  <2> QED  BY <2>1, <2>2
<1>7. Decodable'
  <2>1. \A k \in 0 .. Len(sweep') - 1 : InSweep(k)'
    BY <1>2, <1>5
  <2>2. Len(sweep') <= Cap /\ off' <= Len(sweep')
    BY <1>1, <1>2 DEF n
  <2>3. off' < Len(sweep') => (CellAt(off)').i = 0
    <3> SUFFICES ASSUME 0 < n  PROVE (CellAt(0)').i = 0
      BY <1>1, <1>2 DEF CellAt
    <3>1. InSweep(0)' /\ TypeOK'
      BY <1>1, <1>2, <1>5, SweepTypes
    <3>2. (CellAt(0)').i <= 0
      BY <3>1 DEF InSweep
    <3>3. (CellAt(0)').i \in Nat
      <4>1. head \in Nat /\ buf \in [Offsets -> Cells] /\ head + 0 = head
        BY <1>1 DEF TypeOK
      <4>2. CellAt(0)' = Cell(buf, head)
        BY <1>2, <4>1
      <4> QED  BY <4>1, <4>2, CellType
    <3> QED  BY <3>2, <3>3
  <2> QED  BY <1>2, <1>6, <2>1, <2>2, <2>3 DEF Decodable, Start
<1>8. Accounted'
  <2>1. \A e \in Events : ~InBatch(e)'
    BY <1>1 DEF InBatch
  <2>2. \A e \in Events : Left(e)' <=> e \in Queued
    <3> TAKE e \in Events
    <3>1. Left(e)' <=> \E k \in 0 .. n - 1 : Cell(buf, head + k) = Start(e)
      BY <1>1, <1>2 DEF Left, Start
    <3>2. e \in Queued <=> \E p \in head .. tail - 1 : Cell(buf, p) = Start(e)
      BY DEF RingInv, Holds
    <3> QED  BY <1>3, <1>4, <3>1, <3>2
  <2>3. \A e \in Events : fate'[e] = "swept" <=> e \in Queued
    BY <1>1 DEF Sweep, SweepInv, Queued
  <2>4. \A j, k \in 1 .. Len(batch') : batch'[j] = batch'[k] => j = k
    BY <1>1
  <2> QED  BY <2>1, <2>2, <2>3, <2>4 DEF Accounted
<1> QED  BY <1>1, <1>7, <1>8 DEF SweepInv

(* Deliveries and the close change nothing the worker has. *)
LEMMA OthersKeepSweep ==
    ASSUME SweepInv, UNCHANGED worker,
           \A e \in Events : fate'[e] = "swept" <=> fate[e] = "swept"
    PROVE  SweepInv'
<1>1. UNCHANGED <<wpc, sweep, off, batch>>
  BY DEF worker
<1>2. Decodable => Decodable'
  BY <1>1 DEF Decodable, InSweep, CellAt, Start, Size
<1>3. Accounted => Accounted'
  BY <1>1 DEF Accounted, InBatch, Left, CellAt, Start
<1> QED  BY <1>1, <1>2, <1>3 DEF SweepInv

(* The last sweep: the worker exits with what it swept. *)
LEMMA ExitKeepsSweep == ASSUME SweepAndExit  PROVE SweepInv'
BY DEF SweepAndExit, SweepInv

(* What starts at the offset ends where the next thing starts. *)
LEMMA NextStart ==
    ASSUME TypeOK, Decodable, off < Len(sweep), NEW n, n = Size(CellAt(off).ev)
    PROVE  /\ n \in Nat \ {0} /\ off + n <= Len(sweep)
           /\ \A k \in off .. off + n - 1 : CellAt(k) = [ev |-> CellAt(off).ev, i |-> k - off]
           /\ off + n < Len(sweep) => CellAt(off + n).i = 0
<1>1. off \in 0 .. Len(sweep) - 1 /\ off \in Nat /\ Len(sweep) \in Nat
  BY DEF TypeOK
<1>2. InSweep(off) /\ CellAt(off).i = 0
  BY <1>1 DEF Decodable
<1>3. n \in Nat \ {0} /\ off + n <= Len(sweep)
  BY <1>1, <1>2, SweepCellType DEF InSweep
<1>4. \A k \in off .. off + n - 1 : CellAt(k) = [ev |-> CellAt(off).ev, i |-> k - off]
  <2> TAKE k \in off .. off + n - 1
  <2>1. k - off \in 0 .. n - 1 /\ off - 0 + (k - off) = k
    BY <1>1, <1>3
  <2>2. \A j \in 0 .. n - 1 : CellAt(off - 0 + j) = [ev |-> CellAt(off).ev, i |-> j]
    BY <1>2 DEF InSweep
  <2> QED  BY <2>1, <2>2
<1>5. ASSUME off + n < Len(sweep), CellAt(off + n).i # 0
      PROVE  FALSE
  <2> DEFINE m == off + n
  <2>1. m \in 0 .. Len(sweep) - 1 /\ m - 1 \in off .. off + n - 1 /\ m \in Nat
    BY <1>1, <1>3, <1>5
  <2> DEFINE c == CellAt(m)
  <2>2. InSweep(m) /\ c.i \in Nat \ {0}
    BY <1>5, <2>1, SweepCellType DEF Decodable
  <2>3. /\ c.i <= m /\ c.i < Size(c.ev) /\ c.ev # Unwritten
        /\ \A j \in 0 .. Size(c.ev) - 1 : CellAt(m - c.i + j) = [ev |-> c.ev, i |-> j]
    BY <2>2 DEF InSweep
  <2>4. Size(c.ev) \in Nat
    BY <2>1, <2>3, SweepCellType
  <2> HIDE DEF c
  <2>5. c.i - 1 \in 0 .. Size(c.ev) - 1 /\ m - c.i + (c.i - 1) = m - 1
    BY <2>1, <2>2, <2>3, <2>4
  <2>6. CellAt(m - 1) = [ev |-> c.ev, i |-> c.i - 1]
    BY <2>3, <2>5
  <2>7. CellAt(m - 1) = [ev |-> CellAt(off).ev, i |-> (m - 1) - off]
    BY <1>4, <2>1
  <2>8. c.ev = CellAt(off).ev /\ c.i - 1 = (m - 1) - off
    BY <2>6, <2>7
  <2>9. c.i = n
    BY <1>1, <1>3, <2>2, <2>8
  <2> QED  BY <2>3, <2>4, <2>8, <2>9
<1> QED  BY <1>3, <1>4, <1>5

(* Beyond the thing at the offset only the event that starts there is not  *)
(* left any more.                                                          *)
LEMMA LeftAfter ==
    ASSUME TypeOK, Decodable, off < Len(sweep), off' = off + Size(CellAt(off).ev),
           UNCHANGED sweep, NEW e \in Events
    PROVE  /\ Left(e) <=> Left(e)' \/ CellAt(off) = Start(e)
           /\ ~(Left(e)' /\ CellAt(off) = Start(e))
<1> DEFINE n == Size(CellAt(off).ev)
<1>1. n \in Nat \ {0} /\ off + n <= Len(sweep) /\ off \in Nat /\ Len(sweep) \in Nat
      /\ \A k \in off .. off + n - 1 : CellAt(k) = [ev |-> CellAt(off).ev, i |-> k - off]
  BY NextStart DEF TypeOK
<1>4. Left(e)' <=> \E k \in off + n .. Len(sweep) - 1 : CellAt(k) = Start(e)
  BY DEF Left, CellAt, Start
<1> HIDE DEF n
<1>2. ASSUME NEW k \in off .. off + n - 1, CellAt(k) = Start(e)
      PROVE  k = off
  BY <1>1, <1>2 DEF Start
<1>3. \A k \in off .. Len(sweep) - 1 : k \in off .. off + n - 1 \/ k \in off + n .. Len(sweep) - 1
  BY <1>1
<1>5. off \in off .. Len(sweep) - 1 /\ off \in 0 .. Len(sweep) - 1
  BY <1>1
<1>6. \A k \in off + n .. Len(sweep) - 1 : k \in off .. Len(sweep) - 1 /\ k \in 0 .. Len(sweep) - 1 /\ k # off
  BY <1>1
<1>7. Left(e) <=> Left(e)' \/ CellAt(off) = Start(e)
  BY <1>2, <1>3, <1>4, <1>5, <1>6 DEF Left
<1>8. ~(Left(e)' /\ CellAt(off) = Start(e))
  BY <1>4, <1>5, <1>6 DEF Decodable
<1> QED  BY <1>7, <1>8

LEMMA AdvanceKeeps ==
    ASSUME TypeOK, Decodable, off < Len(sweep), off' = off + Size(CellAt(off).ev),
           UNCHANGED sweep
    PROVE  Decodable'
<1> DEFINE n == Size(CellAt(off).ev)
<1>1. off + n <= Len(sweep) /\ (off + n < Len(sweep) => CellAt(off + n).i = 0)
  BY NextStart
<1>2. off' <= Len(sweep) /\ (off' < Len(sweep) => sweep[off' + 1].i = 0)
  BY <1>1 DEF CellAt
<1> QED  BY <1>2 DEF Decodable, InSweep, CellAt, Start, Size

LEMMA MoreMeans ==
    ASSUME TypeOK, More
    PROVE  off < Len(sweep) /\ off \in 0 .. Len(sweep) - 1
BY Sizes DEF TypeOK, More

LEMMA SkipPadKeeps == ASSUME TypeOK, SweepInv, SkipPad  PROVE SweepInv'
<1>1. wpc = "decode" /\ More /\ AtPad /\ UNCHANGED <<wpc, sweep, batch, fate>> /\ off' = off + PadLen
  BY DEF SkipPad, Decoding
<1>2. Decodable /\ Accounted /\ off < Len(sweep) /\ off' = off + Size(CellAt(off).ev)
  BY <1>1, MoreMeans DEF SweepInv, AtPad, Size
<1>3. Decodable'
  BY <1>1, <1>2, AdvanceKeeps
<1>4. ASSUME NEW e \in Events
      PROVE  Left(e)' <=> Left(e)
  <2>1. CellAt(off) # Start(e)
    BY <1>1, Sizes DEF AtPad, Start
  <2> QED  BY <1>1, <1>2, <2>1, LeftAfter
<1>5. \A e \in Events : InBatch(e)' <=> InBatch(e)
  BY <1>1 DEF InBatch
<1>6. Accounted'
  BY <1>1, <1>2, <1>4, <1>5 DEF Accounted
<1> QED  BY <1>1, <1>3, <1>6 DEF SweepInv

LEMMA DecodeKeeps == ASSUME TypeOK, SweepInv, Decode  PROVE SweepInv'
<1> DEFINE d == CellAt(off).ev
<1>1. /\ wpc = "decode" /\ More /\ AtRecord /\ UNCHANGED <<wpc, sweep, fate>>
      /\ batch' = Append(batch, d) /\ off' = off + PackedLen[d]
  BY DEF Decode, Decoding
<1>2. d \in Events /\ off \in 0 .. Len(sweep) - 1 /\ off < Len(sweep) /\ Decodable /\ Accounted
  BY <1>1, MoreMeans DEF AtRecord, SweepInv
<1>3. off' = off + Size(CellAt(off).ev)
  BY <1>1, <1>2, Sizes DEF Size
<1>4. Decodable'
  BY <1>1, <1>2, <1>3, AdvanceKeeps
<1>5. CellAt(off) = Start(d)
  BY <1>1, <1>2, SweepCellType DEF AtRecord, Start
<1>6. \A e \in Events : CellAt(off) = Start(e) <=> e = d
  BY <1>5 DEF Start
<1>7. \A e \in Events : (Left(e) <=> Left(e)' \/ e = d) /\ ~(Left(e)' /\ e = d)
  BY <1>1, <1>2, <1>3, <1>6, LeftAfter
<1> HIDE DEF d
<1>8. /\ Len(batch') = Len(batch) + 1 /\ Len(batch) \in Nat
      /\ batch'[Len(batch) + 1] = d /\ \A k \in 1 .. Len(batch) : batch'[k] = batch[k]
  BY <1>1, <1>2 DEF TypeOK
<1>9. \A k \in 1 .. Len(batch') : k \in 1 .. Len(batch) \/ k = Len(batch) + 1
  BY <1>8
<1>10. \A k \in 1 .. Len(batch) : k \in 1 .. Len(batch')
  BY <1>8
<1>11. ASSUME NEW e \in Events
       PROVE  InBatch(e)' <=> InBatch(e) \/ e = d
  <2>1. InBatch(e) => InBatch(e)'
    BY <1>8, <1>10 DEF InBatch
  <2>2. e = d => InBatch(e)'
    <3>1. Len(batch) + 1 \in 1 .. Len(batch')
      BY <1>8
    <3> QED  BY <1>8, <3>1 DEF InBatch
  <2>3. InBatch(e)' => InBatch(e) \/ e = d
    BY <1>8, <1>9 DEF InBatch
  <2> QED  BY <2>1, <2>2, <2>3
<1>12. ~InBatch(d)
  BY <1>2, <1>7 DEF Accounted
<1>13. \A j, k \in 1 .. Len(batch') : batch'[j] = batch'[k] => j = k
  BY <1>2, <1>8, <1>9, <1>12 DEF Accounted, InBatch
<1>14. \A e \in Events : fate'[e] = "swept" <=> InBatch(e)' \/ Left(e)'
  BY <1>1, <1>2, <1>7, <1>11 DEF Accounted
<1>15. \A e \in Events : ~(InBatch(e)' /\ Left(e)')
  BY <1>2, <1>7, <1>11 DEF Accounted
<1>16. Accounted'
  BY <1>13, <1>14, <1>15 DEF Accounted
<1> QED  BY <1>1, <1>4, <1>16 DEF SweepInv

(* What is emitted or failed is what was in the batch. *)
LEMMA EmittedWere ==
    ASSUME TypeOK, NEW done, EmitBatch(done), NEW e \in Events
    PROVE  /\ InBatch(e) => fate'[e] \in {"emitted", "failed"}
           /\ ~InBatch(e) => fate'[e] = fate[e]
<1>1. \A k \in 1 .. Taken(done) : k \in 1 .. Len(batch)
  BY TakenRange DEF EmitBatch
<1> QED  BY <1>1 DEF EmitBatch, InBatch

LEMMA EmitKeeps == ASSUME TypeOK, SweepInv, NEW done, EmitBatch(done)  PROVE SweepInv'
<1>1. wpc = "decode" /\ batch' = <<>> /\ UNCHANGED <<wpc, sweep, off>> /\ Decodable /\ Accounted
  BY DEF EmitBatch, BatchEnds, SweepInv
<1>2. Decodable'
  BY <1>1 DEF Decodable, InSweep, CellAt, Start, Size
<1>3. \A e \in Events : ~InBatch(e)'
  BY <1>1 DEF InBatch
<1>4. \A e \in Events : Left(e)' <=> Left(e)
  BY <1>1 DEF Left, CellAt, Start
<1>5. \A e \in Events : fate'[e] = "swept" <=> Left(e)
  BY <1>1, EmittedWere DEF Accounted
<1>6. \A j, k \in 1 .. Len(batch') : batch'[j] = batch'[k] => j = k
  BY <1>1
<1>7. Accounted'
  BY <1>3, <1>4, <1>5, <1>6 DEF Accounted
<1> QED  BY <1>1, <1>2, <1>7 DEF SweepInv

(* The worker goes back to waiting with nothing in its hands: where more   *)
(* than a header is left, a pad or a record starts.                        *)
LEMMA NothingLeft ==
    ASSUME TypeOK, SweepInv, EndSweep, NEW e \in Events
    PROVE  fate[e] # "swept"
<1>1. BatchEnds /\ batch = <<>> /\ wpc = "decode" /\ Decodable /\ Accounted
  BY DEF EndSweep, BatchEnds, SweepInv
<1>2. Len(batch) < BatchMax
  <2>1. Len(batch) = 0
    BY <1>1
  <2> QED  BY <2>1, Sizes
<1>3. ~More \/ ~(AtPad \/ AtRecord)
  BY <1>1, <1>2 DEF BatchEnds, Decoding
<1>4. ~InBatch(e)
  BY <1>1 DEF InBatch
<1>5. ASSUME NEW k \in off .. Len(sweep) - 1, CellAt(k) = Start(e)
      PROVE  FALSE
  <2>1. k \in 0 .. Len(sweep) - 1 /\ off \in 0 .. Len(sweep) - 1 /\ off \in Nat /\ off < Len(sweep)
        /\ Len(sweep) \in Nat
    BY DEF TypeOK
  <2>2. InSweep(k) /\ InSweep(off) /\ CellAt(off).i = 0 /\ Len(sweep) <= Cap
    BY <1>1, <2>1 DEF Decodable
  <2>3. k - 0 + Size(e) <= Len(sweep) /\ Size(e) = PackedLen[e]
    BY <1>5, <2>2, Sizes DEF InSweep, Start, Size
  <2>4. More
    BY <2>1, <2>3, Sizes DEF More
  <2> DEFINE c == CellAt(off)
  <2>5. c.ev \in Events \cup {Pad} /\ off - 0 + Size(c.ev) <= Len(sweep)
    <3>1. c \in Cells /\ c.ev # Unwritten
      BY <2>1, <2>2, SweepCellType DEF InSweep
    <3> QED  BY <2>2, <3>1 DEF InSweep, Cells
  <2>6. c.ev = Pad => AtPad
    BY <2>2 DEF AtPad
  <2>7. c.ev \in Events => AtRecord
    <3> HAVE c.ev \in Events
    <3>1. Size(c.ev) = PackedLen[c.ev] /\ PackedLen[c.ev] \in Nat /\ Cap \in Nat
      BY Sizes DEF Size
    <3>2. off + PackedLen[c.ev] <= Cap
      BY <2>1, <2>2, <2>5, <3>1
    <3> QED  BY <2>2, <3>2 DEF AtRecord
  <2> QED  BY <1>3, <2>4, <2>5, <2>6, <2>7
<1> QED  BY <1>1, <1>4, <1>5 DEF Accounted, Left

LEMMA EndSweepKeeps == ASSUME TypeOK, SweepInv, EndSweep  PROVE SweepInv'
<1>1. wpc' = "wait" /\ UNCHANGED fate
  BY DEF EndSweep
<1> QED  BY <1>1, NothingLeft DEF SweepInv

-----------------------------------------------------------------------------
(* The statistics *)

With(f) == {e \in Events : fate[e] = f}
Delivered == {e \in Events : fate[e] # "new"}

StatInv == IsFiniteSet(Delivered) /\ StatsExact

LEMMA StatsAre ==
    StatsExact <=> /\ st_dropped = Cardinality(With("dropped"))
                   /\ st_failed = Cardinality(With("failed"))
                   /\ st_written + st_dropped = Cardinality(Delivered)
BY DEF StatsExact, With, Delivered

LEMMA WithFinite ==
    ASSUME StatInv
    PROVE  /\ IsFiniteSet(With("dropped")) /\ IsFiniteSet(With("failed"))
           /\ Cardinality(Delivered) \in Nat
<1>1. With("dropped") \subseteq Delivered /\ With("failed") \subseteq Delivered
  BY DEF With, Delivered
<1> QED  BY <1>1, FS_Subset, FS_CardinalityType DEF StatInv

(* The same events have been delivered, dropped and failed. *)
LEMMA SameStats ==
    ASSUME StatInv, UNCHANGED stats, UNCHANGED <<Delivered, With("dropped"), With("failed")>>
    PROVE  StatInv'
BY DEF StatInv, StatsExact, With, Delivered, stats

LEMMA DeliverKeepsStats ==
    ASSUME TypeOK, StatInv, NEW e \in Events, DeliverFull(e) \/ DeliverQueued(e)
    PROVE  StatInv'
<1>1. fate[e] = "new" /\ e \notin Delivered /\ e \notin With("dropped")
  BY DEF DeliverFull, DeliverQueued, Delivered, With
<1>2. Delivered' = Delivered \cup {e} /\ With("failed")' = With("failed")
  BY <1>1 DEF DeliverFull, DeliverQueued, Delivered, With, TypeOK
<1>3. IsFiniteSet(Delivered') /\ Cardinality(Delivered') = Cardinality(Delivered) + 1
  BY <1>1, <1>2, FS_AddElement DEF StatInv
<1>4. /\ st_dropped = Cardinality(With("dropped")) /\ st_failed = Cardinality(With("failed"))
      /\ st_written + st_dropped = Cardinality(Delivered)
      /\ st_written \in Nat /\ st_dropped \in Nat
  BY StatsAre DEF StatInv, TypeOK
<1>5. CASE DeliverFull(e)
  <2>1. With("dropped")' = With("dropped") \cup {e}
    BY <1>1, <1>5 DEF DeliverFull, With, TypeOK
  <2>2. Cardinality(With("dropped")') = Cardinality(With("dropped")) + 1
    BY <1>1, <2>1, WithFinite, FS_AddElement
  <2>3. st_dropped' = st_dropped + 1 /\ st_written' = st_written /\ st_failed' = st_failed
    BY <1>5 DEF DeliverFull
  <2>4. /\ st_dropped' = Cardinality(With("dropped")') /\ st_failed' = Cardinality(With("failed")')
        /\ st_written' + st_dropped' = Cardinality(Delivered')
    BY <1>2, <1>3, <1>4, <2>2, <2>3
  <2> QED  BY <1>3, <2>4 DEF StatInv, StatsExact, With, Delivered
<1>6. CASE DeliverQueued(e)
  <2>1. With("dropped")' = With("dropped")
    BY <1>1, <1>6 DEF DeliverQueued, With, TypeOK
  <2>3. st_dropped' = st_dropped /\ st_written' = st_written + 1 /\ st_failed' = st_failed
    BY <1>6 DEF DeliverQueued
  <2>4. /\ st_dropped' = Cardinality(With("dropped")') /\ st_failed' = Cardinality(With("failed")')
        /\ st_written' + st_dropped' = Cardinality(Delivered')
    BY <1>2, <1>3, <1>4, <2>1, <2>3
  <2> QED  BY <1>3, <2>4 DEF StatInv, StatsExact, With, Delivered
<1> QED  BY <1>5, <1>6

LEMMA SweepKeepsStats ==
    ASSUME TypeOK, StatInv, Sweep \/ SweepAndExit
    PROVE  StatInv'
<1>1. UNCHANGED stats /\ fate' = [e \in Events |-> IF e \in Queued THEN "swept" ELSE fate[e]]
  BY DEF Sweep, SweepAndExit
<1>2. UNCHANGED <<Delivered, With("dropped"), With("failed")>>
  BY <1>1 DEF Delivered, With, Queued
<1> QED  BY <1>1, <1>2, SameStats

(* The batch holds every event once: as many fail as were not taken. *)
LEMMA UnsentCount ==
    ASSUME TypeOK, SweepInv, NEW done, EmitBatch(done)
    PROVE  LET U == {batch[k] : k \in Taken(done) + 1 .. Len(batch)}
           IN  /\ IsFiniteSet(U) /\ Cardinality(U) = Unsent(done)
               /\ With("failed")' = With("failed") \cup U
               /\ With("failed") \cap U = {}
<1> DEFINE T == Taken(done)
<1> DEFINE K == T + 1 .. Len(batch)
<1> DEFINE U == {batch[k] : k \in K}
<1>1. T \in 0 .. Len(batch) /\ T \in Nat /\ Unsent(done) = Len(batch) - T /\ Len(batch) \in Nat
  BY TakenRange DEF EmitBatch
<1>2. Accounted /\ \A k \in 1 .. Len(batch) : batch[k] \in Events
  BY DEF EmitBatch, BatchEnds, SweepInv, TypeOK
<1>3. fate' = [e \in Events |->
                  IF \E k \in 1 .. T : batch[k] = e THEN "emitted"
                  ELSE IF \E k \in 1 .. Len(batch) : batch[k] = e THEN "failed" ELSE fate[e]]
  BY DEF EmitBatch
<1> HIDE DEF T
<1>4. \A k \in K : k \in 1 .. Len(batch) /\ k \notin 1 .. T
  BY <1>1
<1>5. \A k \in 1 .. Len(batch) : k \in 1 .. T \/ k \in K
  BY <1>1
<1>6. \A k \in 1 .. T : k \in 1 .. Len(batch)
  BY <1>1
<1>7. IsFiniteSet(K) /\ Cardinality(K) = Len(batch) - T
  <2>1. IsFiniteSet(K) /\ Cardinality(K) = IF T + 1 > Len(batch) THEN 0 ELSE Len(batch) - (T + 1) + 1
    <3>1. T + 1 \in Int /\ Len(batch) \in Int
      BY <1>1
    <3> QED  BY <3>1, FS_Interval
  <2> QED  BY <1>1, <2>1
<1> HIDE DEF K
<1> DEFINE f == [k \in K |-> batch[k]]
<1>8. f \in Bijection(K, U)
  <2>1. f \in Surjection(K, U)
    BY DEF Surjection
  <2>2. \A j, k \in K : f[j] = f[k] => j = k
    BY <1>2, <1>4 DEF Accounted
  <2>4. f \in [K -> U]
    OBVIOUS
  <2> HIDE DEF f
  <2>3. f \in Injection(K, U)
    BY <2>2, <2>4 DEF Injection, IsInjective
  <2> QED  BY <2>1, <2>3 DEF Bijection
<1>9. IsFiniteSet(U) /\ Cardinality(U) = Unsent(done)
  BY <1>1, <1>7, <1>8, FS_Bijection DEF ExistsBijection
<1>10. \A e \in Events : e \in U => fate[e] = "swept"
  BY <1>2, <1>4 DEF Accounted, InBatch
<1>11. \A e \in Events : fate'[e] = "failed" <=> fate[e] = "failed" \/ e \in U
  <2> TAKE e \in Events
  <2>1. CASE \E k \in 1 .. T : batch[k] = e
    <3> PICK k \in 1 .. T : batch[k] = e
      BY <2>1
    <3>1. fate[e] = "swept"
      BY <1>2, <1>6 DEF Accounted, InBatch
    <3>2. e \notin U
      BY <1>2, <1>4, <1>6 DEF Accounted
    <3> QED  BY <1>3, <2>1, <3>1, <3>2
  <2>2. CASE /\ ~\E k \in 1 .. T : batch[k] = e
             /\ \E k \in 1 .. Len(batch) : batch[k] = e
    BY <1>3, <1>5, <2>2
  <2>3. CASE ~\E k \in 1 .. Len(batch) : batch[k] = e
    BY <1>3, <1>4, <1>6, <2>3
  <2> QED  BY <2>1, <2>2, <2>3
<1>12. U \subseteq Events
  BY <1>2, <1>4
<1>13. With("failed")' = With("failed") \cup U /\ With("failed") \cap U = {}
  BY <1>10, <1>11, <1>12 DEF With
<1> QED  BY <1>9, <1>13 DEF K, T

LEMMA EmitKeepsStats ==
    ASSUME TypeOK, SweepInv, StatInv, NEW done, EmitBatch(done)
    PROVE  StatInv'
<1> DEFINE U == {batch[k] : k \in Taken(done) + 1 .. Len(batch)}
<1>1. /\ IsFiniteSet(U) /\ Cardinality(U) = Unsent(done)
      /\ With("failed")' = With("failed") \cup U /\ With("failed") \cap U = {}
  BY UnsentCount
<1> HIDE DEF U
<1>2. IsFiniteSet(With("failed")) /\ Cardinality({}) = 0 /\ Cardinality(With("failed")) \in Nat
      /\ Cardinality(U) \in Nat
  BY <1>1, WithFinite, FS_EmptySet, FS_CardinalityType
<1>3. Cardinality(With("failed")') = Cardinality(With("failed")) + Unsent(done)
  <2>1. Cardinality(With("failed") \cup U)
            = Cardinality(With("failed")) + Cardinality(U) - Cardinality(With("failed") \cap U)
    BY <1>1, <1>2, FS_Union
  <2>2. Cardinality(With("failed") \cup U) = Cardinality(With("failed")) + Cardinality(U)
    <3>1. Cardinality(With("failed") \cap U) = 0
      BY <1>1, <1>2
    <3> QED  BY <1>2, <2>1, <3>1
  <2> QED  BY <1>1, <2>2
<1>4. Accounted
  BY DEF EmitBatch, BatchEnds, SweepInv
<1>5. \A e \in Events : InBatch(e) => fate[e] = "swept"
  BY <1>4 DEF Accounted
<1>6. Delivered' = Delivered /\ With("dropped")' = With("dropped")
  BY <1>5, EmittedWere DEF Delivered, With
<1>7. st_failed' = st_failed + Unsent(done) /\ st_written' = st_written /\ st_dropped' = st_dropped
  BY DEF EmitBatch
<1>8. /\ st_dropped' = Cardinality(With("dropped")') /\ st_failed' = Cardinality(With("failed")')
      /\ st_written' + st_dropped' = Cardinality(Delivered') /\ IsFiniteSet(Delivered')
  BY <1>3, <1>6, <1>7, StatsAre DEF StatInv
<1> QED  BY <1>8 DEF StatInv, StatsExact, With, Delivered

-----------------------------------------------------------------------------
(* The invariant of the queue *)

QInv == TypeOK /\ RingInv /\ SweepInv /\ StatInv

LEMMA QInit == Init => QInv
<1> SUFFICES ASSUME Init  PROVE QInv
  OBVIOUS
<1>1. head = 0 /\ tail = 0 /\ wpc = "wait" /\ \A e \in Events : fate[e] = "new"
  BY DEF Init
<1>2. head .. tail - 1 = {} /\ head <= tail /\ tail - head <= Cap
  BY <1>1, Sizes
<1>3. RingInv
  BY <1>1, <1>2 DEF RingInv, Ring, Holds, Queued
<1>4. SweepInv
  BY <1>1 DEF SweepInv
<1>5. Delivered = {} /\ With("dropped") = {} /\ With("failed") = {}
  BY <1>1 DEF Delivered, With
<1>6. st_written = 0 /\ st_dropped = 0 /\ st_failed = 0
  BY DEF Init
<1>7. StatInv
  BY <1>5, <1>6, StatsAre, FS_EmptySet DEF StatInv
<1> QED  BY <1>3, <1>4, <1>7, TypeInit DEF QInv

LEMMA QNext == QInv /\ [Next]_vars => QInv'
<1> SUFFICES ASSUME QInv, [Next]_vars  PROVE QInv'
  OBVIOUS
<1>0. TypeOK /\ RingInv /\ SweepInv /\ StatInv /\ head <= tail
  BY DEF QInv, RingInv, Ring
<1>1. ASSUME NEW e \in Events, DeliverFull(e) \/ DeliverQueued(e)
      PROVE  QInv'
  <2>1. UNCHANGED worker /\ \A x \in Events : fate'[x] = "swept" <=> fate[x] = "swept"
    BY <1>0, <1>1 DEF DeliverFull, DeliverQueued, TypeOK
  <2> QED  BY <1>0, <1>1, <2>1, DeliverTypes, DeliverKeepsRing, OthersKeepSweep, DeliverKeepsStats DEF QInv
<1>2. CASE Sweep
  BY <1>0, <1>2, SweepTypes, SweepKeepsRing, SweepKeepsSweep, SweepKeepsStats DEF QInv
<1>3. CASE SweepAndExit
  BY <1>0, <1>3, SweepTypes, SweepKeepsRing, ExitKeepsSweep, SweepKeepsStats DEF QInv
<1>4. CASE SkipPad \/ Decode \/ EndSweep
  <2>1. UNCHANGED queue /\ UNCHANGED stats /\ UNCHANGED fate
    BY <1>4 DEF SkipPad, Decode, EndSweep
  <2>2. UNCHANGED <<Queued, Delivered, With("dropped"), With("failed")>>
    BY <2>1 DEF Queued, Delivered, With
  <2>3. RingInv' /\ StatInv'
    BY <1>0, <2>1, <2>2, OthersKeepRing, SameStats
  <2> QED  BY <1>0, <1>4, <2>3, DecodeTypes, SkipPadKeeps, DecodeKeeps, EndSweepKeeps DEF QInv
<1>5. ASSUME NEW done, EmitBatch(done)
      PROVE  QInv'
  <2>1. UNCHANGED queue
    BY <1>5 DEF EmitBatch
  <2>2. Queued' = Queued
    <3>1. \A e \in Events : InBatch(e) => fate[e] = "swept"
      BY <1>0, <1>5 DEF EmitBatch, BatchEnds, SweepInv, Accounted
    <3> QED  BY <1>0, <1>5, <3>1, EmittedWere DEF Queued
  <2> QED  BY <1>0, <1>5, <2>1, <2>2, EmitTypes, OthersKeepRing, EmitKeeps, EmitKeepsStats DEF QInv
<1>6. CASE CloseBegin \/ CloseStep \/ Tick
  <2>1. UNCHANGED queue /\ UNCHANGED worker /\ UNCHANGED stats /\ UNCHANGED fate
    BY <1>6 DEF CloseBegin, CloseStep, DrainEnds, Join, Tick
  <2>2. UNCHANGED <<Queued, Delivered, With("dropped"), With("failed")>>
    BY <2>1 DEF Queued, Delivered, With
  <2> QED  BY <1>0, <1>6, <2>1, <2>2, CloseTypes, OthersKeepRing, OthersKeepSweep, SameStats DEF QInv
<1>7. CASE UNCHANGED vars
  <2>1. /\ UNCHANGED queue /\ UNCHANGED worker /\ UNCHANGED stats /\ UNCHANGED fate
        /\ UNCHANGED <<stop, closing, clock>>
    BY <1>7 DEF vars
  <2>2. UNCHANGED <<Queued, Delivered, With("dropped"), With("failed")>>
    BY <2>1 DEF Queued, Delivered, With
  <2>3. TypeOK'
    BY <1>0, <2>1 DEF TypeOK, queue, worker, stats, clock
  <2> QED  BY <1>0, <2>1, <2>2, <2>3, OthersKeepRing, OthersKeepSweep, SameStats DEF QInv
<1> QED  BY <1>1, <1>2, <1>3, <1>4, <1>5, <1>6, <1>7 DEF Next, WorkerStep

LEMMA QAlways == Spec => []QInv
BY QInit, QNext, PTL DEF Spec, SafetySpec

(* Whatever lies between the cursors of the ring, across any number of     *)
(* wraps and whatever was discarded before, is a stream the worker can     *)
(* decode.                                                                 *)
THEOREM QueueIsSound == Spec => []StreamSound
<1>1. QInv => StreamSound
  BY RingIsStream DEF QInv, StreamSound
<1> QED  BY <1>1, QAlways, PTL

(* No event the queue accepted is lost between the ring, the sweep and the *)
(* batch.                                                                  *)
THEOREM QueueLosesNothing == Spec => []NoEventVanishes
<1>1. ASSUME QInv  PROVE NoEventVanishes
  <2> SUFFICES ASSUME NEW e \in Events
               PROVE  /\ fate[e] = "queued" <=> \E p \in head .. tail - 1 : buf[p % Cap] = [ev |-> e, i |-> 0]
                      /\ fate[e] = "swept" /\ wpc = "decode" =>
                            \/ \E k \in 1 .. Len(batch) : batch[k] = e
                            \/ \E k \in off .. Len(sweep) - 1 : CellAt(k) = [ev |-> e, i |-> 0]
                      /\ fate[e] = "swept" => wpc # "wait"
    BY DEF NoEventVanishes
  <2>1. fate[e] = "queued" <=> \E p \in head .. tail - 1 : buf[p % Cap] = [ev |-> e, i |-> 0]
    BY <1>1 DEF QInv, RingInv, Holds, Queued, Cell, Start
  <2>2. fate[e] = "swept" /\ wpc = "decode" =>
           \/ \E k \in 1 .. Len(batch) : batch[k] = e
           \/ \E k \in off .. Len(sweep) - 1 : CellAt(k) = [ev |-> e, i |-> 0]
    BY <1>1 DEF QInv, SweepInv, Accounted, InBatch, Left, Start
  <2> QED  BY <1>1, <2>1, <2>2 DEF QInv, SweepInv
<1> QED  BY <1>1, QAlways, PTL

(* The statistics of the sink count every event delivered to it exactly    *)
(* once as handed over or dropped, and every one it failed once.           *)
THEOREM QueueCountsExactly == Spec => []StatsExact
<1>1. QInv => StatsExact
  BY DEF QInv, StatInv
<1> QED  BY <1>1, QAlways, PTL
=============================================================================
