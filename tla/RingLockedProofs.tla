-------------------------- MODULE RingLockedProofs --------------------------
(* The safety of the locked ring for any number of threads, any records    *)
(* and any capacity that ringbuf.h allows.                                 *)
EXTENDS RingLocked, FiniteSetTheorems, SequenceTheorems, TLAPS

-----------------------------------------------------------------------------
(* Where monotonic cursors fall in a ring of C cells *)

(* An offset is a valid index. *)
LEMMA ModRange ==
    ASSUME NEW C \in Nat \ {0}, NEW a \in Nat
    PROVE  a % C \in 0 .. C - 1
  OBVIOUS

(* A cursor is so many full laps plus its offset. *)
LEMMA DivMod ==
    ASSUME NEW C \in Nat \ {0}, NEW a \in Nat
    PROVE  a \div C \in Nat /\ a = C * (a \div C) + (a % C)
  OBVIOUS

(* Cursors on different laps are at least a lap apart at lap starts. *)
LEMMA MulGap ==
    ASSUME NEW C \in Nat \ {0}, NEW q \in Int, NEW k \in Int, q < k
    PROVE  C * q + C <= C * k
  OBVIOUS

(* Laps and offset are unique. *)
LEMMA DivModUnique ==
    ASSUME NEW C \in Nat \ {0}, NEW q \in Int, NEW k \in Int,
           NEW r \in 0 .. C - 1, NEW s \in 0 .. C - 1, C * q + r = C * k + s
    PROVE  q = k /\ r = s
  <1>1. ~(q < k)
    BY MulGap
  <1>2. ~(k < q)
    BY MulGap
  <1>3. q = k
    BY <1>1, <1>2
  <1> QED
    BY <1>3

(* The offset of a cursor given as laps plus offset. *)
LEMMA ModOf ==
    ASSUME NEW C \in Nat \ {0}, NEW b \in Nat, NEW k \in Nat,
           NEW r \in 0 .. C - 1, b = C * k + r
    PROVE  b % C = r
  <1>1. b = C * (b \div C) + (b % C) /\ b \div C \in Nat
    BY DivMod
  <1>2. b % C \in 0 .. C - 1
    BY ModRange
  <1>3. C * k + r = C * (b \div C) + (b % C)
    BY <1>1
  <1>4. \A q \in Int : \A s \in 0 .. C - 1 : C * k + r = C * q + s => r = s
    BY DivModUnique
  <1> QED
    BY <1>1, <1>2, <1>3, <1>4

(* Advancing within a lap advances the offset. *)
LEMMA ModAdd ==
    ASSUME NEW C \in Nat \ {0}, NEW a \in Nat, NEW i \in Nat, (a % C) + i < C
    PROVE  (a + i) % C = (a % C) + i
  <1>1. a = C * (a \div C) + (a % C) /\ a \div C \in Nat
    BY DivMod
  <1>2. (a % C) + i \in 0 .. C - 1 /\ a % C \in 0 .. C - 1
    BY ModRange
  <1>3. a + i \in Nat
    OBVIOUS
  <1>4. C * (a \div C) \in Nat
    BY <1>1
  <1>5. a + i = C * (a \div C) + ((a % C) + i)
    BY <1>1, <1>2, <1>4
  <1> QED
    BY <1>1, <1>2, <1>3, <1>5, ModOf

(* Advancing exactly to the end of a lap returns to offset zero. *)
LEMMA ModWrap ==
    ASSUME NEW C \in Nat \ {0}, NEW a \in Nat, NEW i \in Nat, (a % C) + i = C
    PROVE  (a + i) % C = 0
  <1>1. a = C * (a \div C) + (a % C) /\ a \div C \in Nat
    BY DivMod
  <1>2. a % C \in 0 .. C - 1
    BY ModRange
  <1>3. a + i \in Nat /\ 0 \in 0 .. C - 1
    OBVIOUS
  <1>4. C * (a \div C) \in Nat
    BY <1>1
  <1>5. a + i = C * (a \div C) + C
    BY <1>1, <1>2, <1>4
  <1>6. C * ((a \div C) + 1) = C * (a \div C) + C
    BY <1>1
  <1>7. a + i = C * ((a \div C) + 1) + 0 /\ (a \div C) + 1 \in Nat
    BY <1>1, <1>5, <1>6
  <1> QED
    BY <1>3, <1>7, ModOf, Zenon

(* A whole lap later the offset is the same. *)
LEMMA ModLap ==
    ASSUME NEW C \in Nat \ {0}, NEW a \in Nat
    PROVE  (a + C) % C = a % C
  <1>1. a = C * (a \div C) + (a % C) /\ a \div C \in Nat
    BY DivMod
  <1>2. a % C \in 0 .. C - 1 /\ a + C \in Nat /\ (a \div C) + 1 \in Nat
    BY <1>1, ModRange
  <1>3. C * ((a \div C) + 1) = C * (a \div C) + C /\ C * (a \div C) \in Nat
    BY <1>1
  <1>4. a + C = C * ((a \div C) + 1) + (a % C)
    BY <1>1, <1>2, <1>3
  <1> QED
    BY <1>2, <1>4, ModOf, Zenon

(* Cursors less than a lap apart have different offsets. *)
LEMMA ModDistinct ==
    ASSUME NEW C \in Nat \ {0}, NEW a \in Nat, NEW b \in Nat, a < b, b < a + C
    PROVE  a % C # b % C
  <1>1. a = C * (a \div C) + (a % C) /\ a \div C \in Nat
    BY DivMod
  <1>2. b = C * (b \div C) + (b % C) /\ b \div C \in Nat
    BY DivMod
  <1>3. a % C \in 0 .. C - 1 /\ b % C \in 0 .. C - 1
    BY ModRange
  <1>4. SUFFICES ASSUME a % C = b % C
                 PROVE  FALSE
    OBVIOUS
  <1>5. C * (a \div C) \in Nat /\ C * (b \div C) \in Nat
    BY <1>1, <1>2
  <1>6. C * (a \div C) < C * (b \div C) /\ C * (b \div C) < C * (a \div C) + C
    BY <1>1, <1>2, <1>3, <1>4, <1>5
  <1>7. ~(a \div C < b \div C)
    BY <1>1, <1>2, <1>5, <1>6, MulGap
  <1>8. ~(b \div C < a \div C)
    BY <1>1, <1>2, <1>5, <1>6, MulGap
  <1>9. a \div C = b \div C
    BY <1>1, <1>2, <1>7, <1>8
  <1> QED
    BY <1>5, <1>6, <1>9

-----------------------------------------------------------------------------
(* The only facts about offsets the proofs use; Off stays folded in them.  *)
LEMMA OffFacts ==
    /\ Capacity \in Nat \ {0}
    /\ \A a \in Nat : Off(a) \in Offsets
    /\ \A a, i \in Nat : Off(a) + i < Capacity => Off(a + i) = Off(a) + i
    /\ \A a, i \in Nat : Off(a) + i = Capacity => Off(a + i) = 0
    /\ \A a, b \in Nat : a < b /\ b < a + Capacity => Off(a) # Off(b)
  <1>1. Capacity \in Nat \ {0}
    BY SizeAssumption
  <1>2. \A a \in Nat : Off(a) \in Offsets
    BY <1>1, ModRange DEF Off, Offsets
  <1>3. ASSUME NEW a \in Nat, NEW i \in Nat, Off(a) + i < Capacity
        PROVE  Off(a + i) = Off(a) + i
    BY <1>1, <1>3, ModAdd DEF Off
  <1>4. ASSUME NEW a \in Nat, NEW i \in Nat, Off(a) + i = Capacity
        PROVE  Off(a + i) = 0
    BY <1>1, <1>4, ModWrap DEF Off
  <1>5. ASSUME NEW a \in Nat, NEW b \in Nat, a < b, b < a + Capacity
        PROVE  Off(a) # Off(b)
    BY <1>1, <1>5, ModDistinct DEF Off
  <1> QED
    BY <1>1, <1>2, <1>3, <1>4, <1>5

(* A position a whole lap later has the same offset. *)
LEMMA OffLap == \A a \in Nat : Off(a + Capacity) = Off(a)
  <1> SUFFICES ASSUME NEW a \in Nat
               PROVE  Off(a + Capacity) = Off(a)
    OBVIOUS
  <1>1. Capacity \in Nat \ {0}
    BY OffFacts
  <1> QED
    BY <1>1, ModLap DEF Off

(* Cursors and the contiguous space are numbers. *)
LEMMA CursorFacts ==
    ASSUME TypeOK
    PROVE  /\ head \in Nat /\ tail \in Nat /\ Capacity \in Nat
           /\ contig \in 1 .. Capacity
           /\ MinPad \in Nat \ {0}
  <1>1. Off(tail) \in 0 .. Capacity - 1 /\ Capacity \in Nat \ {0}
    BY OffFacts DEF TypeOK, Offsets
  <1> QED
    BY <1>1, SizeAssumption DEF TypeOK, contig

RingShape ==
    RingChain /\ PadFits /\ LiveHeaders /\ WrittenBefore /\ RecordsIntact

(* Storing n words at the tail leaves every word between the cursors as it *)
(* was, and is found again at the tail.                                    *)
LEMMA StoreFrame ==
    ASSUME TypeOK, head <= tail,
           NEW n \in Nat \ {0}, NEW image \in Headers,
           n <= contig, tail + n <= head + Capacity,
           buf' = Store(Off(tail), n, image)
    PROVE  /\ buf' \in [Offsets -> Headers]
           /\ \A x \in head .. tail - 1 : buf'[Off(x)] = buf[Off(x)]
           /\ \A i \in 0 .. n - 1 : /\ Off(tail) + i \in Offsets
                                    /\ Off(tail + i) = Off(tail) + i
                                    /\ buf'[Off(tail) + i] = image
           /\ \A o \in Offsets : buf'[o] = buf[o] \/ buf'[o] = image
  <1> USE OffFacts
  <1>1. head \in Nat /\ tail \in Nat /\ buf \in [Offsets -> Headers]
    BY DEF TypeOK
  <1>2. Off(tail) \in Nat /\ Off(tail) + n <= Capacity
    BY <1>1 DEF contig, Offsets
  <1>3. \A i \in 0 .. n - 1 : Off(tail) + i \in Offsets /\ Off(tail + i) = Off(tail) + i
    <2> TAKE i \in 0 .. n - 1
    <2>1. i \in Nat /\ Off(tail) + i < Capacity
      BY <1>2
    <2>2. Off(tail + i) = Off(tail) + i
      BY <1>1, <2>1
    <2> QED
      BY <1>2, <2>1, <2>2 DEF Offsets
  <1>4. \A i \in 0 .. n - 1 : buf'[Off(tail) + i] = image
    BY <1>2, <1>3 DEF Store
  <1>5. ASSUME NEW x \in head .. tail - 1
        PROVE  buf'[Off(x)] = buf[Off(x)]
    <2>1. x \in Nat /\ Off(x) \in Offsets /\ Off(x) \in Nat
      BY SMTT(30), <1>1 DEF Offsets
    <2>2. SUFFICES ASSUME Off(tail) <= Off(x), Off(x) < Off(tail) + n
                   PROVE  FALSE
      BY <2>1 DEF Store
    <2> DEFINE i == Off(x) - Off(tail)
    <2>3. i \in 0 .. n - 1
      BY <1>2, <2>1, <2>2
    <2>4. Off(tail + i) = Off(x)
      BY <1>2, <1>3, <2>1, <2>3
    <2>5. x < tail + i /\ tail + i < x + Capacity /\ tail + i \in Nat
      BY <1>1, <2>3
    <2> QED
      BY <2>1, <2>4, <2>5
  <1>6. buf' \in [Offsets -> Headers] /\ \A o \in Offsets : buf'[o] = buf[o] \/ buf'[o] = image
    BY <1>1 DEF Store
  <1> QED
    BY <1>3, <1>4, <1>5, <1>6

(* Appending a header image at the tail adds exactly one live position. *)
LEMMA AppendLive ==
    ASSUME TypeOK, RingShape,
           NEW n \in Nat \ {0}, NEW image \in Headers,
           image.pos = tail, n <= image.total_len, image.total_len <= contig,
           tail + image.total_len <= head + Capacity,
           buf' = Store(Off(tail), n, image),
           tail' = tail + image.total_len, head' = head
    PROVE  /\ Live' = Live \cup {tail}
           /\ tail \notin Live
           /\ \A p \in {tail} : HeaderAt(p)' = image
           /\ \A p \in Live : HeaderAt(p)' = HeaderAt(p)
           /\ \A p \in Live : \A i \in 0 .. HeaderAt(p).total_len - 1 :
                 buf'[Off(p) + i] = buf[Off(p) + i]
           /\ \A i \in 0 .. n - 1 : buf'[Off(tail) + i] = image
           /\ WrittenBefore'
  <1> USE OffFacts
  <1> DEFINE L == image.total_len
  <1>1. head \in Nat /\ tail \in Nat /\ buf \in [Offsets -> Headers] /\ head <= tail
    BY DEF TypeOK, RingShape, RingChain
  <1>2. L \in Nat /\ L # 0 /\ contig \in Nat
    <2>1. L \in Nat
      BY DEF Headers
    <2>2. Off(tail) \in 0 .. Capacity - 1
      BY <1>1 DEF Offsets
    <2> QED
      BY <2>1, <2>2 DEF contig
  <1>3. n <= contig /\ tail + n <= head + Capacity
    BY <1>1, <1>2
  <1>4. /\ buf' \in [Offsets -> Headers]
        /\ \A x \in head .. tail - 1 : buf'[Off(x)] = buf[Off(x)]
        /\ \A i \in 0 .. n - 1 : /\ Off(tail) + i \in Offsets
                                 /\ Off(tail + i) = Off(tail) + i
                                 /\ buf'[Off(tail) + i] = image
        /\ \A o \in Offsets : buf'[o] = buf[o] \/ buf'[o] = image
    BY <1>1, <1>3, StoreFrame
  <1>5. \A x \in head .. tail - 1 : HeaderAt(x)' = HeaderAt(x)
    BY <1>4 DEF HeaderAt
  <1>6. buf'[Off(tail)] = image
    <2>1. 0 \in 0 .. n - 1 /\ Off(tail) + 0 = Off(tail)
      BY <1>1 DEF Offsets
    <2> QED
      BY <1>4, <2>1
  <1>7. \A x \in tail + 1 .. tail + L - 1 : buf'[Off(x)].pos # x \/ buf'[Off(x)].total_len = 0
    <2> SUFFICES ASSUME NEW x \in tail + 1 .. tail + L - 1
                 PROVE  buf'[Off(x)].pos # x \/ buf'[Off(x)].total_len = 0
      OBVIOUS
    <2>1. x \in Nat /\ x > tail /\ Off(x) \in Offsets
      BY <1>1, <1>2
    <2>2. CASE buf'[Off(x)] = image
      BY <1>1, <2>1, <2>2
    <2>3. CASE buf'[Off(x)] = buf[Off(x)]
      BY <1>1, <2>1, <2>3 DEF RingShape, WrittenBefore, Headers
    <2> QED
      BY <1>4, <2>1, <2>2, <2>3
  <1>8. Live' = Live \cup {tail} /\ tail \notin Live
    <2>1. Live' = {x \in head .. tail + L - 1 : buf'[Off(x)].pos = x /\ buf'[Off(x)].total_len # 0}
      <3>1. head' .. tail' - 1 = head .. tail + L - 1
        BY <1>1, <1>2
      <3>2. Live' = {x \in head' .. tail' - 1 : buf'[Off(x)].pos = x /\ buf'[Off(x)].total_len # 0}
        BY DEF Live, HeaderAt
      <3> QED
        BY <3>1, <3>2, Zenon
    <2>2. head .. tail + L - 1 = (head .. tail - 1) \cup {tail} \cup (tail + 1 .. tail + L - 1)
      BY <1>1, <1>2
    <2>4. Live = {x \in head .. tail - 1 : buf[Off(x)].pos = x /\ buf[Off(x)].total_len # 0}
      BY DEF Live, HeaderAt
    <2> QED
      BY <1>1, <1>2, <1>4, <1>7, <1>6, <2>1, <2>2, <2>4
  <1>9. ASSUME NEW p \in Live, NEW i \in 0 .. HeaderAt(p).total_len - 1
        PROVE  buf'[Off(p) + i] = buf[Off(p) + i]
    <2>1. p \in head .. tail - 1 /\ p \in Nat /\ HeaderAt(p) \in Headers
      <3>1. p \in head .. tail - 1
        BY DEF Live
      <3>2. p \in Nat /\ Off(p) \in Offsets
        BY <1>1, <3>1
      <3> QED
        BY <1>1, <3>1, <3>2 DEF HeaderAt
    <2>2. HeaderAt(p).total_len \in Nat /\ i \in Nat
      BY <2>1 DEF Headers
    <2>3. /\ EndOf(p) <= tail
          /\ Off(p) + HeaderAt(p).total_len <= Capacity
      BY <1>1, <2>1 DEF RingShape, RingChain, Live
    <2>4. p + i \in head .. tail - 1 /\ p + i \in Nat
      BY <1>1, <2>1, <2>2, <2>3 DEF EndOf
    <2>5. Off(p) + i < Capacity /\ Off(p) \in Nat
      BY <2>1, <2>2, <2>3 DEF Offsets
    <2>6. Off(p + i) = Off(p) + i
      BY <2>1, <2>2, <2>5
    <2> QED
      BY <1>4, <2>4, <2>6
  <1>10. WrittenBefore'
    <2> SUFFICES ASSUME NEW o \in Offsets, buf'[o].total_len # 0
                 PROVE  buf'[o].pos < tail'
      BY DEF WrittenBefore
    <2>1. CASE buf'[o] = image
      BY <1>1, <1>2, <2>1
    <2>2. CASE buf'[o] = buf[o]
      <3>1. buf[o].pos < tail /\ buf[o].pos \in Nat
        BY <1>1, <2>2 DEF RingShape, WrittenBefore, Headers
      <3> QED
        BY <1>1, <1>2, <2>2, <3>1
    <2> QED
      BY <1>4, <2>1, <2>2
  <1>11. \A p \in Live : HeaderAt(p)' = HeaderAt(p)
    BY <1>5 DEF Live
  <1>12. \A p \in {tail} : HeaderAt(p)' = image
    BY <1>6 DEF HeaderAt
  <1> QED
    BY <1>4, <1>8, <1>9, <1>10, <1>11, <1>12

(* Memory stays memory. *)
LEMMA StoreType ==
    ASSUME TypeOK, NEW off, NEW n, NEW image \in Headers, buf' = Store(off, n, image)
    PROVE  buf' \in [Offsets -> Headers]
  BY DEF TypeOK, Store

(* What is known of a live position. *)
LEMMA LiveFacts ==
    ASSUME TypeOK, RingShape, NEW p \in Live
    PROVE  /\ p \in Nat /\ head <= p /\ p < tail
           /\ HeaderAt(p) \in Headers
           /\ HeaderAt(p).total_len \in Nat \ {0}
           /\ EndOf(p) \in Nat /\ p < EndOf(p) /\ EndOf(p) <= tail
           /\ EndOf(p) = tail \/ EndOf(p) \in Live
           /\ \A q \in Live : p < q => EndOf(p) <= q
  <1> USE OffFacts
  <1>1. p \in head .. tail - 1 /\ head \in Nat /\ tail \in Nat /\ HeaderAt(p).total_len # 0
    BY DEF Live, TypeOK
  <1>2. p \in Nat /\ Off(p) \in Offsets
    BY <1>1
  <1>3. HeaderAt(p) \in Headers
    BY <1>2 DEF HeaderAt, TypeOK
  <1>4. HeaderAt(p).total_len \in Nat \ {0}
    BY <1>1, <1>3 DEF Headers
  <1>5. EndOf(p) \in Nat /\ p < EndOf(p)
    BY <1>2, <1>4 DEF EndOf
  <1>6. /\ EndOf(p) = tail \/ EndOf(p) \in Live
        /\ \A q \in Live : p < q => EndOf(p) <= q
    BY DEF RingShape, RingChain
  <1>7. EndOf(p) <= tail
    BY <1>1, <1>5, <1>6 DEF Live
  <1> QED
    BY <1>1, <1>2, <1>3, <1>4, <1>5, <1>6, <1>7

(* Appending keeps the ring well formed. *)
LEMMA AppendShape ==
    ASSUME TypeOK, RingShape,
           NEW n \in Nat \ {0}, NEW image \in Headers,
           image.pos = tail, n <= image.total_len,
           MinPad <= image.total_len,
           image.total_len = contig \/ image.total_len + MinPad <= contig,
           tail + image.total_len <= head + Capacity,
           ~image.pad => image.msg \in Msgs /\ n = RecordLen[image.msg],
           buf' = Store(Off(tail), n, image),
           tail' = tail + image.total_len, head' = head
    PROVE  RingShape'
  <1> DEFINE L == image.total_len
  <1>0. L \in Nat /\ contig \in 1 .. Capacity /\ MinPad \in Nat \ {0} /\ L <= contig
    <2>1. L \in Nat
      BY DEF Headers
    <2> QED
      BY <2>1, CursorFacts
  <1>1. /\ Live' = Live \cup {tail}
        /\ tail \notin Live
        /\ \A p \in {tail} : HeaderAt(p)' = image
        /\ \A p \in Live : HeaderAt(p)' = HeaderAt(p)
        /\ \A p \in Live : \A i \in 0 .. HeaderAt(p).total_len - 1 :
              buf'[Off(p) + i] = buf[Off(p) + i]
        /\ \A i \in 0 .. n - 1 : buf'[Off(tail) + i] = image
        /\ WrittenBefore'
    BY <1>0, AppendLive
  <1>2. head \in Nat /\ tail \in Nat /\ L \in Nat \ {0} /\ Off(tail) \in 0 .. Capacity - 1
        /\ Capacity \in Nat
    <2>1. head \in Nat /\ tail \in Nat /\ L \in Nat
      BY DEF TypeOK, Headers
    <2> QED
      BY <2>1, OffFacts DEF Offsets
  <1>3. \A p \in Live : EndOf(p)' = EndOf(p)
    BY <1>1 DEF EndOf
  <1>4. \A p \in {tail} : EndOf(p)' = tail'
    BY <1>1 DEF EndOf
  <1>5. RingChain'
    <2>1. head' <= tail' /\ tail' <= head' + Capacity
      BY <1>2 DEF RingShape, RingChain
    <2>2. head' \in Live'
      BY <1>1 DEF RingShape, RingChain
    <2>3. ASSUME NEW p \in Live'
          PROVE  /\ EndOf(p)' = tail' \/ EndOf(p)' \in Live'
                 /\ Off(p) + HeaderAt(p)'.total_len <= Capacity
                 /\ \A q \in Live' : p < q => EndOf(p)' <= q
      <3>1. CASE p = tail
        <4>1. \A q \in Live' : ~(p < q)
          BY <1>1, <1>2, <3>1 DEF Live
        <4>2. Off(p) + HeaderAt(p)'.total_len <= Capacity
          BY <1>0, <1>1, <1>2, <3>1 DEF contig
        <4> QED
          BY <1>4, <3>1, <4>1, <4>2
      <3>2. CASE p \in Live
        <4>1. /\ EndOf(p) = tail \/ EndOf(p) \in Live
              /\ \A q \in Live : p < q => EndOf(p) <= q
              /\ EndOf(p) <= tail
          BY <3>2, LiveFacts
        <4>2. Off(p) + HeaderAt(p).total_len <= Capacity
          BY <3>2 DEF RingShape, RingChain
        <4> QED
          BY <1>1, <1>3, <3>2, <4>1, <4>2
      <3> QED
        BY <1>1, <3>1, <3>2
    <2> QED
      BY <2>1, <2>2, <2>3 DEF RingChain
  <1>6. LiveHeaders'
    BY <1>1 DEF LiveHeaders, RingShape
  <1>8. PadFits'
    <2>1. CASE L = contig
      <3>1. Off(tail + L) = 0
        BY <1>2, <2>1, OffFacts DEF contig
      <3> QED
        BY <3>1, SizeAssumption DEF PadFits, contig
    <2>2. CASE L + MinPad <= contig
      <3>1. Off(tail + L) = Off(tail) + L
        BY <1>0, <1>2, <2>2, OffFacts DEF contig
      <3> QED
        BY <1>0, <1>2, <2>2, <3>1 DEF PadFits, contig
    <2> QED
      BY <2>1, <2>2
  <1>7. RecordsIntact'
    <2> SUFFICES ASSUME NEW p \in Live', ~HeaderAt(p)'.pad,
                        NEW i \in 0 .. RecordLen[HeaderAt(p)'.msg] - 1
                 PROVE  buf'[Off(p) + i] = HeaderAt(p)'
      BY DEF RecordsIntact, UnreadAt
    <2>1. CASE p = tail
      BY <1>1, <2>1
    <2>2. CASE p \in Live
      <3>1. HeaderAt(p)' = HeaderAt(p)
        BY <1>1, <2>2
      <3>2. HeaderAt(p).msg \in Msgs /\ RecordLen[HeaderAt(p).msg] <= HeaderAt(p).total_len
        BY <2>2, <3>1 DEF RingShape, LiveHeaders
      <3>3. RecordLen[HeaderAt(p).msg] \in Nat /\ HeaderAt(p).total_len \in Nat
        BY <2>2, <3>2, SizeAssumption, LiveFacts
      <3>4. i \in 0 .. HeaderAt(p).total_len - 1
        BY <3>1, <3>2, <3>3
      <3>5. buf'[Off(p) + i] = buf[Off(p) + i]
        BY <1>1, <2>2, <3>4
      <3>6. buf[Off(p) + i] = HeaderAt(p)
        BY <2>2, <3>1 DEF RingShape, RecordsIntact, UnreadAt
      <3> QED
        BY <3>1, <3>5, <3>6
    <2> QED
      BY <1>1, <2>1, <2>2
  <1> QED
    BY <1>1, <1>5, <1>6, <1>7, <1>8 DEF RingShape

(* Advancing head over the record it points at keeps the ring well formed  *)
(* and removes exactly that record.                                        *)
LEMMA AdvanceShape ==
    ASSUME TypeOK, RingShape, head # tail,
           head' = head + HeaderAt(head).total_len, tail' = tail, buf' = buf
    PROVE  /\ head \in Live
           /\ head' \in Nat
           /\ Live' = Live \ {head}
           /\ \A p \in Live : HeaderAt(p)' = HeaderAt(p)
           /\ RingShape'
  <1>1. head \in Live
    BY DEF RingShape, RingChain
  <1>2. head' = EndOf(head)
    BY DEF EndOf
  <1>3. /\ head \in Nat /\ tail \in Nat
        /\ EndOf(head) \in Nat /\ head < EndOf(head) /\ EndOf(head) <= tail
        /\ EndOf(head) = tail \/ EndOf(head) \in Live
        /\ \A q \in Live : head < q => EndOf(head) <= q
    BY <1>1, LiveFacts DEF TypeOK
  <1>4. \A p : HeaderAt(p)' = HeaderAt(p)
    BY DEF HeaderAt
  <1>5. \A p : EndOf(p)' = EndOf(p)
    BY <1>4 DEF EndOf
  <1>6. Live' = Live \ {head}
    <2>1. Live' = {p \in head' .. tail - 1 : HeaderAt(p).pos = p /\ HeaderAt(p).total_len # 0}
      BY DEF Live, HeaderAt
    <2>2. \A p \in Live : p # head <=> p \in head' .. tail - 1
      BY <1>2, <1>3 DEF Live
    <2>3. head' .. tail - 1 \subseteq head .. tail - 1
      BY <1>2, <1>3
    <2> QED
      BY <2>1, <2>2, <2>3 DEF Live
  <1>7. RingChain'
    <2>1. head' <= tail' /\ tail' <= head' + Capacity
      BY <1>2, <1>3, OffFacts DEF RingShape, RingChain
    <2>2. head' = tail' \/ head' \in Live'
      BY <1>2, <1>3, <1>6
    <2>3. ASSUME NEW p \in Live'
          PROVE  /\ EndOf(p)' = tail' \/ EndOf(p)' \in Live'
                 /\ Off(p) + HeaderAt(p)'.total_len <= Capacity
                 /\ \A q \in Live' : p < q => EndOf(p)' <= q
      <3>1. p \in Live /\ p # head
        BY <1>6
      <3>2. p \in Nat /\ head <= p /\ EndOf(p) \in Nat /\ p < EndOf(p)
        BY <3>1, LiveFacts
      <3>3. EndOf(p) # head
        BY <1>3, <3>2
      <3>4. /\ EndOf(p) = tail \/ EndOf(p) \in Live
            /\ Off(p) + HeaderAt(p).total_len <= Capacity
            /\ \A q \in Live : p < q => EndOf(p) <= q
        BY <3>1 DEF RingShape, RingChain
      <3> QED
        BY <1>4, <1>5, <1>6, <3>3, <3>4
    <2> QED
      BY <2>1, <2>2, <2>3 DEF RingChain
  <1>8. LiveHeaders' /\ WrittenBefore' /\ RecordsIntact' /\ PadFits'
    BY <1>4, <1>6 DEF RingShape, LiveHeaders, WrittenBefore, RecordsIntact, UnreadAt,
                           PadFits, contig
  <1> QED
    BY <1>1, <1>2, <1>3, <1>4, <1>6, <1>7, <1>8 DEF RingShape

-----------------------------------------------------------------------------
(* The threads: one of them acts, others may be let out of a wait. *)

ThreadStep(t, at) ==
    /\ pc' \in [Threads -> {"idle", "put", "evict", "get", "asleep", "relock"}]
    /\ pc'[t] = at
    /\ not_empty' \subseteq not_empty
    /\ not_full' \subseteq not_full
    /\ \A u \in Threads : u # t =>
          \/ pc'[u] = pc[u]
          \/ /\ pc[u] = "asleep" /\ pc'[u] = "relock"
             /\ u \notin not_empty' /\ u \notin not_full'

Places == {"idle", "put", "evict", "get", "asleep", "relock"}

(* The ways an awake thread goes on are thread steps. *)
LEMMA ThreadSteps ==
    ASSUME TypeOK, ThreadsOK, NEW t \in Threads, NEW at \in Places, pc[t] # "asleep"
    PROVE  /\ Goto(t, at) /\ UNCHANGED conds => ThreadStep(t, at)
           /\ SignalNotEmpty(t, at) /\ UNCHANGED not_full => ThreadStep(t, at)
           /\ BroadcastNotFull(t, at) /\ UNCHANGED not_empty => ThreadStep(t, at)
  <1>1. /\ pc \in [Threads -> Places]
        /\ not_empty \subseteq Threads /\ not_full \subseteq Threads
        /\ \A u \in not_empty \cup not_full : pc[u] = "asleep"
        /\ not_empty \cap not_full = {}
    BY ThreadAssumption DEF TypeOK, ThreadsOK, Threads, Places
  <1>2. Goto(t, at) /\ UNCHANGED conds => ThreadStep(t, at)
    BY <1>1 DEF Goto, conds, ThreadStep, Places
  <1>3. SignalNotEmpty(t, at) /\ UNCHANGED not_full => ThreadStep(t, at)
    <2>1. ASSUME not_empty = {}, Goto(t, at), UNCHANGED conds
          PROVE  ThreadStep(t, at)
      BY <1>2, <2>1
    <2>2. ASSUME NEW w \in not_empty, not_empty' = not_empty \ {w},
                 pc' = [pc EXCEPT ![t] = at, ![w] = "relock"], not_full' = not_full
          PROVE  ThreadStep(t, at)
      <3>1. w # t /\ w \in Threads /\ pc[w] = "asleep"
        BY <1>1
      <3> QED
        BY <1>1, <2>2, <3>1 DEF ThreadStep, Places
    <2> QED
      BY <2>1, <2>2 DEF SignalNotEmpty, conds
  <1>4. BroadcastNotFull(t, at) /\ UNCHANGED not_empty => ThreadStep(t, at)
    BY <1>1 DEF BroadcastNotFull, ThreadStep, Places
  <1> QED
    BY <1>2, <1>3, <1>4

(* A thread step of the mutex holder that keeps it, or of a thread that    *)
(* takes it or gives it up, keeps the threads consistent.                  *)
LEMMA ThreadsOKStep ==
    ASSUME TypeOK, ThreadsOK, NEW t \in Threads, NEW at \in Places,
           ThreadStep(t, at), at # "asleep", pc[t] # "asleep",
           mu = t \/ mu = NoThread,
           mu' = IF at \in {"put", "evict", "get"} THEN t ELSE NoThread,
           at \in {"put", "evict"} => t \in Producers,
           at = "get" => t \in Consumers,
           at = "evict" => policy = Overwrite /\ ~closed,
           policy' = policy, closed' = closed,
           cur' \in [Producers -> Msgs \cup {NoMsg}],
           \A p \in Producers : p # t => cur'[p] = cur[p],
           t \in Producers => (cur'[t] = NoMsg <=> at = "idle"),
           t \in Producers /\ at # "idle" =>
              /\ status'[cur'[t]] = "putting"
              /\ \A p \in Producers : p # t => cur[p] # cur'[t],
           \A p \in Producers : p # t /\ cur[p] # NoMsg /\ status[cur[p]] = "putting"
              => status'[cur[p]] = "putting"
    PROVE  ThreadsOK'
  <1>1. /\ \A u \in Threads : pc'[u] \in {"put", "evict", "get"} <=> mu' = u
        /\ \A c \in Consumers : pc'[c] \notin {"put", "evict"}
        /\ \A p \in Producers : pc'[p] # "get"
        /\ \A p \in Producers : pc'[p] = "evict" => policy' = Overwrite /\ ~closed'
    BY ThreadAssumption DEF TypeOK, ThreadsOK, ThreadStep, Threads, Places
  <1>2. /\ \A p \in Producers : cur'[p] = NoMsg <=> pc'[p] = "idle"
        /\ \A p \in Producers : pc'[p] # "idle" => status'[cur'[p]] = "putting"
        /\ \A p, q \in Producers : cur'[p] = cur'[q] /\ pc'[p] # "idle" => p = q
    <2>1. \A p \in Producers : cur'[p] = NoMsg <=> pc'[p] = "idle"
      BY DEF ThreadsOK, ThreadStep, Threads
    <2>2. \A p \in Producers : pc'[p] # "idle" => status'[cur'[p]] = "putting"
      BY <2>1 DEF ThreadsOK, ThreadStep, Threads
    <2>3. \A p, q \in Producers : cur'[p] = cur'[q] /\ pc'[p] # "idle" => p = q
      BY <2>1 DEF ThreadsOK, ThreadStep, Threads
    <2> QED
      BY <2>1, <2>2, <2>3
  <1>3. \A u \in not_empty' \cup not_full' : pc'[u] = "asleep"
    BY DEF TypeOK, ThreadsOK, ThreadStep, Threads
  <1>4. policy' # Wait => not_full' = {}
    BY DEF ThreadsOK, ThreadStep
  <1> QED
    BY <1>1, <1>2, <1>3, <1>4 DEF ThreadsOK

-----------------------------------------------------------------------------
(* One lemma per action that changes the ring or a record's status. *)

(* The invariant survives what leaves memory and cursors alone and changes *)
(* no record into or out of the ring.                                      *)
LEMMA RingUnchanged ==
    ASSUME RingShape, NothingLost, UNCHANGED ring,
           \A m \in Msgs : status'[m] = "queued" <=> status[m] = "queued"
    PROVE  RingShape' /\ NothingLost'
  <1>1. buf' = buf /\ head' = head /\ tail' = tail
    BY DEF ring
  <1>2. Live' = Live /\ (\A p : HeaderAt(p)' = HeaderAt(p)) /\ (\A p : EndOf(p)' = EndOf(p))
    BY <1>1 DEF Live, HeaderAt, EndOf
  <1>3. RingShape'
    BY <1>1, <1>2 DEF RingShape, RingChain, PadFits, contig, LiveHeaders,
                      WrittenBefore, RecordsIntact, UnreadAt
  <1>4. NothingLost'
    BY <1>2 DEF NothingLost, UnreadAt
  <1> QED
    BY <1>3, <1>4

(* The record a producer holds. *)
LEMMA PuttingFacts ==
    ASSUME TypeOK, ThreadsOK, NEW p \in Producers, mu = p
    PROVE  /\ pc[p] \in {"put", "evict"}
           /\ cur[p] \in Msgs
           /\ status[cur[p]] = "putting"
           /\ RecordLen[cur[p]] \in Nat \ {0}
           /\ MinPad <= RecordLen[cur[p]]
           /\ \A q \in Producers : q # p => cur[q] # cur[p]
  <1>1. pc[p] \in {"put", "evict"} /\ cur[p] \in Msgs /\ status[cur[p]] = "putting"
    BY DEF TypeOK, ThreadsOK, Threads
  <1>2. RecordLen[cur[p]] \in Nat \ {0} /\ MinPad <= RecordLen[cur[p]]
    BY <1>1, SizeAssumption
  <1>3. \A q \in Producers : q # p => cur[q] # cur[p]
    BY <1>1 DEF ThreadsOK
  <1> QED
    BY <1>1, <1>2, <1>3

(* A record that fits, with its extension to the boundary, stays clear of  *)
(* the unread ones: the extension is shorter than a header, and the oldest *)
(* unread record cannot start so close to the boundary.                    *)
LEMMA ExtensionIsFree ==
    ASSUME TypeOK, RingShape, NEW m \in Msgs,
           contig >= RecordLen[m], free_bytes >= RecordLen[m]
    PROVE  /\ ExtendedLen(m) \in Nat
           /\ RecordLen[m] <= ExtendedLen(m)
           /\ ExtendedLen(m) = contig \/ ExtendedLen(m) + MinPad <= contig
           /\ tail + ExtendedLen(m) <= head + Capacity
  <1>1. /\ head \in Nat /\ tail \in Nat /\ Capacity \in Nat
        /\ contig \in 1 .. Capacity /\ MinPad \in Nat \ {0}
    BY CursorFacts
  <1>2. RecordLen[m] \in Nat
    BY SizeAssumption
  <1>3. tail + RecordLen[m] <= head + Capacity
    BY <1>1, <1>2 DEF free_bytes, used
  <1>4. CASE contig - RecordLen[m] >= MinPad
    BY <1>1, <1>2, <1>3, <1>4 DEF ExtendedLen
  <1>5. CASE contig - RecordLen[m] < MinPad
    <2>1. ASSUME tail + contig > head + Capacity
          PROVE  FALSE
      <3>1. head <= tail /\ (head = tail \/ head \in Live)
        BY DEF RingShape, RingChain
      <3>2. head \in Live
        BY <1>1, <2>1, <3>1
      <3> DEFINE d == head + Capacity - tail
      <3>3. d \in Nat /\ d < contig /\ contig < d + MinPad
        BY <1>1, <1>2, <1>3, <1>5, <2>1
      <3>9. Off(tail) \in Nat /\ contig = Capacity - Off(tail)
        BY <1>1, OffFacts DEF contig, Offsets
      <3>4. Off(tail + d) = Off(tail) + d
        BY <1>1, <3>3, <3>9, OffFacts
      <3>5. tail + d = head + Capacity
        BY <1>1
      <3>6. Off(head + Capacity) = Off(head)
        BY <1>1, OffLap
      <3>7. Off(head) + HeaderAt(head).total_len <= Capacity /\ MinPad <= HeaderAt(head).total_len
        BY <3>2 DEF RingShape, RingChain, LiveHeaders
      <3>8. HeaderAt(head).total_len \in Nat
        BY <3>2, LiveFacts
      <3> QED
        BY <1>1, <3>3, <3>4, <3>5, <3>6, <3>7, <3>8, <3>9
    <2> QED
      BY <1>1, <1>2, <1>5, <2>1 DEF ExtendedLen
  <1> QED
    BY <1>1, <1>2, <1>4, <1>5

(* PutRecord stores the record and queues it. *)
LEMMA PutRecordInv ==
    ASSUME Inv, NEW p \in Producers, PutRecord(p)
    PROVE  Inv'
  <1> DEFINE m == cur[p]
             L == ExtendedLen(m)
             image == [pos |-> tail, total_len |-> L, pad |-> FALSE, msg |-> m]
  <1>1. /\ TypeOK /\ ThreadsOK /\ RingShape /\ NothingLost
        /\ mu = p /\ pc[p] = "put" /\ p \in Threads
    BY DEF Inv, RingShape, PutRecord, Putting, Threads
  <1>2. /\ m \in Msgs /\ status[m] = "putting" /\ RecordLen[m] \in Nat \ {0}
        /\ MinPad <= RecordLen[m]
        /\ \A q \in Producers : q # p => cur[q] # m
    BY <1>1, PuttingFacts
  <1>3. /\ L \in Nat /\ RecordLen[m] <= L
        /\ L = contig \/ L + MinPad <= contig
        /\ tail + L <= head + Capacity
    BY <1>1, <1>2, ExtensionIsFree DEF PutRecord, Fits
  <1>4. /\ head \in Nat /\ tail \in Nat /\ contig \in 1 .. Capacity
        /\ Capacity \in Nat /\ MinPad \in Nat \ {0}
    BY <1>1, CursorFacts
  <1>5. /\ buf' = Store(Off(tail), RecordLen[m], image)
        /\ tail' = tail + L /\ head' = head
        /\ mu' = NoThread
        /\ cur' = [cur EXCEPT ![p] = NoMsg]
        /\ status' = [status EXCEPT ![m] = "queued"]
        /\ SignalNotEmpty(p, "idle")
        /\ UNCHANGED <<policy, counters, closed, not_full, delivered>>
    BY DEF PutRecord, write_record, PutReturn
  <1>6. image \in Headers
    BY <1>2, <1>3, <1>4 DEF Headers
  <1>7. MinPad <= L /\ L <= contig
    BY <1>2, <1>3, <1>4
  <1> HIDE DEF L
  <1>8. RingShape'
    BY <1>1, <1>2, <1>3, <1>5, <1>6, <1>7, AppendShape
  <1>9. /\ Live' = Live \cup {tail}
        /\ tail \notin Live
        /\ \A q \in {tail} : HeaderAt(q)' = image
        /\ \A q \in Live : HeaderAt(q)' = HeaderAt(q)
    BY <1>1, <1>2, <1>3, <1>5, <1>6, <1>7, AppendLive
  <1>10. NothingLost'
    <2>1. \A q \in UnreadAt : HeaderAt(q).msg # m
      BY <1>1, <1>2 DEF NothingLost
    <2>2. \A x \in Msgs : status'[x] = IF x = m THEN "queued" ELSE status[x]
      BY <1>1, <1>2, <1>5 DEF TypeOK
    <2>3. UnreadAt' = UnreadAt \cup {tail}
      BY <1>9 DEF UnreadAt
    <2>4. \A q \in UnreadAt : HeaderAt(q)' = HeaderAt(q)
      BY <1>9 DEF UnreadAt
    <2> QED
      BY <1>1, <1>2, <1>9, <2>1, <2>2, <2>3, <2>4 DEF NothingLost
  <1>11. ThreadStep(p, "idle")
    BY <1>1, <1>5, ThreadSteps DEF Places
  <1>12. /\ status' \in [Msgs -> Statuses]
         /\ \A q \in Producers : q # p /\ cur[q] # NoMsg => status'[cur[q]] = status[cur[q]]
         /\ cur' \in [Producers -> Msgs \cup {NoMsg}]
         /\ cur'[p] = NoMsg
         /\ \A q \in Producers : q # p => cur'[q] = cur[q]
    BY <1>1, <1>2, <1>5 DEF TypeOK, Statuses
  <1>13. ThreadsOK'
    BY <1>1, <1>5, <1>11, <1>12, ThreadsOKStep DEF Places
  <1>14. TypeOK'
    <2>1. buf' \in [Offsets -> Headers]
      BY <1>1, <1>5, <1>6, StoreType
    <2>2. tail' \in Nat
      BY <1>3, <1>4, <1>5
    <2>3. /\ head' = head /\ mu' = NoThread
          /\ UNCHANGED <<policy, dropped, overwritten, closed, not_full, delivered>>
      BY <1>5 DEF counters
    <2> QED
      BY <1>1, <1>11, <1>12, <2>1, <2>2, <2>3 DEF TypeOK, ThreadStep
  <1> QED
    BY <1>8, <1>10, <1>13, <1>14 DEF Inv, RingShape

(* PutPad stores a pad up to the end of memory. *)
LEMMA PutPadInv ==
    ASSUME Inv, NEW p \in Producers, PutPad(p)
    PROVE  Inv'
  <1> DEFINE image == [pos |-> tail, total_len |-> contig, pad |-> TRUE, msg |-> NoMsg]
  <1>1. /\ TypeOK /\ ThreadsOK /\ RingShape /\ NothingLost
        /\ mu = p /\ pc[p] = "put" /\ p \in Threads
    BY DEF Inv, RingShape, PutPad, Putting, Threads
  <1>2. /\ head \in Nat /\ tail \in Nat /\ contig \in 1 .. Capacity
        /\ Capacity \in Nat /\ MinPad \in Nat \ {0} /\ MinPad <= contig
    BY <1>1, CursorFacts DEF RingShape, PadFits
  <1>3. /\ buf' = Store(Off(tail), MinPad, image)
        /\ tail' = tail + contig /\ head' = head
        /\ SignalNotEmpty(p, "put")
        /\ UNCHANGED <<policy, mu, counters, closed, not_full, cur, status, delivered>>
    BY DEF PutPad, write_pad
  <1>4. image \in Headers
    BY <1>2 DEF Headers
  <1>5. tail + contig <= head + Capacity
    BY <1>2 DEF PutPad, PadFirst, free_bytes, used
  <1>12. image.pos = tail /\ image.total_len = contig /\ image.pad
    OBVIOUS
  <1> HIDE DEF image
  <1>6. RingShape'
    BY <1>1, <1>2, <1>3, <1>4, <1>5, <1>12, AppendShape
  <1>7. /\ Live' = Live \cup {tail}
        /\ tail \notin Live
        /\ \A q \in {tail} : HeaderAt(q)' = image
        /\ \A q \in Live : HeaderAt(q)' = HeaderAt(q)
    BY <1>1, <1>2, <1>3, <1>4, <1>5, <1>12, AppendLive
  <1>8. NothingLost'
    <2>1. UnreadAt' = UnreadAt
      BY <1>7, <1>12 DEF UnreadAt
    <2>2. \A q \in UnreadAt : HeaderAt(q)' = HeaderAt(q)
      BY <1>7 DEF UnreadAt
    <2> QED
      BY <1>1, <1>3, <2>1, <2>2 DEF NothingLost
  <1>9. ThreadStep(p, "put")
    BY <1>1, <1>3, ThreadSteps DEF Places
  <1>10. ThreadsOK'
    <2>1. /\ cur[p] \in Msgs /\ status[cur[p]] = "putting"
          /\ \A q \in Producers : q # p => cur[q] # cur[p]
      BY <1>1, PuttingFacts
    <2>2. cur[p] # NoMsg /\ cur \in [Producers -> Msgs \cup {NoMsg}]
      BY <1>1, <2>1, MsgAssumption DEF TypeOK
    <2> QED
      BY <1>1, <1>3, <1>9, <2>1, <2>2, ThreadsOKStep DEF Places
  <1>11. TypeOK'
    <2>1. buf' \in [Offsets -> Headers]
      BY <1>1, <1>3, <1>4, StoreType
    <2> QED
      BY <1>1, <1>2, <1>3, <1>9, <2>1 DEF TypeOK, ThreadStep, counters
  <1> QED
    BY <1>6, <1>8, <1>10, <1>11 DEF Inv, RingShape

(* Removing the oldest record, or skipping a pad, for whatever reason. *)
LEMMA AdvanceInv ==
    ASSUME TypeOK, RingShape, NothingLost, head # tail, NEW outcome \in Statuses \ {"queued"},
           head' = head + HeaderAt(head).total_len, tail' = tail, buf' = buf,
           status' = IF HeaderAt(head).pad THEN status
                     ELSE [status EXCEPT ![HeaderAt(head).msg] = outcome]
    PROVE  /\ head' \in Nat
           /\ ~HeaderAt(head).pad => /\ HeaderAt(head).msg \in Msgs
                                     /\ status[HeaderAt(head).msg] = "queued"
           /\ RingShape'
           /\ NothingLost'
  <1>1. /\ head \in Live /\ head' \in Nat
        /\ Live' = Live \ {head}
        /\ \A p \in Live : HeaderAt(p)' = HeaderAt(p)
        /\ RingShape'
    BY AdvanceShape
  <1>2. \A p \in UnreadAt : HeaderAt(p)' = HeaderAt(p) /\ HeaderAt(p).msg \in Msgs
    BY <1>1 DEF UnreadAt, RingShape, LiveHeaders
  <1>3. UnreadAt' = UnreadAt \ {head}
    BY <1>1 DEF UnreadAt
  <1>4. CASE HeaderAt(head).pad
    <2>1. UnreadAt' = UnreadAt
      BY <1>3, <1>4 DEF UnreadAt
    <2> QED
      BY <1>1, <1>2, <1>4, <2>1 DEF NothingLost
  <1>5. CASE ~HeaderAt(head).pad
    <2> DEFINE m == HeaderAt(head).msg
    <2>1. head \in UnreadAt
      BY <1>1, <1>5 DEF UnreadAt
    <2>2. m \in Msgs /\ status[m] = "queued"
      BY <1>2, <2>1 DEF NothingLost
    <2>3. \A x \in Msgs : status'[x] = IF x = m THEN outcome ELSE status[x]
      BY <1>5, <2>2 DEF TypeOK
    <2>4. \A p \in UnreadAt : p # head => HeaderAt(p).msg # m
      BY <2>1 DEF NothingLost
    <2> HIDE DEF m
    <2>5. NothingLost'
      <3>1. \A x \in Msgs : status'[x] = "queued" <=> \E p \in UnreadAt' : HeaderAt(p)'.msg = x
        BY <1>2, <1>3, <2>2, <2>3, <2>4 DEF NothingLost, m
      <3>2. \A p, q \in UnreadAt' : HeaderAt(p)'.msg = HeaderAt(q)'.msg => p = q
        BY <1>2, <1>3 DEF NothingLost
      <3> QED
        BY <3>1, <3>2 DEF NothingLost
    <2> QED
      BY <1>1, <1>5, <2>2, <2>5 DEF m
  <1> QED
    BY <1>4, <1>5

(* EvictOldest removes one record for the overwrite policy. *)
LEMMA EvictOldestInv ==
    ASSUME Inv, NEW p \in Producers, EvictOldest(p)
    PROVE  Inv'
  <1>1. /\ TypeOK /\ ThreadsOK /\ RingShape /\ NothingLost /\ mu = p /\ p \in Threads
    BY DEF Inv, RingShape, EvictOldest, Threads
  <1>2. /\ cur[p] \in Msgs /\ status[cur[p]] = "putting" /\ RecordLen[cur[p]] \in Nat \ {0}
        /\ \A q \in Producers : q # p => cur[q] # cur[p]
        /\ pc[p] \in {"put", "evict"}
    BY <1>1, PuttingFacts
  <1>3. /\ head' = head + HeaderAt(head).total_len /\ tail' = tail /\ buf' = buf
        /\ status' = IF HeaderAt(head).pad THEN status
                     ELSE [status EXCEPT ![HeaderAt(head).msg] = "evicted"]
        /\ overwritten' = IF HeaderAt(head).pad THEN overwritten ELSE overwritten + 1
        /\ Goto(p, "evict")
        /\ UNCHANGED <<policy, mu, dropped, closed, conds, cur, delivered>>
    BY DEF EvictOldest
  <1>4. head # tail
    <2>1. 2 * RecordLen[cur[p]] <= Capacity /\ Capacity \in Nat
      BY <1>2, SizeAssumption
    <2>2. free_bytes < RecordLen[cur[p]] /\ head \in Nat /\ tail \in Nat
      BY <1>1 DEF EvictOldest, TypeOK
    <2> QED
      BY <1>2, <2>1, <2>2 DEF free_bytes, used
  <1>5. /\ head' \in Nat /\ RingShape' /\ NothingLost'
        /\ ~HeaderAt(head).pad => /\ HeaderAt(head).msg \in Msgs
                                  /\ status[HeaderAt(head).msg] = "queued"
    BY <1>1, <1>3, <1>4, AdvanceInv DEF Statuses
  <1>6. ThreadStep(p, "evict")
    BY <1>1, <1>2, <1>3, ThreadSteps DEF Places
  <1>7. status' \in [Msgs -> Statuses] /\ \A x \in Msgs : status[x] = "putting" => status'[x] = "putting"
    BY <1>1, <1>3, <1>5 DEF TypeOK, Statuses
  <1>8. ThreadsOK'
    <2>1. policy = Overwrite /\ ~closed
      BY <1>1 DEF EvictOldest, ThreadsOK
    <2>2. cur[p] # NoMsg /\ cur \in [Producers -> Msgs \cup {NoMsg}]
      BY <1>1, <1>2, MsgAssumption DEF TypeOK
    <2>3. \A q \in Producers : cur[q] # NoMsg => cur[q] \in Msgs
      BY <2>2
    <2> QED
      BY <1>1, <1>2, <1>3, <1>6, <1>7, <2>1, <2>2, <2>3, ThreadsOKStep DEF Places
  <1>9. TypeOK'
    <2>1. overwritten' \in Nat
      BY <1>1, <1>3 DEF TypeOK
    <2>2. UNCHANGED <<policy, mu, buf, tail, dropped, closed, not_empty, not_full, cur, delivered>>
      BY <1>3 DEF conds
    <2> QED
      BY <1>1, <1>5, <1>6, <1>7, <2>1, <2>2 DEF TypeOK, ThreadStep
  <1> QED
    BY <1>5, <1>8, <1>9 DEF Inv, RingShape

(* A consumer's thread step keeps every producer's record in its place. *)
LEMMA GetThreads ==
    ASSUME TypeOK, ThreadsOK, NEW c \in Consumers, NEW at \in {"idle", "get"},
           ThreadStep(c, at), pc[c] # "asleep", mu = c \/ mu = NoThread,
           mu' = IF at = "get" THEN c ELSE NoThread,
           UNCHANGED <<policy, closed, cur>>,
           \A x \in Msgs : status[x] = "putting" => status'[x] = "putting"
    PROVE  ThreadsOK'
  <1>1. c \in Threads /\ c \notin Producers /\ at \in Places /\ at \notin {"asleep", "put", "evict"}
    BY ThreadAssumption DEF Threads, Places
  <1>2. cur \in [Producers -> Msgs \cup {NoMsg}]
    BY DEF TypeOK
  <1>3. mu' = IF at \in {"put", "evict", "get"} THEN c ELSE NoThread
    OBVIOUS
  <1> QED
    BY <1>1, <1>2, <1>3, ThreadsOKStep

(* GetSkipPad and GetRecord advance head past what they read. *)
LEMMA GetRecordInv ==
    ASSUME Inv, NEW c \in Consumers, GetSkipPad(c) \/ GetRecord(c)
    PROVE  Inv'
  <1> DEFINE h == HeaderAt(head)
             at == IF h.pad THEN "get" ELSE "idle"
  <1>1. /\ TypeOK /\ ThreadsOK /\ RingShape /\ NothingLost
        /\ mu = c /\ pc[c] = "get" /\ c \in Threads /\ head # tail
    BY DEF Inv, RingShape, GetSkipPad, GetRecord, Getting, Threads
  <1>2. /\ head' = head + h.total_len /\ tail' = tail /\ buf' = buf
        /\ status' = IF h.pad THEN status ELSE [status EXCEPT ![h.msg] = "got"]
        /\ delivered' = IF h.pad THEN delivered ELSE Append(delivered, h.msg)
        /\ mu' = IF h.pad THEN c ELSE NoThread
        /\ BroadcastNotFull(c, at)
        /\ UNCHANGED <<policy, counters, closed, not_empty, cur>>
    BY <1>1 DEF GetSkipPad, GetRecord
  <1>3. /\ head' \in Nat /\ RingShape' /\ NothingLost'
        /\ ~h.pad => h.msg \in Msgs /\ status[h.msg] = "queued"
    BY <1>1, <1>2, AdvanceInv DEF Statuses
  <1>4. at \in {"idle", "get"} /\ at \in Places
    BY DEF Places
  <1> HIDE DEF at
  <1>5. ThreadStep(c, at)
    BY <1>1, <1>2, <1>4, ThreadSteps
  <1>6. status' \in [Msgs -> Statuses] /\ \A x \in Msgs : status[x] = "putting" => status'[x] = "putting"
    BY <1>1, <1>2, <1>3 DEF TypeOK, Statuses
  <1>7. ThreadsOK'
    BY <1>1, <1>2, <1>4, <1>5, <1>6, GetThreads DEF at
  <1>8. TypeOK'
    <2>1. delivered' \in Seq(Msgs)
      BY <1>1, <1>2, <1>3 DEF TypeOK
    <2>2. UNCHANGED <<policy, buf, tail, dropped, overwritten, closed, not_empty, cur>>
      BY <1>2 DEF counters
    <2>3. mu' \in Threads \cup {NoThread}
      BY <1>1, <1>2
    <2> QED
      BY <1>1, <1>3, <1>5, <1>6, <2>1, <2>2, <2>3 DEF TypeOK, ThreadStep
  <1> QED
    BY <1>3, <1>7, <1>8 DEF Inv, RingShape

(* Calling and leaving put without touching memory. *)
LEMMA PutCallInv ==
    ASSUME Inv, NEW p \in Producers, NEW m \in Msgs, PutCall(p, m)
    PROVE  Inv'
  <1>1. /\ TypeOK /\ ThreadsOK /\ RingShape /\ NothingLost
        /\ mu = NoThread /\ pc[p] = "idle" /\ p \in Threads /\ status[m] = "new"
    BY DEF Inv, RingShape, PutCall, Threads
  <1>2. /\ mu' = p /\ Goto(p, "put")
        /\ cur' = [cur EXCEPT ![p] = m]
        /\ status' = [status EXCEPT ![m] = "putting"]
        /\ UNCHANGED <<policy, ring, counters, closed, conds, delivered>>
    BY DEF PutCall
  <1>3. /\ status' \in [Msgs -> Statuses]
        /\ \A x \in Msgs : status'[x] = IF x = m THEN "putting" ELSE status[x]
        /\ cur' \in [Producers -> Msgs \cup {NoMsg}]
        /\ cur'[p] = m
        /\ \A q \in Producers : q # p => cur'[q] = cur[q]
    BY <1>1, <1>2 DEF TypeOK, Statuses
  <1>4. RingShape' /\ NothingLost'
    <2>1. UNCHANGED ring /\ \A x \in Msgs : status'[x] = "queued" <=> status[x] = "queued"
      BY <1>1, <1>2, <1>3
    <2> QED
      BY <1>1, <2>1, RingUnchanged
  <1>5. ThreadStep(p, "put")
    BY <1>1, <1>2, ThreadSteps DEF Places
  <1>6. ThreadsOK'
    <2>1. m # NoMsg
      BY MsgAssumption
    <2>2. \A q \in Producers : q # p => cur[q] # m
      BY <1>1, <2>1 DEF ThreadsOK
    <2>3. \A q \in Producers : q # p /\ cur[q] # NoMsg => status'[cur[q]] = status[cur[q]]
      BY <1>1, <1>3, <2>2 DEF TypeOK
    <2> QED
      BY <1>1, <1>2, <1>3, <1>5, <2>1, <2>2, <2>3, ThreadsOKStep DEF Places
  <1>7. TypeOK'
    <2>1. mu' = p /\ UNCHANGED <<policy, buf, head, tail, dropped, overwritten, closed,
                                not_empty, not_full, delivered>>
      BY <1>2 DEF ring, counters, conds
    <2> QED
      BY <1>1, <1>3, <1>5, <2>1 DEF TypeOK, ThreadStep
  <1> QED
    BY <1>4, <1>6, <1>7 DEF Inv, RingShape

(* PutRefuse gives the record up. *)
LEMMA PutRefuseInv ==
    ASSUME Inv, NEW p \in Producers, PutRefuse(p)
    PROVE  Inv'
  <1> DEFINE m == cur[p]
  <1>1. /\ TypeOK /\ ThreadsOK /\ RingShape /\ NothingLost
        /\ mu = p /\ pc[p] = "put" /\ p \in Threads
    BY DEF Inv, RingShape, PutRefuse, Putting, Threads
  <1>2. m \in Msgs /\ status[m] = "putting" /\ \A q \in Producers : q # p => cur[q] # m
    BY <1>1, PuttingFacts
  <1>3. /\ mu' = NoThread /\ Goto(p, "idle")
        /\ dropped' = dropped + 1
        /\ cur' = [cur EXCEPT ![p] = NoMsg]
        /\ status' = [status EXCEPT ![m] = "dropped"]
        /\ UNCHANGED <<policy, ring, overwritten, closed, conds, delivered>>
    BY DEF PutRefuse, PutReturn
  <1>4. /\ status' \in [Msgs -> Statuses]
        /\ \A x \in Msgs : status'[x] = IF x = m THEN "dropped" ELSE status[x]
        /\ cur' \in [Producers -> Msgs \cup {NoMsg}]
        /\ cur'[p] = NoMsg
        /\ \A q \in Producers : q # p => cur'[q] = cur[q]
    BY <1>1, <1>2, <1>3 DEF TypeOK, Statuses
  <1>5. RingShape' /\ NothingLost'
    <2>1. UNCHANGED ring /\ \A x \in Msgs : status'[x] = "queued" <=> status[x] = "queued"
      BY <1>2, <1>3, <1>4
    <2> QED
      BY <1>1, <2>1, RingUnchanged
  <1>6. ThreadStep(p, "idle")
    BY <1>1, <1>3, ThreadSteps DEF Places
  <1>7. ThreadsOK'
    <2>1. \A q \in Producers : q # p /\ cur[q] # NoMsg => status'[cur[q]] = status[cur[q]]
      BY <1>1, <1>2, <1>4 DEF TypeOK
    <2> QED
      BY <1>1, <1>3, <1>4, <1>6, <2>1, ThreadsOKStep DEF Places
  <1>8. TypeOK'
    <2>1. /\ mu' = NoThread /\ dropped' \in Nat
          /\ UNCHANGED <<policy, buf, head, tail, overwritten, closed,
                         not_empty, not_full, delivered>>
      BY <1>1, <1>3 DEF ring, conds, TypeOK
    <2> QED
      BY <1>1, <1>4, <1>6, <2>1 DEF TypeOK, ThreadStep
  <1> QED
    BY <1>5, <1>7, <1>8 DEF Inv, RingShape

(* The steps that only move threads: waits, wake-ups, the mutex, close. *)
LEMMA ThreadsOnlyInv ==
    ASSUME Inv, UNCHANGED <<policy, ring, counters, cur, status, delivered>>,
           closed' \in BOOLEAN, mu' \in Threads \cup {NoThread},
           pc' \in [Threads -> Places],
           not_empty' \subseteq Consumers, not_full' \subseteq Producers,
           ThreadsOK'
    PROVE  Inv'
  <1>1. TypeOK'
    BY DEF Inv, TypeOK, ring, counters, Places
  <1>2. RingShape' /\ NothingLost'
    BY RingUnchanged DEF Inv, RingShape
  <1> QED
    BY <1>1, <1>2 DEF Inv, RingShape

(* EvictDone wakes sleepers and goes round the loop again. *)
LEMMA EvictDoneInv ==
    ASSUME Inv, NEW p \in Producers, EvictDone(p)
    PROVE  Inv'
  <1>1. /\ TypeOK /\ ThreadsOK /\ mu = p /\ p \in Threads /\ pc[p] = "evict"
    BY DEF Inv, EvictDone, Threads
  <1>2. UNCHANGED <<policy, mu, ring, counters, closed, cur, status, delivered>>
    BY DEF EvictDone
  <1>3. PICK woken \in SUBSET not_empty :
          /\ not_empty' = not_empty \ woken
          /\ not_full' = {}
          /\ pc' = [t \in Threads |-> IF t = p THEN "put"
                                      ELSE IF t \in woken \cup not_full THEN "relock"
                                      ELSE pc[t]]
    BY DEF EvictDone
  <1>4. ThreadStep(p, "put")
    <2>1. /\ pc \in [Threads -> Places]
          /\ \A u \in not_empty \cup not_full : pc[u] = "asleep"
          /\ p \notin not_empty /\ p \notin not_full
          /\ not_empty \cap not_full = {}
      BY <1>1, ThreadAssumption DEF TypeOK, ThreadsOK, Places
    <2>2. \A u \in Threads : u # p =>
            pc'[u] = IF u \in woken \cup not_full THEN "relock" ELSE pc[u]
      BY <1>3
    <2>3. pc' \in [Threads -> Places] /\ pc'[p] = "put"
      BY <1>1, <1>3, <2>1 DEF Places
    <2> QED
      BY <1>3, <2>1, <2>2, <2>3 DEF ThreadStep, Places
  <1>5. /\ cur[p] \in Msgs /\ status[cur[p]] = "putting" /\ cur[p] # NoMsg
        /\ \A q \in Producers : q # p => cur[q] # cur[p]
        /\ cur \in [Producers -> Msgs \cup {NoMsg}]
    BY <1>1, PuttingFacts, MsgAssumption DEF TypeOK
  <1>6. ThreadsOK'
    BY <1>1, <1>2, <1>4, <1>5, ThreadsOKStep DEF Places
  <1> QED
    BY <1>1, <1>2, <1>4, <1>6, ThreadsOnlyInv DEF ThreadStep, TypeOK, Places

(* PutWait and GetWait give the mutex up and sleep. *)
LEMMA WaitInv ==
    ASSUME Inv, NEW t \in Threads,
           \/ t \in Producers /\ PutWait(t)
           \/ t \in Consumers /\ GetWait(t)
    PROVE  Inv'
  <1>1. /\ TypeOK /\ ThreadsOK /\ mu = t /\ pc[t] \in {"put", "get"}
        /\ t \in Producers => policy = Wait /\ pc[t] = "put"
    BY ThreadAssumption DEF Inv, PutWait, GetWait, Putting, Getting
  <1>2. /\ mu' = NoThread /\ pc' = [pc EXCEPT ![t] = "asleep"]
        /\ not_full' = IF t \in Producers THEN not_full \cup {t} ELSE not_full
        /\ not_empty' = IF t \in Producers THEN not_empty ELSE not_empty \cup {t}
        /\ UNCHANGED <<policy, ring, counters, closed, cur, status, delivered>>
    BY ThreadAssumption DEF PutWait, GetWait, Goto
  <1>3. pc' \in [Threads -> Places] /\ \A u \in Threads : pc'[u] = IF u = t THEN "asleep" ELSE pc[u]
    BY <1>1, <1>2 DEF TypeOK, Places
  <1>4. not_empty' \subseteq Consumers /\ not_full' \subseteq Producers
    BY <1>1, <1>2 DEF TypeOK, Threads
  <1>5. ThreadsOK'
    <2>1. /\ \A u \in Threads : pc'[u] \in {"put", "evict", "get"} <=> mu' = u
          /\ \A c \in Consumers : pc'[c] \notin {"put", "evict"}
          /\ \A p \in Producers : pc'[p] # "get"
          /\ \A p \in Producers : pc'[p] = "evict" => policy' = Overwrite /\ ~closed'
      BY <1>1, <1>2, <1>3, ThreadAssumption DEF ThreadsOK, Threads
    <2>2. /\ \A p \in Producers : cur'[p] = NoMsg <=> pc'[p] = "idle"
          /\ \A p \in Producers : pc'[p] # "idle" => status'[cur'[p]] = "putting"
          /\ \A p, q \in Producers : cur'[p] = cur'[q] /\ pc'[p] # "idle" => p = q
      BY <1>1, <1>2, <1>3 DEF ThreadsOK, Threads
    <2>3. \A u \in not_empty' \cup not_full' : pc'[u] = "asleep"
      BY <1>1, <1>2, <1>3, <1>4 DEF ThreadsOK, Threads
    <2>4. policy' # Wait => not_full' = {}
      BY <1>1, <1>2 DEF ThreadsOK
    <2> QED
      BY <2>1, <2>2, <2>3, <2>4 DEF ThreadsOK
  <1> QED
    BY <1>1, <1>2, <1>3, <1>4, <1>5, ThreadsOnlyInv DEF TypeOK

(* GetCall and GetEmpty take and give up the mutex. *)
LEMMA GetCallInv ==
    ASSUME Inv, NEW c \in Consumers, GetCall(c) \/ GetEmpty(c)
    PROVE  Inv'
  <1>1. /\ TypeOK /\ ThreadsOK /\ c \in Threads /\ pc[c] # "asleep"
        /\ mu = c \/ mu = NoThread
    BY DEF Inv, GetCall, GetEmpty, Getting, Threads
  <1>2. PICK at \in {"idle", "get"} :
          /\ Goto(c, at) /\ mu' = (IF at = "get" THEN c ELSE NoThread)
          /\ UNCHANGED <<policy, ring, counters, closed, conds, cur, status, delivered>>
    BY DEF GetCall, GetEmpty
  <1>3. ThreadStep(c, at)
    BY <1>1, <1>2, ThreadSteps DEF Places
  <1>4. ThreadsOK'
    BY <1>1, <1>2, <1>3, GetThreads
  <1>5. closed' \in BOOLEAN /\ mu' \in Threads \cup {NoThread} /\ pc' \in [Threads -> Places]
        /\ not_empty' \subseteq Consumers /\ not_full' \subseteq Producers
    BY <1>1, <1>2, <1>3 DEF TypeOK, ThreadStep, Places
  <1> QED
    BY <1>2, <1>4, <1>5, ThreadsOnlyInv

(* Relock: a woken thread has the mutex again. *)
LEMMA RelockInv ==
    ASSUME Inv, NEW t \in Threads, Relock(t)
    PROVE  Inv'
  <1> DEFINE at == IF t \in Producers THEN "put" ELSE "get"
  <1>1. TypeOK /\ ThreadsOK /\ pc[t] = "relock" /\ mu = NoThread
    BY DEF Inv, Relock
  <1>2. /\ mu' = t /\ Goto(t, at)
        /\ UNCHANGED <<policy, ring, counters, closed, conds, cur, status, delivered>>
    BY DEF Relock
  <1>3. at \in Places /\ at \in {"put", "get"}
    BY DEF Places, Threads
  <1>4. ThreadStep(t, at)
    BY <1>1, <1>2, <1>3, ThreadSteps
  <1>5. ThreadsOK'
    <2>1. cur \in [Producers -> Msgs \cup {NoMsg}]
      BY <1>1 DEF TypeOK
    <2>2. t \in Producers => /\ cur[t] # NoMsg /\ status[cur[t]] = "putting"
                             /\ \A q \in Producers : q # t => cur[q] # cur[t]
      BY <1>1 DEF ThreadsOK
    <2>3. (at = "get" => t \in Consumers) /\ (at \in {"put", "evict"} => t \in Producers)
      BY DEF Threads
    <2> QED
      BY <1>1, <1>2, <1>3, <1>4, <2>1, <2>2, <2>3, ThreadsOKStep
  <1>6. closed' \in BOOLEAN /\ mu' \in Threads \cup {NoThread} /\ pc' \in [Threads -> Places]
        /\ not_empty' \subseteq Consumers /\ not_full' \subseteq Producers
    BY <1>1, <1>2, <1>4 DEF TypeOK, ThreadStep, Places
  <1> QED
    BY <1>2, <1>5, <1>6, ThreadsOnlyInv

(* Unwait, KickConsumer and Close let a set of sleepers go. *)
LEMMA WakeInv ==
    ASSUME Inv, Close \/ KickConsumer \/ \E t \in Threads : Unwait(t)
    PROVE  Inv'
  <1>1. TypeOK /\ ThreadsOK
    BY DEF Inv
  <1>2. PICK ts \in SUBSET (not_empty \cup not_full) :
          /\ pc' = [u \in Threads |-> IF u \in ts THEN "relock" ELSE pc[u]]
          /\ not_empty' = not_empty \ ts /\ not_full' = not_full \ ts
    <2>1. CASE Close
      <3> DEFINE ts == not_empty \cup not_full
      <3>1. not_empty \ ts = {} /\ not_full \ ts = {}
        OBVIOUS
      <3>2. pc' = [u \in Threads |-> IF u \in ts THEN "relock" ELSE pc[u]]
        BY <2>1 DEF Close, Wake
      <3> QED
        BY <2>1, <3>1, <3>2 DEF Close
    <2>2. CASE KickConsumer
      <3>1. not_full \ not_empty = not_full
        BY <1>1, ThreadAssumption DEF TypeOK
      <3> QED
        BY <2>2, <3>1 DEF KickConsumer, Wake
    <2>3. ASSUME NEW t \in Threads, Unwait(t)
          PROVE  \E ts \in SUBSET (not_empty \cup not_full) :
                   /\ pc' = [u \in Threads |-> IF u \in ts THEN "relock" ELSE pc[u]]
                   /\ not_empty' = not_empty \ ts /\ not_full' = not_full \ ts
      <3>1. pc' = [u \in Threads |-> IF u \in {t} THEN "relock" ELSE pc[u]]
        BY <1>1, <2>3 DEF Unwait, Goto, TypeOK
      <3> QED
        BY <2>3, <3>1 DEF Unwait
    <2> QED
      BY <2>1, <2>2, <2>3
  <1>3. /\ UNCHANGED <<policy, mu, ring, counters, cur, status, delivered>>
        /\ closed' \in BOOLEAN
        /\ closed' # closed => mu = NoThread
    BY <1>1 DEF Close, KickConsumer, Unwait, TypeOK
  <1>4. pc' \in [Threads -> Places] /\ \A u \in Threads : pc'[u] = IF u \in ts THEN "relock" ELSE pc[u]
    BY <1>1, <1>2 DEF TypeOK, Places
  <1>5. \A u \in ts : u \in Threads /\ pc[u] = "asleep"
    BY <1>1, <1>2 DEF TypeOK, ThreadsOK, Threads
  <1>6. ThreadsOK'
    <2>1. /\ \A u \in Threads : pc'[u] \in {"put", "evict", "get"} <=> mu' = u
          /\ \A c \in Consumers : pc'[c] \notin {"put", "evict"}
          /\ \A p \in Producers : pc'[p] # "get"
      BY <1>1, <1>3, <1>4, <1>5 DEF ThreadsOK, Threads
    <2>2. \A p \in Producers : pc'[p] = "evict" => policy' = Overwrite /\ ~closed'
      BY <1>1, <1>3, <1>4, <1>5, ThreadAssumption DEF ThreadsOK, Threads
    <2>3. /\ \A p \in Producers : cur'[p] = NoMsg <=> pc'[p] = "idle"
          /\ \A p \in Producers : pc'[p] # "idle" => status'[cur'[p]] = "putting"
          /\ \A p, q \in Producers : cur'[p] = cur'[q] /\ pc'[p] # "idle" => p = q
      BY <1>1, <1>3, <1>4, <1>5 DEF ThreadsOK, Threads
    <2>4. /\ \A u \in not_empty' \cup not_full' : pc'[u] = "asleep"
          /\ policy' # Wait => not_full' = {}
      BY <1>1, <1>2, <1>3, <1>4 DEF ThreadsOK, Threads, TypeOK
    <2> QED
      BY <2>1, <2>2, <2>3, <2>4 DEF ThreadsOK
  <1> QED
    BY <1>1, <1>2, <1>3, <1>4, <1>6, ThreadsOnlyInv DEF TypeOK

-----------------------------------------------------------------------------
(* Every step keeps the invariant. *)
LEMMA InvStep ==
    ASSUME Inv, [Next]_vars
    PROVE  Inv'
  <1>1. ASSUME NEW p \in Producers, NEW m \in Msgs, PutCall(p, m)
        PROVE  Inv'
    BY <1>1, PutCallInv
  <1>2. ASSUME NEW p \in Producers, PutStep(p)
        PROVE  Inv'
    <2>1. p \in Threads
      BY DEF Threads
    <2> QED
      BY <1>2, <2>1, PutRefuseInv, PutPadInv, PutRecordInv, EvictOldestInv, EvictDoneInv,
         WaitInv DEF PutStep
  <1>3. ASSUME NEW c \in Consumers, GetCall(c) \/ GetStep(c)
        PROVE  Inv'
    <2>1. c \in Threads
      BY DEF Threads
    <2> QED
      BY <1>3, <2>1, GetCallInv, GetRecordInv, WaitInv DEF GetStep
  <1>4. ASSUME NEW t \in Threads, Relock(t)
        PROVE  Inv'
    BY <1>4, RelockInv
  <1>5. CASE Close \/ KickConsumer \/ \E t \in Threads : Unwait(t)
    BY <1>5, WakeInv
  <1>6. CASE UNCHANGED vars
    <2>1. UNCHANGED <<policy, mu, ring, counters, closed, not_empty, not_full, pc, cur,
                      status, delivered>>
      BY <1>6 DEF vars, conds
    <2>2. RingShape' /\ NothingLost'
      BY <2>1, RingUnchanged DEF Inv, RingShape
    <2>3. TypeOK' /\ ThreadsOK'
      BY <2>1 DEF Inv, TypeOK, ThreadsOK, ring, counters
    <2> QED
      BY <2>2, <2>3 DEF Inv, RingShape
  <1> QED
    BY <1>1, <1>2, <1>3, <1>4, <1>5, <1>6 DEF Next

(* A fresh ring satisfies it. *)
LEMMA InvInit == Init => Inv
  <1> SUFFICES ASSUME Init
               PROVE  Inv
    OBVIOUS
  <1>1. TypeOK
    <2>1. buf \in [Offsets -> Headers]
      BY DEF Init, Headers, Blank
    <2>2. delivered \in Seq(Msgs)
      BY DEF Init
    <2> QED
      BY <2>1, <2>2 DEF Init, TypeOK, Statuses
  <1>2. ThreadsOK
    BY ThreadAssumption DEF Init, ThreadsOK, Threads
  <1>3. Live = {} /\ UnreadAt = {}
    BY DEF Init, Live, UnreadAt
  <1>4. RingChain /\ LiveHeaders /\ RecordsIntact /\ NothingLost
    BY <1>3, SizeAssumption DEF Init, RingChain, LiveHeaders, RecordsIntact, NothingLost
  <1>5. WrittenBefore
    BY DEF Init, WrittenBefore, Blank
  <1>6. PadFits
    <2>1. Off(0) = 0
      BY SizeAssumption DEF Off
    <2> QED
      BY <2>1, SizeAssumption DEF Init, PadFits, contig
  <1> QED
    BY <1>1, <1>2, <1>4, <1>5, <1>6 DEF Inv

(* The invariant holds in every reachable state of the locked ring.        *)
THEOREM InvariantHolds == SafetySpec => []Inv
  <1>1. Init => Inv
    BY InvInit
  <1>2. Inv /\ [Next]_vars => Inv'
    BY InvStep
  <1> QED
    BY <1>1, <1>2, PTL DEF SafetySpec

(* The state of the ring is always well typed. *)
THEOREM TypeCorrect == SafetySpec => []TypeOK
  BY InvariantHolds, PTL DEF Inv

(* Whatever the sizes and the schedule, the read cursor walks from header  *)
(* to header up to the write cursor, and write_pad never leaves memory.    *)
THEOREM ChainNeverBreaks == SafetySpec => [](RingChain /\ PadFits)
  BY InvariantHolds, PTL DEF Inv

(* No unread record is ever clobbered, none is lost and none duplicated.   *)
THEOREM NoRecordLost == SafetySpec => [](RecordsIntact /\ NothingLost)
  BY InvariantHolds, PTL DEF Inv

-----------------------------------------------------------------------------
(* The ring as a queue: removing and adding at the ends of an ordered set. *)

(* Every rank below the size of S is taken. *)
Ranked(S) ==
    \A i \in 1 .. Cardinality(S) : \E p \in S : Cardinality(Before(S, p)) = i - 1

(* A set of positions. *)
Positions(S) == S \subseteq Nat /\ IsFiniteSet(S) /\ Ranked(S)

(* How many positions come before one is a number. *)
LEMMA RankIsNat ==
    ASSUME NEW S, IsFiniteSet(S), NEW p
    PROVE  /\ IsFiniteSet(Before(S, p))
           /\ Cardinality(Before(S, p)) \in Nat
           /\ Cardinality(S) \in Nat
  <1>1. Before(S, p) \in SUBSET S
    BY DEF Before
  <1>2. IsFiniteSet(Before(S, p))
    BY <1>1, FS_Subset
  <1> QED
    BY <1>2, FS_CardinalityType

(* A position after all others comes last and leaves the others in place.  *)
LEMMA AppendRank ==
    ASSUME NEW S, Positions(S), NEW t \in Nat, \A q \in S : q < t
    PROVE  LET T == S \cup {t}
           IN  /\ Positions(T)
               /\ Cardinality(T) = Cardinality(S) + 1
               /\ \A i \in 1 .. Cardinality(S) : Nth(T, i) = Nth(S, i) /\ Nth(S, i) \in S
               /\ Nth(T, Cardinality(S) + 1) = t
  <1> DEFINE T == S \cup {t}
             n == Cardinality(S)
  <1>1. S \subseteq Nat /\ IsFiniteSet(S) /\ Ranked(S) /\ n \in Nat
    BY FS_CardinalityType DEF Positions
  <1>2. t \notin S
    BY <1>1
  <1>3. IsFiniteSet(T) /\ Cardinality(T) = n + 1 /\ T \subseteq Nat
    BY <1>1, <1>2, FS_AddElement
  <1>4. Before(T, t) = S
    <2>1. ~(t < t)
      OBVIOUS
    <2> QED
      BY <2>1 DEF Before
  <1>5. \A p \in S : Before(T, p) = Before(S, p)
    BY <1>1 DEF Before
  <1> HIDE DEF T
  <1>6. \A i \in 1 .. n : {p \in T : Cardinality(Before(T, p)) = i - 1}
                            = {p \in S : Cardinality(Before(S, p)) = i - 1}
    <2> TAKE i \in 1 .. n
    <2>1. Cardinality(Before(T, t)) # i - 1
      BY <1>1, <1>4
    <2> QED
      BY <1>5, <2>1 DEF T
  <1>7. ASSUME NEW i \in 1 .. n
        PROVE  Nth(T, i) = Nth(S, i) /\ Nth(S, i) \in S
    <2>1. Nth(T, i) = CHOOSE p : p \in {r \in T : Cardinality(Before(T, r)) = i - 1}
      BY Zenon DEF Nth
    <2>2. Nth(S, i) = CHOOSE p : p \in {r \in S : Cardinality(Before(S, r)) = i - 1}
      BY Zenon DEF Nth
    <2>3. \E p \in S : Cardinality(Before(S, p)) = i - 1
      BY <1>1, <1>7 DEF Ranked
    <2>4. Nth(S, i) \in S
      BY <2>3, Zenon DEF Nth
    <2>5. Nth(T, i) = Nth(S, i)
      BY <1>6, <2>1, <2>2
    <2> QED
      BY <2>4, <2>5
  <1>8. Nth(T, n + 1) = t
    <2>1. \A p \in T : Cardinality(Before(T, p)) = n => p = t
      <3> SUFFICES ASSUME NEW p \in S, Cardinality(Before(S, p)) = n
                   PROVE  FALSE
        BY <1>5 DEF T
      <3>1. Before(S, p) \in SUBSET S /\ p \notin Before(S, p)
        BY <1>1 DEF Before
      <3>2. Before(S, p) = S
        BY <1>1, <3>1, FS_Subset
      <3> QED
        BY <3>1, <3>2
    <2>2. t \in T /\ Cardinality(Before(T, t)) = n
      BY <1>4 DEF T
    <2>3. (n + 1) - 1 = n
      BY <1>1
    <2> QED
      BY <2>1, <2>2, <2>3, Zenon DEF Nth
  <1>9. Ranked(T)
    <2> SUFFICES ASSUME NEW i \in 1 .. n + 1
                 PROVE  \E p \in T : Cardinality(Before(T, p)) = i - 1
      BY <1>3 DEF Ranked
    <2>1. CASE i = n + 1
      BY <1>1, <1>4, <2>1 DEF T
    <2>2. CASE i \in 1 .. n
      <3>1. \E p \in S : Cardinality(Before(S, p)) = i - 1
        BY <1>1, <2>2 DEF Ranked
      <3> QED
        BY <1>5, <3>1 DEF T
    <2> QED
      BY <1>1, <2>1, <2>2
  <1> QED
    BY <1>3, <1>7, <1>8, <1>9 DEF Positions, T

(* Removing the first position moves every other one place forward. *)
LEMMA RemoveRank ==
    ASSUME NEW S, Positions(S), NEW h \in S, \A q \in S : h <= q
    PROVE  LET T == S \ {h}
           IN  /\ Positions(T)
               /\ Cardinality(S) \in Nat \ {0}
               /\ Cardinality(T) = Cardinality(S) - 1
               /\ Nth(S, 1) = h
               /\ \A i \in 1 .. Cardinality(T) : Nth(T, i) = Nth(S, i + 1)
  <1> DEFINE T == S \ {h}
             n == Cardinality(S)
  <1>1. S \subseteq Nat /\ IsFiniteSet(S) /\ Ranked(S) /\ n \in Nat
    BY FS_CardinalityType DEF Positions
  <1>2. n # 0
    BY <1>1, FS_EmptySet
  <1>3. IsFiniteSet(T) /\ Cardinality(T) = n - 1 /\ T \subseteq Nat
    BY <1>1, FS_RemoveElement
  <1>4. Before(S, h) = {} /\ Cardinality(Before(S, h)) = 0
    <2>1. \A q \in S : ~(q < h)
      BY <1>1
    <2>2. Before(S, h) = {}
      BY <2>1 DEF Before
    <2> QED
      BY <2>2, FS_EmptySet
  <1>5. ASSUME NEW p \in T
        PROVE  /\ Cardinality(Before(S, p)) \in Nat
               /\ Cardinality(Before(S, p)) # 0
               /\ Cardinality(Before(T, p)) = Cardinality(Before(S, p)) - 1
    <2>1. h \in Before(S, p) /\ Before(T, p) = Before(S, p) \ {h}
      <3>1. p \in Nat /\ h \in Nat /\ p # h /\ h <= p
        BY <1>1
      <3>2. h < p
        BY <3>1
      <3> QED
        BY <3>2 DEF Before
    <2>2. IsFiniteSet(Before(S, p)) /\ Cardinality(Before(S, p)) \in Nat
      BY <1>1, RankIsNat
    <2>3. Cardinality(Before(S, p)) # 0
      BY <2>1, <2>2, FS_EmptySet
    <2> QED
      BY <2>1, <2>2, <2>3, FS_RemoveElement
  <1> HIDE DEF T
  <1>6. Nth(S, 1) = h
    <2>1. \A p \in S : Cardinality(Before(S, p)) = 0 => p = h
      BY <1>5 DEF T
    <2>2. 1 - 1 = 0
      OBVIOUS
    <2> QED
      BY <1>4, <2>1, <2>2, Zenon DEF Nth
  <1>7. ASSUME NEW i \in 1 .. n - 1
        PROVE  Nth(T, i) = Nth(S, i + 1)
    <2>1. \A p \in T : Cardinality(Before(T, p)) = i - 1 <=> Cardinality(Before(S, p)) = (i + 1) - 1
      BY <1>1, <1>5
    <2>2. Cardinality(Before(S, h)) # (i + 1) - 1
      BY <1>4
    <2>3. {r \in T : Cardinality(Before(T, r)) = i - 1}
            = {r \in S : Cardinality(Before(S, r)) = (i + 1) - 1}
      BY <2>1, <2>2 DEF T
    <2>4. Nth(T, i) = CHOOSE p : p \in {r \in T : Cardinality(Before(T, r)) = i - 1}
      BY Zenon DEF Nth
    <2>5. Nth(S, i + 1) = CHOOSE p : p \in {r \in S : Cardinality(Before(S, r)) = (i + 1) - 1}
      BY Zenon DEF Nth
    <2> QED
      BY <2>3, <2>4, <2>5
  <1>8. Ranked(T)
    <2> SUFFICES ASSUME NEW i \in 1 .. n - 1
                 PROVE  \E p \in T : Cardinality(Before(T, p)) = i - 1
      BY <1>3 DEF Ranked
    <2>1. i + 1 \in 1 .. n /\ (i + 1) - 1 = i
      BY <1>1
    <2>2. PICK p \in S : Cardinality(Before(S, p)) = i
      BY <1>1, <2>1 DEF Ranked
    <2>3. p \in T
      BY <1>4, <2>2 DEF T
    <2> QED
      BY <1>5, <2>2, <2>3
  <1> QED
    BY <1>1, <1>2, <1>3, <1>6, <1>7, <1>8 DEF Positions, T

(* Pads end at the boundary, and are shorter than half the memory, since   *)
(* they are written where a record does not fit.                           *)
PadsShort ==
    \A p \in Live : HeaderAt(p).pad =>
        /\ Off(p) + HeaderAt(p).total_len = Capacity
        /\ 2 * HeaderAt(p).total_len < Capacity

QueueInv == Ranked(UnreadAt) /\ PadsShort

(* The unread positions are positions, and the queue is a sequence.        *)
LEMMA QueueFacts ==
    ASSUME Inv, QueueInv
    PROVE  /\ Positions(UnreadAt)
           /\ Cardinality(UnreadAt) \in Nat
           /\ \A i \in 1 .. Cardinality(UnreadAt) : Nth(UnreadAt, i) \in UnreadAt
           /\ Unread \in Seq(Msgs)
           /\ Len(Unread) = Cardinality(UnreadAt)
           /\ \A q \in UnreadAt : q \in Nat /\ head <= q /\ q < tail /\ HeaderAt(q).msg \in Msgs
  <1>1. TypeOK /\ RingShape
    BY DEF Inv, RingShape
  <1>2. \A q \in UnreadAt : q \in Nat /\ head <= q /\ q < tail /\ HeaderAt(q).msg \in Msgs
    BY <1>1, LiveFacts DEF UnreadAt, RingShape, LiveHeaders
  <1>3. Positions(UnreadAt)
    <2>1. head \in Int /\ tail - 1 \in Int
      BY <1>1 DEF TypeOK
    <2>2. IsFiniteSet(head .. tail - 1)
      BY <2>1, FS_Interval
    <2>3. UnreadAt \in SUBSET (head .. tail - 1)
      BY DEF UnreadAt, Live
    <2>4. IsFiniteSet(UnreadAt)
      BY <2>2, <2>3, FS_Subset
    <2> QED
      BY <1>2, <2>4 DEF Positions, QueueInv
  <1>4. Cardinality(UnreadAt) \in Nat
    BY <1>3, FS_CardinalityType DEF Positions
  <1>5. ASSUME NEW i \in 1 .. Cardinality(UnreadAt)
        PROVE  Nth(UnreadAt, i) \in UnreadAt
    <2>1. \E p \in UnreadAt : Cardinality(Before(UnreadAt, p)) = i - 1
      BY <1>5 DEF QueueInv, Ranked
    <2> QED
      BY <2>1, Zenon DEF Nth
  <1>6. Unread \in [1 .. Cardinality(UnreadAt) -> Msgs]
    BY <1>2, <1>5 DEF Unread
  <1>7. Unread \in Seq(Msgs) /\ Len(Unread) = Cardinality(UnreadAt)
    BY <1>4, <1>6
  <1> QED
    BY <1>2, <1>3, <1>4, <1>5, <1>7

(* What leaves the ring alone leaves the queue alone.                      *)
LEMMA QueueUnchanged ==
    ASSUME QueueInv, UNCHANGED ring
    PROVE  Unread' = Unread /\ QueueInv'
  <1>1. buf' = buf /\ head' = head /\ tail' = tail
    BY DEF ring
  <1>2. Live' = Live /\ \A p : HeaderAt(p)' = HeaderAt(p)
    BY <1>1 DEF Live, HeaderAt
  <1>3. UnreadAt' = UnreadAt
    BY <1>2 DEF UnreadAt
  <1>4. Unread' = Unread
    BY <1>2, <1>3 DEF Unread
  <1> QED
    BY <1>2, <1>3, <1>4 DEF QueueInv, PadsShort

(* Appending, element by element. *)
LEMMA AppendIs ==
    ASSUME NEW S, NEW s \in Seq(S), NEW e \in S, NEW n \in Nat, n = Len(s)
    PROVE  Append(s, e) = [i \in 1 .. n + 1 |-> IF i <= n THEN s[i] ELSE e]
  <1>1. /\ Append(s, e) \in Seq(S) /\ Len(Append(s, e)) = n + 1
        /\ \A i \in 1 .. n + 1 : Append(s, e)[i] = IF i <= n THEN s[i] ELSE e
    OBVIOUS
  <1>2. Append(s, e) = [i \in 1 .. Len(Append(s, e)) |-> Append(s, e)[i]]
    <2>1. Append(s, e) \in [1 .. Len(Append(s, e)) -> S]
      BY <1>1, LenProperties
    <2> QED
      BY <2>1
  <1> QED
    BY <1>1, <1>2

(* Removing, element by element. *)
LEMMA TailIs ==
    ASSUME NEW S, NEW s \in Seq(S), NEW n \in Nat \ {0}, n = Len(s)
    PROVE  s # <<>> /\ Tail(s) = [i \in 1 .. n - 1 |-> s[i + 1]]
  <1>1. s # <<>>
    OBVIOUS
  <1>2. /\ Tail(s) \in Seq(S) /\ Len(Tail(s)) = n - 1
        /\ \A i \in 1 .. n - 1 : Tail(s)[i] = s[i + 1]
    BY <1>1
  <1>3. Tail(s) = [i \in 1 .. Len(Tail(s)) |-> Tail(s)[i]]
    <2>1. Tail(s) \in [1 .. Len(Tail(s)) -> S]
      BY <1>2, LenProperties
    <2> QED
      BY <2>1
  <1> QED
    BY <1>1, <1>2, <1>3

(* A record written at the tail is the last of the queue.                  *)
LEMMA QueueAppended ==
    ASSUME Inv, QueueInv, NEW m \in Msgs,
           UnreadAt' = UnreadAt \cup {tail},
           buf'[Off(tail)].msg = m,
           \A q \in UnreadAt : buf'[Off(q)] = buf[Off(q)]
    PROVE  Unread' = Append(Unread, m) /\ Ranked(UnreadAt')
  <1> DEFINE n == Cardinality(UnreadAt)
             T == UnreadAt \cup {tail}
  <1>1. /\ Positions(UnreadAt) /\ n \in Nat
        /\ \A i \in 1 .. n : Nth(UnreadAt, i) \in UnreadAt
        /\ Unread \in Seq(Msgs) /\ Len(Unread) = n
        /\ \A q \in UnreadAt : q < tail
    BY QueueFacts
  <1>2. tail \in Nat
    BY DEF Inv, TypeOK
  <1>3. /\ Positions(T)
        /\ Cardinality(T) = n + 1
        /\ \A i \in 1 .. n : Nth(T, i) = Nth(UnreadAt, i)
        /\ Nth(T, n + 1) = tail
    BY <1>1, <1>2, AppendRank
  <1>4. Unread' = [i \in 1 .. Cardinality(T) |-> buf'[Off(Nth(T, i))].msg]
    BY Zenon DEF Unread, HeaderAt
  <1>5. \A i \in 1 .. n : Unread[i] = buf[Off(Nth(UnreadAt, i))].msg
    BY DEF Unread, HeaderAt
  <1> HIDE DEF T, n
  <1>6. Unread' = [i \in 1 .. n + 1 |-> IF i <= n THEN Unread[i] ELSE m]
    <2>1. \A i \in 1 .. n : buf'[Off(Nth(T, i))].msg = Unread[i]
      BY <1>1, <1>3, <1>5
    <2>2. buf'[Off(Nth(T, n + 1))].msg = m
      BY <1>3
    <2>3. \A i \in 1 .. n + 1 : buf'[Off(Nth(T, i))].msg = IF i <= n THEN Unread[i] ELSE m
      BY <1>1, <2>1, <2>2
    <2> QED
      BY <1>3, <1>4, <2>3
  <1>7. Unread' = Append(Unread, m)
    <2>1. Append(Unread, m) = [i \in 1 .. n + 1 |-> IF i <= n THEN Unread[i] ELSE m]
      BY <1>1, AppendIs
    <2> QED
      BY <1>6, <2>1
  <1> QED
    BY <1>3, <1>7 DEF Positions, T

(* The record at the head is the first of the queue, and the rest follows  *)
(* when it is gone.                                                        *)
LEMMA QueueRemoved ==
    ASSUME Inv, QueueInv, head \in UnreadAt,
           UnreadAt' = UnreadAt \ {head}, buf' = buf
    PROVE  /\ Unread # <<>>
           /\ Head(Unread) = HeaderAt(head).msg
           /\ Unread' = Tail(Unread)
           /\ Ranked(UnreadAt')
  <1> DEFINE n == Cardinality(UnreadAt)
             T == UnreadAt \ {head}
  <1>1. /\ Positions(UnreadAt) /\ n \in Nat
        /\ Unread \in Seq(Msgs) /\ Len(Unread) = n
        /\ \A q \in UnreadAt : head <= q
    BY QueueFacts
  <1>2. /\ Positions(T)
        /\ n # 0 /\ Cardinality(T) = n - 1
        /\ Nth(UnreadAt, 1) = head
        /\ \A i \in 1 .. n - 1 : Nth(T, i) = Nth(UnreadAt, i + 1)
    BY <1>1, RemoveRank
  <1>3. Unread' = [i \in 1 .. Cardinality(T) |-> buf[Off(Nth(T, i))].msg]
    BY Zenon DEF Unread, HeaderAt
  <1>4. \A i \in 1 .. n : Unread[i] = buf[Off(Nth(UnreadAt, i))].msg
    BY DEF Unread, HeaderAt
  <1>5. HeaderAt(head).msg = buf[Off(head)].msg
    BY DEF HeaderAt
  <1> HIDE DEF T, n
  <1>6. Unread' = [i \in 1 .. n - 1 |-> Unread[i + 1]]
    <2>1. \A i \in 1 .. n - 1 : buf[Off(Nth(T, i))].msg = Unread[i + 1]
      BY <1>1, <1>2, <1>4
    <2> QED
      BY <1>2, <1>3, <2>1
  <1>7. Unread # <<>> /\ Unread' = Tail(Unread)
    <2>1. Unread # <<>> /\ Tail(Unread) = [i \in 1 .. n - 1 |-> Unread[i + 1]]
      BY <1>1, <1>2, TailIs
    <2> QED
      BY <1>6, <2>1
  <1>8. Head(Unread) = HeaderAt(head).msg
    BY <1>1, <1>2, <1>4, <1>5
  <1> QED
    BY <1>2, <1>7, <1>8 DEF Positions, T

(* With no record unread, nothing but one pad may be in the ring, and      *)
(* behind it every record fits.                                            *)
LEMMA EmptyRingFits ==
    ASSUME Inv, QueueInv, NEW p \in Producers, mu = p, Full(p)
    PROVE  UnreadAt # {}
  <1> SUFFICES ASSUME UnreadAt = {}
               PROVE  FALSE
    OBVIOUS
  <1> DEFINE len == RecordLen[cur[p]]
  <1>1. TypeOK /\ ThreadsOK /\ RingShape
    BY DEF Inv, RingShape
  <1>2. len \in Nat \ {0} /\ 2 * len <= Capacity
    BY <1>1, PuttingFacts, SizeAssumption
  <1>3. /\ head \in Nat /\ tail \in Nat /\ Capacity \in Nat /\ contig \in 1 .. Capacity
        /\ Off(tail) \in Nat /\ contig = Capacity - Off(tail)
    BY <1>1, CursorFacts, OffFacts DEF contig, Offsets
  <1>4. /\ ~(contig < len /\ Capacity - (tail - head) >= contig)
        /\ ~(contig >= len /\ Capacity - (tail - head) >= len)
    BY DEF Full, PadFirst, Fits, free_bytes, used
  <1> HIDE DEF len
  <1>5. head # tail
    BY <1>2, <1>3, <1>4
  <1>6. head \in Live /\ HeaderAt(head).pad
    BY <1>1, <1>5 DEF RingShape, RingChain, UnreadAt
  <1>7. /\ HeaderAt(head).total_len \in Nat \ {0}
        /\ Off(head) + HeaderAt(head).total_len = Capacity
        /\ 2 * HeaderAt(head).total_len < Capacity
    BY <1>1, <1>6, LiveFacts DEF QueueInv, PadsShort
  <1>8. EndOf(head) = head + HeaderAt(head).total_len /\ EndOf(head) \in Nat
    BY <1>3, <1>7 DEF EndOf
  <1>9. Off(EndOf(head)) = 0
    BY <1>3, <1>7, <1>8, OffFacts
  <1>10. EndOf(head) = tail
    <2> SUFFICES ASSUME EndOf(head) \in Live
                 PROVE  FALSE
      BY <1>1, <1>6 DEF RingShape, RingChain
    <2> DEFINE q == EndOf(head)
    <2>1. HeaderAt(q).pad
      BY DEF UnreadAt
    <2>2. Off(q) + HeaderAt(q).total_len = Capacity /\ 2 * HeaderAt(q).total_len < Capacity
      BY <2>1 DEF QueueInv, PadsShort
    <2>3. HeaderAt(q).total_len \in Nat
      BY <1>1, LiveFacts
    <2> HIDE DEF q
    <2>4. Off(q) = 0
      BY <1>9 DEF q
    <2> QED
      BY <1>3, <2>2, <2>3, <2>4
  <1> QED
    BY <1>2, <1>3, <1>4, <1>7, <1>8, <1>9, <1>10

(* A step of the contract, or none of its business. *)
ContractStep == [Contract!Next]_(Contract!vars)

(* Steps that neither touch the ring nor what the contract counts.         *)
LEMMA NotOfTheContract ==
    ASSUME QueueInv, UNCHANGED <<policy, ring, counters, closed, delivered>>
    PROVE  QueueInv' /\ ContractStep
  <1>1. Unread' = Unread /\ QueueInv'
    BY QueueUnchanged
  <1> QED
    BY <1>1 DEF ContractStep, Contract!vars, counters

(* PutRecord is an Enqueue. *)
LEMMA PutRecordKeeps ==
    ASSUME Inv, QueueInv, NEW p \in Producers, PutRecord(p)
    PROVE  QueueInv' /\ ContractStep
  <1> DEFINE m == cur[p]
             L == ExtendedLen(m)
             image == [pos |-> tail, total_len |-> L, pad |-> FALSE, msg |-> m]
  <1>1. TypeOK /\ ThreadsOK /\ RingShape /\ mu = p
    BY DEF Inv, RingShape, PutRecord, Putting
  <1>2. m \in Msgs /\ RecordLen[m] \in Nat \ {0} /\ MinPad <= RecordLen[m]
    BY <1>1, PuttingFacts
  <1>3. /\ L \in Nat /\ RecordLen[m] <= L
        /\ L = contig \/ L + MinPad <= contig
        /\ tail + L <= head + Capacity
    BY <1>1, <1>2, ExtensionIsFree DEF PutRecord, Fits
  <1>4. head \in Nat /\ tail \in Nat /\ contig \in 1 .. Capacity /\ MinPad \in Nat \ {0}
    BY <1>1, CursorFacts
  <1>5. /\ buf' = Store(Off(tail), RecordLen[m], image)
        /\ tail' = tail + L /\ head' = head
        /\ UNCHANGED <<policy, counters, closed, delivered>>
    BY DEF PutRecord, write_record
  <1>6. image \in Headers /\ image.pos = tail /\ image.total_len = L
        /\ ~image.pad /\ image.msg = m
    BY <1>2, <1>3, <1>4 DEF Headers
  <1>7. L <= contig
    BY <1>2, <1>3, <1>4
  <1> HIDE DEF L, image
  <1>8. /\ Live' = Live \cup {tail}
        /\ \A q \in {tail} : HeaderAt(q)' = image
        /\ \A q \in Live : HeaderAt(q)' = HeaderAt(q)
    BY <1>1, <1>2, <1>3, <1>5, <1>6, <1>7, AppendLive
  <1>9. UnreadAt' = UnreadAt \cup {tail}
    BY <1>6, <1>8 DEF UnreadAt
  <1>10. buf'[Off(tail)] = image /\ \A q \in UnreadAt : buf'[Off(q)] = buf[Off(q)]
    BY <1>8 DEF HeaderAt, UnreadAt
  <1>11. Unread' = Append(Unread, m) /\ Ranked(UnreadAt')
    BY <1>2, <1>6, <1>9, <1>10, QueueAppended
  <1>12. PadsShort'
    BY <1>6, <1>8 DEF PadsShort, QueueInv
  <1>13. Contract!Enqueue(m)
    BY <1>5, <1>11 DEF Contract!Enqueue, counters
  <1> HIDE DEF m
  <1> QED
    BY <1>2, <1>11, <1>12, <1>13 DEF QueueInv, ContractStep, Contract!Next

(* PutPad is invisible. *)
LEMMA PutPadKeeps ==
    ASSUME Inv, QueueInv, NEW p \in Producers, PutPad(p)
    PROVE  QueueInv' /\ ContractStep
  <1> DEFINE image == [pos |-> tail, total_len |-> contig, pad |-> TRUE, msg |-> NoMsg]
  <1>1. TypeOK /\ ThreadsOK /\ RingShape /\ mu = p
    BY DEF Inv, RingShape, PutPad, Putting
  <1>2. /\ head \in Nat /\ tail \in Nat /\ contig \in 1 .. Capacity /\ Capacity \in Nat
        /\ MinPad \in Nat \ {0} /\ MinPad <= contig
        /\ Off(tail) \in Nat /\ contig = Capacity - Off(tail)
    BY <1>1, CursorFacts, OffFacts DEF RingShape, PadFits, contig, Offsets
  <1>3. /\ buf' = Store(Off(tail), MinPad, image)
        /\ tail' = tail + contig /\ head' = head
        /\ UNCHANGED <<policy, counters, closed, delivered>>
    BY DEF PutPad, write_pad
  <1>4. tail + contig <= head + Capacity
    BY <1>2 DEF PutPad, PadFirst, free_bytes, used
  <1>5. image \in Headers /\ image.pos = tail /\ image.total_len = contig /\ image.pad
    BY <1>2 DEF Headers
  <1> HIDE DEF image
  <1>6. /\ Live' = Live \cup {tail}
        /\ \A q \in {tail} : HeaderAt(q)' = image
        /\ \A q \in Live : HeaderAt(q)' = HeaderAt(q)
    BY <1>1, <1>2, <1>3, <1>4, <1>5, AppendLive
  <1>7. UnreadAt' = UnreadAt
    BY <1>5, <1>6 DEF UnreadAt
  <1>8. Unread' = Unread
    <2>1. \A q \in UnreadAt : buf'[Off(q)] = buf[Off(q)]
      BY <1>6 DEF HeaderAt, UnreadAt
    <2>2. \A i \in 1 .. Cardinality(UnreadAt) : Nth(UnreadAt, i) \in UnreadAt
      BY QueueFacts
    <2> QED
      BY <1>7, <2>1, <2>2 DEF Unread, HeaderAt
  <1>9. 2 * contig < Capacity
    <2>1. 2 * RecordLen[cur[p]] <= Capacity /\ RecordLen[cur[p]] \in Nat
      BY <1>1, PuttingFacts, SizeAssumption
    <2>2. contig < RecordLen[cur[p]]
      BY DEF PutPad, PadFirst
    <2> QED
      BY <1>2, <2>1, <2>2
  <1>10. PadsShort'
    <2> SUFFICES ASSUME NEW q \in Live', HeaderAt(q)'.pad
                 PROVE  /\ Off(q) + HeaderAt(q)'.total_len = Capacity
                        /\ 2 * HeaderAt(q)'.total_len < Capacity
      BY DEF PadsShort
    <2>1. CASE q \in Live
      BY <1>6, <2>1 DEF QueueInv, PadsShort
    <2>2. CASE q = tail
      BY <1>2, <1>5, <1>6, <1>9, <2>2
    <2> QED
      BY <1>6, <2>1, <2>2
  <1> QED
    BY <1>3, <1>7, <1>8, <1>10 DEF QueueInv, ContractStep, Contract!vars, counters

(* What advancing the head does to the queue. *)
LEMMA QueueAdvanced ==
    ASSUME Inv, QueueInv, head # tail,
           head' = head + HeaderAt(head).total_len, tail' = tail, buf' = buf
    PROVE  /\ HeaderAt(head).pad => Unread' = Unread
           /\ ~HeaderAt(head).pad => /\ Unread # <<>>
                                     /\ Head(Unread) = HeaderAt(head).msg
                                     /\ Unread' = Tail(Unread)
           /\ QueueInv'
  <1>1. head \in Live /\ Live' = Live \ {head}
    BY AdvanceShape DEF Inv, RingShape
  <1>2. \A q : HeaderAt(q)' = HeaderAt(q)
    BY DEF HeaderAt
  <1>3. UnreadAt' = UnreadAt \ {head}
    BY <1>1, <1>2 DEF UnreadAt
  <1>4. PadsShort'
    BY <1>1, <1>2 DEF QueueInv, PadsShort
  <1>5. CASE HeaderAt(head).pad
    <2>1. UnreadAt' = UnreadAt
      BY <1>3, <1>5 DEF UnreadAt
    <2>2. Unread' = Unread
      BY <1>2, <2>1 DEF Unread
    <2> QED
      BY <1>4, <1>5, <2>1, <2>2 DEF QueueInv
  <1>6. CASE ~HeaderAt(head).pad
    <2>1. head \in UnreadAt
      BY <1>1, <1>6 DEF UnreadAt
    <2> QED
      BY <1>3, <1>4, <1>6, <2>1, QueueRemoved DEF QueueInv
  <1> QED
    BY <1>5, <1>6

(* EvictOldest is an Evict, unless it removes a pad. *)
LEMMA EvictOldestKeeps ==
    ASSUME Inv, QueueInv, NEW p \in Producers, EvictOldest(p)
    PROVE  QueueInv' /\ ContractStep
  <1>1. TypeOK /\ ThreadsOK /\ mu = p
    BY DEF Inv, EvictOldest
  <1>2. /\ head' = head + HeaderAt(head).total_len /\ tail' = tail /\ buf' = buf
        /\ overwritten' = IF HeaderAt(head).pad THEN overwritten ELSE overwritten + 1
        /\ UNCHANGED <<policy, dropped, closed, delivered>>
    BY DEF EvictOldest
  <1>3. head # tail
    <2>1. /\ 2 * RecordLen[cur[p]] <= Capacity /\ Capacity \in Nat
          /\ RecordLen[cur[p]] \in Nat \ {0}
      BY <1>1, PuttingFacts, SizeAssumption
    <2>2. free_bytes < RecordLen[cur[p]] /\ head \in Nat /\ tail \in Nat
      BY <1>1 DEF EvictOldest, TypeOK
    <2> QED
      BY <2>1, <2>2 DEF free_bytes, used
  <1>4. policy = Overwrite
    BY <1>1 DEF EvictOldest, ThreadsOK
  <1>5. /\ HeaderAt(head).pad => Unread' = Unread
        /\ ~HeaderAt(head).pad => Unread # <<>> /\ Unread' = Tail(Unread)
        /\ QueueInv'
    BY <1>2, <1>3, QueueAdvanced
  <1>6. CASE HeaderAt(head).pad
    BY <1>2, <1>5, <1>6 DEF ContractStep, Contract!vars
  <1>7. CASE ~HeaderAt(head).pad
    <2>1. Contract!Evict
      BY <1>2, <1>4, <1>5, <1>7 DEF Contract!Evict
    <2> QED
      BY <1>5, <2>1 DEF ContractStep, Contract!Next
  <1> QED
    BY <1>6, <1>7

(* GetRecord is a Dequeue, GetSkipPad is invisible. *)
LEMMA GetKeeps ==
    ASSUME Inv, QueueInv, NEW c \in Consumers, GetRecord(c) \/ GetSkipPad(c)
    PROVE  QueueInv' /\ ContractStep
  <1> DEFINE h == HeaderAt(head)
  <1>1. /\ head # tail
        /\ head' = head + h.total_len /\ tail' = tail /\ buf' = buf
        /\ delivered' = IF h.pad THEN delivered ELSE Append(delivered, h.msg)
        /\ UNCHANGED <<policy, dropped, overwritten, closed>>
    BY DEF GetRecord, GetSkipPad, counters
  <1>2. /\ h.pad => Unread' = Unread
        /\ ~h.pad => Unread # <<>> /\ Head(Unread) = h.msg /\ Unread' = Tail(Unread)
        /\ QueueInv'
    BY <1>1, QueueAdvanced
  <1>3. CASE h.pad
    BY <1>1, <1>2, <1>3 DEF ContractStep, Contract!vars
  <1>4. CASE ~h.pad
    <2>1. Contract!Dequeue
      BY <1>1, <1>2, <1>4 DEF Contract!Dequeue
    <2> QED
      BY <1>2, <2>1 DEF ContractStep, Contract!Next
  <1> QED
    BY <1>3, <1>4

(* PutRefuse is a Refuse: the ring is closed, or holds a record. *)
LEMMA PutRefuseKeeps ==
    ASSUME Inv, QueueInv, NEW p \in Producers, PutRefuse(p)
    PROVE  QueueInv' /\ ContractStep
  <1>1. /\ dropped' = dropped + 1
        /\ UNCHANGED <<policy, ring, overwritten, closed, delivered>>
        /\ mu = p
    BY DEF PutRefuse, Putting
  <1>2. Unread' = Unread /\ QueueInv'
    BY <1>1, QueueUnchanged
  <1>3. closed \/ (policy = Discard /\ Unread # <<>>)
    <2> SUFFICES ASSUME ~closed
                 PROVE  policy = Discard /\ Unread # <<>>
      OBVIOUS
    <2>1. policy = Discard /\ Full(p)
      BY DEF PutRefuse
    <2>2. UnreadAt # {}
      BY <1>1, <2>1, EmptyRingFits
    <2>3. /\ IsFiniteSet(UnreadAt)
          /\ Unread \in Seq(Msgs) /\ Len(Unread) = Cardinality(UnreadAt)
      BY QueueFacts DEF Positions
    <2>4. Len(Unread) # 0
      BY <2>2, <2>3, FS_EmptySet
    <2>5. Unread # <<>>
      BY <2>4
    <2> QED
      BY <2>1, <2>5
  <1>4. Contract!Refuse
    BY <1>1, <1>2, <1>3 DEF Contract!Refuse
  <1> QED
    BY <1>2, <1>4 DEF ContractStep, Contract!Next

(* Close is a Close. *)
LEMMA CloseKeeps ==
    ASSUME QueueInv, Close
    PROVE  QueueInv' /\ ContractStep
  <1>1. closed' = TRUE /\ UNCHANGED <<policy, ring, counters, delivered>>
    BY DEF Close
  <1>2. Unread' = Unread /\ QueueInv'
    BY <1>1, QueueUnchanged
  <1>3. Contract!Close
    BY <1>1, <1>2 DEF Contract!Close, counters
  <1> QED
    BY <1>2, <1>3 DEF ContractStep, Contract!Next

(* Every step of the ring is one of the contract, or invisible. *)
LEMMA StepKeepsContract ==
    ASSUME Inv, QueueInv, [Next]_vars
    PROVE  QueueInv' /\ ContractStep
  <1>1. ASSUME NEW p \in Producers, NEW m \in Msgs, PutCall(p, m)
        PROVE  QueueInv' /\ ContractStep
    BY <1>1, NotOfTheContract DEF PutCall
  <1>2. ASSUME NEW p \in Producers, PutStep(p)
        PROVE  QueueInv' /\ ContractStep
    <2>1. CASE EvictDone(p) \/ PutWait(p)
      BY <2>1, NotOfTheContract DEF EvictDone, PutWait
    <2> QED
      BY <1>2, <2>1, PutRefuseKeeps, PutPadKeeps, PutRecordKeeps, EvictOldestKeeps DEF PutStep
  <1>3. ASSUME NEW c \in Consumers, GetCall(c) \/ GetStep(c)
        PROVE  QueueInv' /\ ContractStep
    <2>1. CASE GetCall(c) \/ GetEmpty(c) \/ GetWait(c)
      BY <2>1, NotOfTheContract DEF GetCall, GetEmpty, GetWait
    <2> QED
      BY <1>3, <2>1, GetKeeps DEF GetStep
  <1>4. ASSUME NEW t \in Threads, Relock(t) \/ Unwait(t)
        PROVE  QueueInv' /\ ContractStep
    BY <1>4, NotOfTheContract DEF Relock, Unwait
  <1>5. CASE KickConsumer
    BY <1>5, NotOfTheContract DEF KickConsumer
  <1>6. CASE Close
    BY <1>6, CloseKeeps
  <1>7. CASE UNCHANGED vars
    BY <1>7, NotOfTheContract DEF vars
  <1> QED
    BY <1>1, <1>2, <1>3, <1>4, <1>5, <1>6, <1>7 DEF Next

(* A fresh ring is an empty queue. *)
LEMMA InitKeepsContract == Init => QueueInv /\ Contract!Init
  <1> SUFFICES ASSUME Init
               PROVE  QueueInv /\ Contract!Init
    OBVIOUS
  <1>1. Live = {} /\ UnreadAt = {}
    BY DEF Init, Live, UnreadAt
  <1>2. Cardinality(UnreadAt) = 0
    BY <1>1, FS_EmptySet
  <1>3. Unread = <<>>
    BY <1>2 DEF Unread
  <1>4. QueueInv
    BY <1>1, <1>2 DEF QueueInv, Ranked, PadsShort
  <1> QED
    BY <1>3, <1>4 DEF Init, Contract!Init, Policies

(* The locked ring implements the contract that consumers rely on.         *)
THEOREM RingKeepsContract == SafetySpec => ImplementsContract
  <1>1. Init => Inv /\ QueueInv /\ Contract!Init
    BY InvInit, InitKeepsContract
  <1>2. Inv /\ QueueInv /\ [Next]_vars => Inv' /\ QueueInv' /\ [Contract!Next]_(Contract!vars)
    BY InvStep, StepKeepsContract DEF ContractStep
  <1> QED
    BY <1>1, <1>2, PTL DEF SafetySpec, ImplementsContract, Contract!Spec
=============================================================================
