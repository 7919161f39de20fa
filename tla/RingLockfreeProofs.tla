------------------------- MODULE RingLockfreeProofs -------------------------
(***************************************************************************)
(* Proofs about the lock-free ring: for any capacity and record lengths,   *)
(* any number of producers and, in the multi-consumer build, of consumers, *)
(* and every interleaving of their atomic accesses.                        *)
(*                                                                         *)
(* What is proved of a behaviour holds as long as no consumer mistakes     *)
(* junk for the marker it looks for (NothingMistaken).  That is a          *)
(* condition and not a fact about the code: no word of a payload is        *)
(* forbidden, and a consumer that takes one for a marker can break         *)
(* whatever is stated here.                                                *)
(***************************************************************************)
EXTENDS RingLockfree, FiniteSetTheorems, SequenceTheorems, TLAPS

-----------------------------------------------------------------------------
(* Where monotonic cursors fall in a ring of C cells *)

(* An offset is a valid index. *)
LEMMA ModRange ==
    ASSUME NEW C \in Nat \ {0}, NEW a \in Nat
    PROVE  a % C \in 0 .. C - 1
  OBVIOUS

(* A cursor is so many full laps plus its offset. *)
LEMMA DivMod ==
    ASSUME NEW C \in Nat \ {0}, NEW a \in Nat
    PROVE  a \div C \in Nat /\ a = C * (a \div C) + (a % C)
  OBVIOUS

(* Cursors on different laps are at least a lap apart at lap starts. *)
LEMMA MulGap ==
    ASSUME NEW C \in Nat \ {0}, NEW q \in Int, NEW k \in Int, q < k
    PROVE  C * q + C <= C * k
  OBVIOUS

(* Laps and offset are unique. *)
LEMMA DivModUnique ==
    ASSUME NEW C \in Nat \ {0}, NEW q \in Int, NEW k \in Int,
           NEW r \in 0 .. C - 1, NEW s \in 0 .. C - 1, C * q + r = C * k + s
    PROVE  q = k /\ r = s
  <1>1. ~(q < k)
    BY MulGap
  <1>2. ~(k < q)
    BY MulGap
  <1>3. q = k
    BY <1>1, <1>2
  <1> QED
    BY <1>3

(* The offset of a cursor given as laps plus offset. *)
LEMMA ModOf ==
    ASSUME NEW C \in Nat \ {0}, NEW b \in Nat, NEW k \in Nat,
           NEW r \in 0 .. C - 1, b = C * k + r
    PROVE  b % C = r
  <1>1. b = C * (b \div C) + (b % C) /\ b \div C \in Nat
    BY DivMod
  <1>2. b % C \in 0 .. C - 1
    BY ModRange
  <1>3. C * k + r = C * (b \div C) + (b % C)
    BY <1>1
  <1>4. \A q \in Int : \A s \in 0 .. C - 1 : C * k + r = C * q + s => r = s
    BY DivModUnique
  <1> QED
    BY <1>1, <1>2, <1>3, <1>4

(* Advancing within a lap advances the offset. *)
LEMMA ModAdd ==
    ASSUME NEW C \in Nat \ {0}, NEW a \in Nat, NEW i \in Nat, (a % C) + i < C
    PROVE  (a + i) % C = (a % C) + i
  <1>1. a = C * (a \div C) + (a % C) /\ a \div C \in Nat
    BY DivMod
  <1>2. (a % C) + i \in 0 .. C - 1 /\ a % C \in 0 .. C - 1
    BY ModRange
  <1>3. a + i \in Nat
    OBVIOUS
  <1>4. C * (a \div C) \in Nat
    BY <1>1
  <1>5. a + i = C * (a \div C) + ((a % C) + i)
    BY <1>1, <1>2, <1>4
  <1> QED
    BY <1>1, <1>2, <1>3, <1>5, ModOf

(* Advancing exactly to the end of a lap returns to offset zero. *)
LEMMA ModWrap ==
    ASSUME NEW C \in Nat \ {0}, NEW a \in Nat, NEW i \in Nat, (a % C) + i = C
    PROVE  (a + i) % C = 0
  <1>1. a = C * (a \div C) + (a % C) /\ a \div C \in Nat
    BY DivMod
  <1>2. a % C \in 0 .. C - 1
    BY ModRange
  <1>3. a + i \in Nat /\ 0 \in 0 .. C - 1
    OBVIOUS
  <1>4. C * (a \div C) \in Nat
    BY <1>1
  <1>5. a + i = C * (a \div C) + C
    BY <1>1, <1>2, <1>4
  <1>6. C * ((a \div C) + 1) = C * (a \div C) + C
    BY <1>1
  <1>7. a + i = C * ((a \div C) + 1) + 0 /\ (a \div C) + 1 \in Nat
    BY <1>1, <1>5, <1>6
  <1> QED
    BY <1>3, <1>7, ModOf, Zenon

(* Cursors less than a lap apart have different offsets. *)
LEMMA ModDistinct ==
    ASSUME NEW C \in Nat \ {0}, NEW a \in Nat, NEW b \in Nat, a < b, b < a + C
    PROVE  a % C # b % C
  <1>1. a = C * (a \div C) + (a % C) /\ a \div C \in Nat
    BY DivMod
  <1>2. b = C * (b \div C) + (b % C) /\ b \div C \in Nat
    BY DivMod
  <1>3. a % C \in 0 .. C - 1 /\ b % C \in 0 .. C - 1
    BY ModRange
  <1>4. SUFFICES ASSUME a % C = b % C
                 PROVE  FALSE
    OBVIOUS
  <1>5. C * (a \div C) \in Nat /\ C * (b \div C) \in Nat
    BY <1>1, <1>2
  <1>6. C * (a \div C) < C * (b \div C) /\ C * (b \div C) < C * (a \div C) + C
    BY <1>1, <1>2, <1>3, <1>4, <1>5
  <1>7. ~(a \div C < b \div C)
    BY <1>1, <1>2, <1>5, <1>6, MulGap
  <1>8. ~(b \div C < a \div C)
    BY <1>1, <1>2, <1>5, <1>6, MulGap
  <1>9. a \div C = b \div C
    BY <1>1, <1>2, <1>7, <1>8
  <1> QED
    BY <1>5, <1>6, <1>9

-----------------------------------------------------------------------------
Mem == [pos : Nat, total_len : Nat, pad : BOOLEAN, msg : Msgs \cup {NoMsg}]

PutPcs == {"idle", "load_enq", "space", "evict", "evict_mark", "evict_cas", "reserve",
           "invalidate", "fill", "publish", "kick", "broadcast"}
GetPcs == {"idle", "cursors", "fresh", "marker", "fresh_again", "claim", "header", "copy",
           "revalidate", "advance", "nothing", "park", "recheck", "asleep", "relock", "unpark"}

-----------------------------------------------------------------------------
(* What is in the ring *)

(* Producers with a range of their own, published or not yet. *)
Own(p) == pc[p] \in {"invalidate", "fill", "publish"}
Fills(p) == pc[p] \in {"invalidate", "fill"}

(* A record or pad starts at q: its header is in memory, or it is being    *)
(* filled in.                                                              *)
Stored(q) == image[Off(q)].pos = q /\ image[Off(q)].total_len # 0
Filled(q) == \E p \in Producers : Fills(p) /\ pos[p] = q
Starts(q) == Stored(q) \/ Filled(q)

Entry(q, n) ==
    \/ Stored(q) /\ n = image[Off(q)].total_len
    \/ \E p \in Producers : Fills(p) /\ pos[p] = q /\ n = Need(p)

(* The header at q stands in front of its own record. *)
Intact(q) ==
    /\ Stored(q)
    /\ ~image[Off(q)].pad => \A i \in 0 .. RecordLen[image[Off(q)].msg] - 1 :
                                image[Off(q) + i] = image[Off(q)]

(* What a word of memory can hold: traces of positions that were reserved. *)
MemInv ==
    /\ \A o \in Offsets :
          image[o].total_len # 0 =>
              /\ image[o].pos < enq
              /\ ~image[o].pad => /\ image[o].msg \in Msgs
                                  /\ RecordLen[image[o].msg] <= image[o].total_len
    /\ \A o \in Offsets :
          \/ commit[o] = Junk \/ commit[o] = 0
          \/ \E q \in 0 .. enq - 1 : Off(q) = o /\ commit[o] \in {q + 1, q + 2}
    /\ \A q \in deq .. enq - 1 : commit[Off(q)] \in {q + 1, q + 2} => Intact(q)

(* From deq to enq one entry follows the other. *)
ChainInv ==
    /\ deq <= enq /\ enq <= deq + Capacity
    /\ MinPad <= Capacity - Off(enq)
    /\ deq = enq \/ Starts(deq)
    /\ \A q \in deq .. enq - 1, n \in Nat :
          Entry(q, n) =>
              /\ n # 0 /\ q + n <= enq /\ Off(q) + n <= Capacity
              /\ q + n = enq \/ Starts(q + n)
              /\ \A r \in q + 1 .. q + n - 1 : ~Starts(r)

OwnInv ==
    /\ \A p \in Producers : Own(p) =>
          /\ pos[p] \in deq .. enq - 1
          /\ Fills(p) => ~Stored(pos[p])
          /\ pc[p] = "publish" => Intact(pos[p])
          /\ pc[p] # "invalidate" => commit[Off(pos[p])] = 0
    /\ \A p, r \in Producers : Own(p) /\ Own(r) /\ pos[p] = pos[r] => p = r

RingInv == MemInv /\ ChainInv /\ OwnInv

-----------------------------------------------------------------------------
(* The threads *)

(* The length a producer is about to reserve fits before the end of memory,*)
(* and leaves nothing there or room for a pad.                             *)
Sized(p) ==
    /\ Need(p) # 0 /\ Off(pos[p]) + Need(p) <= Capacity
    /\ Off(pos[p]) + Need(p) = Capacity \/ Off(pos[p]) + Need(p) + MinPad <= Capacity
    /\ padding[p] => MinPad <= Need(p)

PutOk(p) ==
    /\ pc[p] # "idle" => cur[p] \in Msgs /\ RecordLen[cur[p]] <= total[p]
    /\ pc[p] \in {"space", "evict", "evict_mark", "evict_cas", "reserve"} \/ Own(p) => Sized(p)
    /\ pc[p] = "reserve" => pos[p] + Need(p) <= deq + Capacity
    /\ mode = SPSC /\ pc[p] \in {"space", "evict", "evict_mark", "evict_cas", "reserve"} =>
          pos[p] = enq
    /\ pc[p] \in {"evict", "evict_mark", "evict_cas"} => policy = Overwrite
    /\ pc[p] \in {"evict_mark", "evict_cas"} =>
          victim[p] <= deq /\ pos[p] + Need(p) > victim[p] + Capacity
    /\ pc[p] = "evict_cas" /\ victim[p] = deq => commit[Off(deq)] = 0
    /\ pc[p] \in {"kick", "broadcast"} => ~padding[p]

PutInv == \A p \in Producers : PutOk(p)

Reads(c) == pc[c] \in {"fresh", "marker", "fresh_again", "claim", "header", "copy", "revalidate",
                       "advance"}
(* Past the look at the marker, which it found. *)
Past(c) == pc[c] \in {"header", "copy", "revalidate", "advance"}

(* The copied record is the one at the cursor. *)
Copied(c) == view[c][1].pos = at[c] /\ view[c][2] = view[c][1]

GetOk(c) ==
    /\ Reads(c) =>
          /\ at[c] <= deq /\ at[c] < enq
          /\ mode # MPMC /\ policy # Overwrite => at[c] = deq
          /\ at[c] < deq => commit[Off(at[c])] # at[c] + 1
    /\ Past(c) =>
          /\ mode = MPMC => at[c] = deq /\ commit[Off(deq)] = deq + 2
          /\ at[c] = deq => Intact(at[c])
          /\ \A p \in Producers : pc[p] = "publish" => at[c] # pos[p]
          /\ pc[c] # "header" /\ at[c] = deq => view[c][1] = image[Off(at[c])]
          /\ pc[c] = "copy" => ~view[c][1].pad
          /\ pc[c] = "revalidate" => ~view[c][1].pad /\ (at[c] = deq => Copied(c))
          /\ pc[c] = "advance" /\ ~view[c][1].pad => Copied(c)

OneLease == mode = MPMC => \A c, d \in Consumers : Past(c) /\ Past(d) => c = d

GetInv == (\A c \in Consumers : GetOk(c)) /\ OneLease

(* What the program's structure says: who may be where, and who waits. *)
Waiters == {c \in Consumers : pc[c] \in {"recheck", "asleep", "relock", "unpark"}}

PcInv ==
    /\ pc \in [Threads -> PutPcs \cup GetPcs]
    /\ \A p \in Producers : pc[p] \in PutPcs
    /\ \A c \in Consumers : pc[c] \in GetPcs
    /\ mode \in {SPSC, MPSC, MPMC} /\ policy \in {Discard, Overwrite}
    /\ policy = Overwrite => mode = SPSC
    /\ mode = SPSC => \A p, r \in Producers : pc[p] # "idle" /\ pc[r] # "idle" => p = r
    /\ mode # MPMC => \A c, d \in Consumers : pc[c] # "idle" /\ pc[d] # "idle" => c = d
    /\ \A c \in Consumers : /\ pc[c] \in {"fresh_again", "claim"} => mode = MPMC
                            /\ pc[c] = "revalidate" => mode # MPMC
                            /\ pc[c] \in {"copy", "advance"} => Len(view[c]) >= 1
                            /\ pc[c] = "revalidate" => Len(view[c]) = 2
                            /\ pc[c] = "copy" => Len(view[c]) = 1 /\ view[c][1].msg \in Msgs
    /\ view \in [Consumers -> Seq(Mem)]
    /\ kick \subseteq Consumers /\ \A c \in kick : pc[c] = "asleep"
    /\ IsFiniteSet(Waiters) /\ consumer_waiting = Cardinality(Waiters)

-----------------------------------------------------------------------------
(* The records *)

Holds(q, m) == q \in deq .. enq - 1 /\ Stored(q) /\ ~image[Off(q)].pad /\ image[Off(q)].msg = m
Brings(p, m) == Fills(p) /\ ~padding[p] /\ cur[p] = m
Putting(p) ==
    \/ pc[p] \in {"load_enq", "space", "evict", "evict_mark", "evict_cas", "reserve"}
    \/ Own(p) /\ padding[p]

MsgInv ==
    /\ status \in [Msgs -> {"new", "putting", "queued", "got", "evicted", "dropped"}]
    /\ \A m \in Msgs :
          status[m] = "queued" <=> (\E q \in Nat : Holds(q, m)) \/ (\E p \in Producers : Brings(p, m))
    /\ \A m \in Msgs, q, r \in Nat : Holds(q, m) /\ Holds(r, m) => q = r
    /\ \A m \in Msgs, q \in Nat, p \in Producers : ~(Holds(q, m) /\ Brings(p, m))
    /\ \A p, r \in Producers : pc[p] # "idle" /\ pc[r] # "idle" /\ cur[p] = cur[r] => p = r
    /\ \A p \in Producers : pc[p] # "idle" => status[cur[p]] # "new"
    /\ \A p \in Producers : Putting(p) => status[cur[p]] = "putting"

Sound == PcInv /\ RingInv /\ PutInv /\ GetInv
FInv == TypeOK /\ Sound /\ MsgInv

-----------------------------------------------------------------------------
(* Positions and offsets *)

LEMMA Sizes ==
    /\ Capacity \in Nat /\ Capacity \in Nat \ {0} /\ Capacity >= 2
    /\ MinPad \in Nat /\ MinPad # 0 /\ MinPad <= Capacity
    /\ \A m \in Msgs : RecordLen[m] \in Nat /\ MinPad <= RecordLen[m]
    /\ Junk \notin Nat
<1>1. \A m \in Msgs : RecordLen[m] \in Nat
  BY SizeAssumption
<1> QED  BY <1>1, SizeAssumption, ModeAssumption

LEMMA OffType ==
    ASSUME NEW q \in Nat
    PROVE  Off(q) \in Offsets /\ Off(q) \in Nat /\ Off(q) < Capacity
<1>1. Off(q) \in 0 .. Capacity - 1
  BY Sizes, ModRange DEF Off
<1> QED  BY <1>1, Sizes DEF Offsets

(* Within a lap an offset names one position. *)
LEMMA OffInj ==
    ASSUME NEW a \in Nat, NEW q \in Nat, NEW r \in Nat,
           a <= q, q < a + Capacity, a <= r, r < a + Capacity, Off(q) = Off(r)
    PROVE  q = r
<1>1. ~(q < r)
  <2> SUFFICES ASSUME q < r  PROVE FALSE
    OBVIOUS
  <2>1. r < q + Capacity
    BY Sizes
  <2> QED  BY <2>1, Sizes, ModDistinct DEF Off
<1>2. ~(r < q)
  <2> SUFFICES ASSUME r < q  PROVE FALSE
    OBVIOUS
  <2>1. q < r + Capacity
    BY Sizes
  <2> QED  BY <2>1, Sizes, ModDistinct DEF Off
<1> QED  BY <1>1, <1>2

(* Neighbours never share an offset. *)
LEMMA OffNext ==
    ASSUME NEW q \in Nat
    PROVE  Off(q) # Off(q + 1)
<1>1. q + 1 \in Nat /\ q <= q + 1 /\ q + 1 < q + Capacity /\ q < q + Capacity /\ q # q + 1
  BY Sizes
<1> QED  BY <1>1, OffInj

LEMMA OffAdd ==
    ASSUME NEW q \in Nat, NEW n \in Nat, Off(q) + n < Capacity
    PROVE  Off(q + n) = Off(q) + n
BY Sizes, ModAdd DEF Off

LEMMA OffWrap ==
    ASSUME NEW q \in Nat, NEW n \in Nat, Off(q) + n = Capacity
    PROVE  Off(q + n) = 0
BY Sizes, ModWrap DEF Off

LEMMA ImageType ==
    ASSUME TypeOK, NEW o \in Offsets
    PROVE  /\ image[o] \in Mem /\ image[o].pos \in Nat /\ image[o].total_len \in Nat
           /\ image[o].pad \in BOOLEAN /\ image[o].msg \in Msgs \cup {NoMsg}
BY DEF TypeOK, Mem

LEMMA NeedType ==
    ASSUME TypeOK, NEW p \in Producers
    PROVE  Need(p) \in Nat /\ pos[p] \in Nat
<1>1. pos[p] \in Nat /\ total[p] \in Nat
  BY DEF TypeOK
<1>2. Off(pos[p]) \in Nat /\ Off(pos[p]) < Capacity
  BY <1>1, OffType
<1> QED  BY <1>1, <1>2, Sizes DEF Need

LEMMA EntryType ==
    ASSUME TypeOK, NEW q \in Nat, NEW n, Entry(q, n)
    PROVE  n \in Nat /\ Starts(q)
BY OffType, ImageType, NeedType DEF Entry, Starts, Filled

LEMMA StartsEntry ==
    ASSUME TypeOK, NEW q \in Nat, Starts(q)
    PROVE  \E n \in Nat : Entry(q, n)
BY OffType, ImageType, NeedType DEF Entry, Starts, Filled

-----------------------------------------------------------------------------
(* Steps that leave the ring as it is, and those that move deq *)

(* No producer gets a range, one that fills its range keeps it, and the    *)
(* ranges are what they were.                                              *)
RangesSame ==
    \A p \in Producers :
        /\ Fills(p)' <=> Fills(p)
        /\ Own(p)' => Own(p)
        /\ Fills(p) \/ Own(p)' => /\ pos'[p] = pos[p] /\ padding'[p] = padding[p]
                                  /\ total'[p] = total[p] /\ cur'[p] = cur[p]

OwnSame == RangesSame /\ \A p \in Producers : Own(p)' => pc'[p] = pc[p]

LEMMA EntriesSame ==
    ASSUME RangesSame, image' = image
    PROVE  /\ \A q : (Stored(q)' <=> Stored(q)) /\ (Starts(q)' <=> Starts(q)) /\ (Intact(q)' <=> Intact(q))
           /\ \A q, n : Entry(q, n)' <=> Entry(q, n)
<1>1. \A p \in Producers : Fills(p)' <=> Fills(p)
  BY DEF RangesSame
<1>2. \A p \in Producers : Fills(p) => pos'[p] = pos[p] /\ Need(p)' = Need(p)
  BY DEF RangesSame, Need
<1>3. \A q : Stored(q)' <=> Stored(q)
  BY DEF Stored
<1>4. \A q : Filled(q)' <=> Filled(q)
  BY <1>1, <1>2 DEF Filled
<1>5. \A q : Intact(q)' <=> Intact(q)
  BY DEF Intact, Stored
<1>6. \A q, n : Entry(q, n)' <=> Entry(q, n)
  BY <1>1, <1>2, <1>3 DEF Entry
<1> QED  BY <1>1, <1>3, <1>4, <1>5, <1>6 DEF Starts

LEMMA ChainSame ==
    ASSUME ChainInv, RangesSame, UNCHANGED <<enq, deq, image>>
    PROVE  ChainInv'
BY EntriesSame DEF ChainInv

LEMMA RingSame ==
    ASSUME RingInv, OwnSame, UNCHANGED <<enq, deq, commit, image>>
    PROVE  RingInv'
<1>1. ChainInv'
  BY ChainSame DEF RingInv, OwnSame
<1>2. MemInv'
  BY EntriesSame DEF RingInv, MemInv, OwnSame
<1>3. OwnInv'
  BY EntriesSame DEF RingInv, OwnInv, OwnSame, RangesSame
<1> QED  BY <1>1, <1>2, <1>3 DEF RingInv

(* deq passes the entry it stands at. *)
LEMMA DeqMoves ==
    ASSUME TypeOK, RingInv, OwnSame, UNCHANGED <<enq, commit, image>>,
           NEW n, Entry(deq, n), deq < enq, deq' = deq + n,
           \A p \in Producers : Own(p) => pos[p] # deq
    PROVE  RingInv' /\ deq < deq' /\ deq' <= enq /\ deq' \in Nat
<1>1. deq \in Nat /\ enq \in Nat /\ deq \in deq .. enq - 1
  BY DEF TypeOK
<1>2. n \in Nat
  BY <1>1, EntryType
<1>3. /\ n # 0 /\ deq + n <= enq
      /\ deq + n = enq \/ Starts(deq + n)
      /\ \A r \in deq + 1 .. deq + n - 1 : ~Starts(r)
  BY <1>1, <1>2 DEF RingInv, ChainInv
<1>4. deq < deq' /\ deq' <= enq /\ deq' \in Nat
  BY <1>1, <1>2, <1>3
<1>5. ChainInv'
  BY <1>1, <1>2, <1>3, <1>4, EntriesSame, Sizes DEF RingInv, ChainInv, OwnSame
<1>6. MemInv'
  BY <1>1, <1>4, EntriesSame DEF RingInv, MemInv, OwnSame
<1>7. \A p \in Producers : Own(p) => pos[p] \in deq' .. enq - 1
  <2> SUFFICES ASSUME NEW p \in Producers, Own(p)  PROVE pos[p] \in deq' .. enq - 1
    OBVIOUS
  <2>1. pos[p] \in deq .. enq - 1 /\ pos[p] # deq
    BY DEF RingInv, OwnInv
  <2>2. Starts(pos[p])
    BY DEF RingInv, OwnInv, Starts, Filled, Intact, Own, Fills
  <2>3. pos[p] \notin deq + 1 .. deq + n - 1
    BY <1>3, <2>2
  <2> QED  BY <1>1, <1>2, <2>1, <2>3
<1>8. OwnInv'
  BY <1>7, EntriesSame DEF RingInv, OwnInv, OwnSame, RangesSame
<1> QED  BY <1>4, <1>5, <1>6, <1>8 DEF RingInv

(* A commit word is invalidated. *)
LEMMA CommitCleared ==
    ASSUME TypeOK, RingInv, RangesSame, UNCHANGED <<enq, deq, image>>,
           NEW v \in Nat, commit' = [commit EXCEPT ![Off(v)] = 0],
           \A p \in Producers : Own(p)' =>
              pc'[p] = pc[p] \/ (pc'[p] = "fill" /\ pos[p] = v)
    PROVE  RingInv'
<1>1. commit \in [Offsets -> Nat \cup {Junk}] /\ Off(v) \in Offsets /\ deq \in Nat /\ enq \in Nat
  BY OffType DEF TypeOK
<1>2. \A o \in Offsets : commit'[o] = commit[o] \/ commit'[o] = 0
  BY <1>1
<1>3. \A q \in Nat : Off(q) \in Offsets
  BY OffType
<1>4. \A q \in deq .. enq - 1 : Off(q) \in Offsets
  BY <1>1, <1>3
<1>5. \A q \in deq .. enq - 1 : commit'[Off(q)] \in {q + 1, q + 2} => Intact(q)
  <2> SUFFICES ASSUME NEW q \in deq .. enq - 1, commit'[Off(q)] \in {q + 1, q + 2}
               PROVE  Intact(q)
    OBVIOUS
  <2>1. commit'[Off(q)] # 0
    BY <1>1
  <2> QED  BY <1>2, <1>4, <2>1 DEF RingInv, MemInv
<1>6. MemInv'
  BY <1>2, <1>5, EntriesSame DEF RingInv, MemInv
<1>7. \A p \in Producers : pos[p] \in Nat
  BY DEF TypeOK
<1>8. commit'[Off(v)] = 0
  BY <1>1
<1>9. \A p \in Producers : Own(p)' /\ pc'[p] # "invalidate" => commit'[Off(pos[p])] = 0
  BY <1>2, <1>3, <1>7, <1>8 DEF RingInv, OwnInv, RangesSame
<1>10. \A p \in Producers : Own(p)' /\ pc'[p] = "publish" => pc[p] = "publish"
  OBVIOUS
<1>11. OwnInv'
  BY <1>9, <1>10, EntriesSame DEF RingInv, OwnInv, RangesSame
<1> QED  BY <1>6, <1>11, ChainSame DEF RingInv

(* A commit word says that the entry behind it is published, or leased. *)
LEMMA CommitStored ==
    ASSUME TypeOK, RingInv, OwnSame, UNCHANGED <<enq, deq, image>>,
           NEW v \in deq .. enq - 1, NEW x \in {v + 1, v + 2}, Intact(v),
           commit' = [commit EXCEPT ![Off(v)] = x],
           \A p \in Producers : Own(p)' /\ pc[p] # "invalidate" => pos[p] # v
    PROVE  RingInv'
<1>1. /\ commit \in [Offsets -> Nat \cup {Junk}] /\ deq \in Nat /\ enq \in Nat /\ v \in Nat
      /\ enq <= deq + Capacity
  BY DEF TypeOK, RingInv, ChainInv
<1>2. \A q \in Nat : Off(q) \in Offsets
  BY OffType
<1>3. \A q \in deq .. enq - 1 : Off(q) = Off(v) => q = v
  BY <1>1, OffInj, Sizes
<1>4. \A o \in Offsets : IF o = Off(v) THEN commit'[o] = x ELSE commit'[o] = commit[o]
  BY <1>1, <1>2
<1>5. \A q \in deq .. enq - 1 : commit'[Off(q)] \in {q + 1, q + 2} => Intact(q)
  <2> SUFFICES ASSUME NEW q \in deq .. enq - 1, commit'[Off(q)] \in {q + 1, q + 2}
               PROVE  Intact(q)
    OBVIOUS
  <2>1. Off(q) \in Offsets
    BY <1>1, <1>2
  <2> QED  BY <1>3, <1>4, <2>1 DEF RingInv, MemInv
<1>6. \A o \in Offsets :
          \/ commit'[o] = Junk \/ commit'[o] = 0
          \/ \E q \in 0 .. enq - 1 : Off(q) = o /\ commit'[o] \in {q + 1, q + 2}
  <2> TAKE o \in Offsets
  <2>1. CASE o = Off(v)
    BY <1>1, <1>4, <2>1
  <2>2. CASE o # Off(v)
    BY <1>4, <2>2 DEF RingInv, MemInv
  <2> QED  BY <2>1, <2>2
<1>7. MemInv'
  BY <1>5, <1>6, EntriesSame DEF RingInv, MemInv, OwnSame
<1>8. \A p \in Producers : Own(p)' /\ pc[p] # "invalidate" => commit'[Off(pos[p])] = 0
  <2> SUFFICES ASSUME NEW p \in Producers, Own(p)', pc[p] # "invalidate"
               PROVE  commit'[Off(pos[p])] = 0
    OBVIOUS
  <2>1. pos[p] \in deq .. enq - 1 /\ commit[Off(pos[p])] = 0 /\ pos[p] # v
    BY DEF RingInv, OwnInv, OwnSame, RangesSame
  <2>2. Off(pos[p]) \in Offsets
    BY <1>1, <1>2, <2>1
  <2> QED  BY <1>3, <1>4, <2>1, <2>2
<1>9. OwnInv'
  BY <1>8, EntriesSame DEF RingInv, OwnInv, OwnSame, RangesSame
<1> QED  BY <1>7, <1>9, ChainSame DEF RingInv, OwnSame

-----------------------------------------------------------------------------
(* A range is reserved *)

(* Nothing is known of positions that were never reserved. *)
LEMMA NothingAhead ==
    ASSUME TypeOK, RingInv, NEW q \in Nat, enq <= q
    PROVE  ~Starts(q) /\ commit[Off(q)] \notin {q + 1, q + 2}
<1>1. Off(q) \in Offsets /\ enq \in Nat
  BY OffType DEF TypeOK
<1>2. ~Stored(q)
  BY <1>1 DEF Stored, RingInv, MemInv
<1>3. ~Filled(q)
  BY <1>1 DEF Filled, RingInv, OwnInv, Own, Fills
<1>4. commit[Off(q)] \notin {q + 1, q + 2}
  <2> SUFFICES ASSUME commit[Off(q)] \in {q + 1, q + 2}  PROVE FALSE
    OBVIOUS
  <2>1. commit[Off(q)] # Junk /\ commit[Off(q)] # 0
    BY Sizes
  <2>2. PICK r \in 0 .. enq - 1 : Off(r) = Off(q) /\ commit[Off(q)] \in {r + 1, r + 2}
    BY <1>1, <2>1 DEF RingInv, MemInv
  <2>3. r \in Nat /\ q = r + 1
    BY <1>1, <2>2
  <2> QED  BY <2>2, <2>3, OffNext
<1> QED  BY <1>2, <1>3, <1>4 DEF Starts

LEMMA RangeReserved ==
    ASSUME TypeOK, RingInv, NEW p \in Producers, ~Own(p), pos[p] = enq, Sized(p),
           pos[p] + Need(p) <= deq + Capacity, enq' = pos[p] + Need(p),
           UNCHANGED <<deq, commit, image, pos, total, padding, cur>>,
           pc'[p] = "invalidate", \A r \in Producers \ {p} : pc'[r] = pc[r]
    PROVE  RingInv' /\ enq < enq' /\ enq' \in Nat
<1> DEFINE n == Need(p)
<1>1. n \in Nat /\ n # 0 /\ deq \in Nat /\ enq \in Nat /\ enq' = enq + n /\ enq' \in Nat
      /\ deq <= enq /\ enq' <= deq + Capacity
  BY NeedType DEF TypeOK, Sized, RingInv, ChainInv
<1>2. \A r \in Producers : /\ Fills(r)' <=> Fills(r) \/ r = p
                           /\ Own(r)' <=> Own(r) \/ r = p
                           /\ pos'[r] = pos[r] /\ Need(r)' = Need(r)
  BY DEF Fills, Own, Need
<1>3. \A q : (Stored(q)' <=> Stored(q)) /\ (Intact(q)' <=> Intact(q))
  BY DEF Stored, Intact
<1>4. \A q : Filled(q)' <=> Filled(q) \/ q = enq
  BY <1>2 DEF Filled
<1>5. \A q : Starts(q)' <=> Starts(q) \/ q = enq
  BY <1>3, <1>4 DEF Starts
<1>6. \A q, m : Entry(q, m)' <=> Entry(q, m) \/ (q = enq /\ m = n)
  BY <1>2, <1>3 DEF Entry
<1> HIDE DEF n
<1>7. \A q \in Nat : enq <= q => ~Starts(q) /\ commit[Off(q)] \notin {q + 1, q + 2}
  BY NothingAhead
<1>8. MinPad <= Capacity - Off(enq')
  <2>1. CASE Off(enq) + n = Capacity
    BY <1>1, <2>1, OffWrap, Sizes
  <2>2. CASE Off(enq) + n + MinPad <= Capacity
    <3>1. Off(enq) \in Nat /\ Off(enq) + n < Capacity
      BY <1>1, <2>2, OffType, Sizes
    <3>2. Off(enq') = Off(enq) + n
      BY <1>1, <3>1, OffAdd
    <3> QED  BY <1>1, <2>2, <3>1, <3>2, Sizes
  <2> QED  BY <2>1, <2>2 DEF Sized, n
<1>9. \A q \in deq .. enq' - 1, m \in Nat :
          Entry(q, m)' =>
              /\ m # 0 /\ q + m <= enq' /\ Off(q) + m <= Capacity
              /\ q + m = enq' \/ Starts(q + m)'
              /\ \A r \in q + 1 .. q + m - 1 : ~Starts(r)'
  <2> SUFFICES ASSUME NEW q \in deq .. enq' - 1, NEW m \in Nat, Entry(q, m)'
               PROVE  /\ m # 0 /\ q + m <= enq' /\ Off(q) + m <= Capacity
                      /\ q + m = enq' \/ Starts(q + m)'
                      /\ \A r \in q + 1 .. q + m - 1 : ~Starts(r)'
    OBVIOUS
  <2>1. CASE q < enq
    <3>1. Entry(q, m) /\ q \in deq .. enq - 1
      BY <1>1, <1>6, <2>1
    <3>2. /\ m # 0 /\ q + m <= enq /\ Off(q) + m <= Capacity
          /\ q + m = enq \/ Starts(q + m)
          /\ \A r \in q + 1 .. q + m - 1 : ~Starts(r)
      BY <3>1 DEF RingInv, ChainInv
    <3> QED  BY <1>1, <1>5, <2>1, <3>2
  <2>2. CASE q >= enq
    <3>1. q \in Nat /\ ~Starts(q)
      BY <1>1, <1>7, <2>2
    <3>2. q = enq /\ m = n
      BY <1>6, <3>1, EntryType
    <3>3. Off(enq) + n <= Capacity
      BY DEF Sized, n
    <3>4. \A r \in q + 1 .. q + m - 1 : ~Starts(r)'
      BY <1>1, <1>5, <1>7, <3>2
    <3> QED  BY <1>1, <3>2, <3>3, <3>4
  <2> QED  BY <1>1, <2>1, <2>2
<1>10. ChainInv'
  <2>1. deq' = enq' \/ Starts(deq)'
    BY <1>5 DEF RingInv, ChainInv
  <2> QED  BY <1>1, <1>8, <1>9, <2>1 DEF ChainInv
<1>11. MemInv'
  <2>1. \A o \in Offsets : image[o].pos \in Nat
    BY ImageType
  <2>2. \A q \in deq .. enq' - 1 : commit[Off(q)] \in {q + 1, q + 2} => q \in deq .. enq - 1
    BY <1>1, <1>7
  <2> QED  BY <1>1, <1>3, <2>1, <2>2 DEF RingInv, MemInv
<1>12. OwnInv'
  <2>1. \A r \in Producers : Own(r) => pos[r] \in deq .. enq - 1 /\ pos[r] # enq
    BY <1>1 DEF RingInv, OwnInv
  <2>2. ~Stored(enq) /\ enq \in deq .. enq' - 1
    BY <1>1, <1>7 DEF Starts
  <2>3. \A r \in Producers : Own(r)' => pos[r] \in deq .. enq' - 1
    BY <1>1, <1>2, <2>1, <2>2
  <2> QED  BY <1>2, <1>3, <2>1, <2>2, <2>3 DEF RingInv, OwnInv
<1> QED  BY <1>1, <1>10, <1>11, <1>12 DEF RingInv

-----------------------------------------------------------------------------
(* A range is filled in *)

(* Entries do not overlap. *)
LEMMA EntriesApart ==
    ASSUME TypeOK, RingInv, NEW q \in deq .. enq - 1, NEW n, Entry(q, n),
           NEW r \in Nat, Starts(r), q < r
    PROVE  q + n <= r
<1>1. q \in Nat /\ n \in Nat
  BY EntryType DEF TypeOK
<1>2. \A s \in q + 1 .. q + n - 1 : ~Starts(s)
  BY <1>1 DEF RingInv, ChainInv
<1> QED  BY <1>1, <1>2

(* The words of an entry are those of its positions. *)
LEMMA EntryWords ==
    ASSUME TypeOK, RingInv, NEW q \in deq .. enq - 1, NEW n, Entry(q, n),
           NEW i \in 0 .. n - 1
    PROVE  Off(q) + i = Off(q + i) /\ Off(q) + i \in Offsets /\ q + i \in deq .. enq - 1
<1>1. q \in Nat /\ n \in Nat /\ deq \in Nat /\ enq \in Nat
  BY EntryType DEF TypeOK
<1>2. q + n <= enq /\ Off(q) + n <= Capacity
  BY <1>1 DEF RingInv, ChainInv
<1>3. Off(q) \in Nat
  BY <1>1, OffType
<1>4. Off(q) + i < Capacity /\ i \in Nat
  BY <1>1, <1>2, <1>3, Sizes
<1>5. Off(q) + i = Off(q + i)
  BY <1>1, <1>4, OffAdd
<1>6. q + i \in deq .. enq - 1
  BY <1>1, <1>2, <1>4
<1>7. Off(q) + i \in Offsets
  BY <1>3, <1>4, Sizes DEF Offsets
<1> QED  BY <1>5, <1>6, <1>7

(* What Fill(p) writes, it writes into the range of p. *)
LEMMA WrittenApart ==
    ASSUME TypeOK, RingInv, NEW p \in Producers, Fills(p), Sized(p),
           cur[p] \in Msgs, RecordLen[cur[p]] <= total[p]
    PROVE  /\ Off(pos[p]) \in Written(p) /\ Written(p) \subseteq Offsets
           /\ \A q \in deq .. enq - 1 :
                 Off(q) \in Written(p) => q \in pos[p] .. pos[p] + Need(p) - 1
           /\ \A q \in deq .. enq - 1, n, i \in Nat :
                 Entry(q, n) /\ i < n /\ q # pos[p] => Off(q) + i \notin Written(p)
<1> DEFINE len == IF padding[p] THEN MinPad ELSE RecordLen[cur[p]]
           n0 == Need(p)
           q0 == pos[p]
<1>1. len \in Nat /\ len # 0 /\ len <= n0 /\ n0 \in Nat /\ Written(p) = Off(q0) .. Off(q0) + len - 1
  BY NeedType, Sizes DEF Sized, Need, Written, TypeOK
<1>2. q0 \in deq .. enq - 1 /\ deq \in Nat /\ enq \in Nat /\ enq <= deq + Capacity
  BY DEF TypeOK, RingInv, OwnInv, ChainInv, Own, Fills
<1>3. Entry(q0, n0) /\ Starts(q0)
  BY DEF Entry, Starts, Filled
<1> HIDE DEF len, n0, q0
<1>4. q0 \in Nat /\ Off(q0) \in Nat
  BY <1>2, OffType
<1>5. \A i \in 0 .. n0 - 1 : Off(q0) + i = Off(q0 + i) /\ Off(q0) + i \in Offsets /\ q0 + i \in deq .. enq - 1
  BY <1>2, <1>3, EntryWords
<1>6. \A o \in Written(p) : o - Off(q0) \in 0 .. n0 - 1 /\ o = Off(q0) + (o - Off(q0))
  BY <1>1, <1>4
<1>7. Off(q0) \in Written(p) /\ Written(p) \subseteq Offsets
  BY <1>1, <1>4, <1>5, <1>6
<1>8. \A q \in deq .. enq - 1 : Off(q) \in Written(p) => q \in q0 .. q0 + n0 - 1
  <2> SUFFICES ASSUME NEW q \in deq .. enq - 1, Off(q) \in Written(p)
               PROVE  q \in q0 .. q0 + n0 - 1
    OBVIOUS
  <2> DEFINE i == Off(q) - Off(q0)
  <2>1. i \in 0 .. n0 - 1 /\ Off(q) = Off(q0) + i
    BY <1>6
  <2>2. Off(q) = Off(q0 + i) /\ q0 + i \in deq .. enq - 1
    BY <1>5, <2>1
  <2> HIDE DEF i
  <2>3. q = q0 + i
    BY <1>2, <2>2, OffInj, Sizes
  <2> QED  BY <1>1, <1>2, <2>1, <2>3
<1>9. \A q \in deq .. enq - 1, n, i \in Nat :
         Entry(q, n) /\ i < n /\ q # q0 => Off(q) + i \notin Written(p)
  <2> SUFFICES ASSUME NEW q \in deq .. enq - 1, NEW n, NEW i \in Nat, Entry(q, n), i < n, q # q0,
                      Off(q) + i \in Written(p)
               PROVE  FALSE
    OBVIOUS
  <2>1. q \in Nat /\ n \in Nat /\ Starts(q)
    BY <1>2, EntryType
  <2>2. Off(q + i) \in Written(p) /\ q + i \in deq .. enq - 1
    BY <2>1, EntryWords
  <2>3. q + i \in q0 .. q0 + n0 - 1
    BY <1>8, <2>2
  <2>4. CASE q < q0
    BY <1>3, <1>4, <2>1, <2>3, <2>4, EntriesApart
  <2>5. CASE q0 < q
    <3>1. q0 + n0 <= q
      BY <1>2, <1>3, <2>1, <2>5, EntriesApart
    <3> QED  BY <1>1, <1>4, <2>1, <2>3, <3>1
  <2> QED  BY <1>4, <2>1, <2>4, <2>5
<1> QED  BY <1>7, <1>8, <1>9 DEF q0, n0

(* The range becomes an entry whose header is in memory; nothing else      *)
(* changes between the cursors.                                            *)
LEMMA FillMem ==
    ASSUME TypeOK, RingInv, NEW p \in Producers, pc[p] = "fill", Sized(p), Fill(p),
           cur[p] \in Msgs, RecordLen[cur[p]] <= total[p]
    PROVE  /\ image'[Off(pos[p])] = [pos |-> pos[p], total_len |-> Need(p), pad |-> padding[p],
                                     msg |-> IF padding[p] THEN NoMsg ELSE cur[p]]
           /\ Intact(pos[p])' /\ ~Stored(pos[p]) /\ pos[p] \in deq .. enq - 1
           /\ commit'[Off(pos[p])] = commit[Off(pos[p])]
           /\ \A o \in Offsets : commit'[o] = commit[o] \/ commit'[o] = Junk
           /\ \A q \in deq .. enq - 1 : Starts(q) /\ q # pos[p] =>
                 commit'[Off(q)] = commit[Off(q)] /\ image'[Off(q)] = image[Off(q)]
           /\ \A q \in deq .. enq - 1 : Stored(q)' <=> Stored(q) \/ q = pos[p]
           /\ \A q \in deq .. enq - 1 : Intact(q) => Intact(q)'
<1> DEFINE new == [pos |-> pos[p], total_len |-> Need(p), pad |-> padding[p],
                   msg |-> IF padding[p] THEN NoMsg ELSE cur[p]]
           q0 == pos[p]
           W == Written(p)
<1>1. /\ image' = [o \in Offsets |-> IF o \in W THEN new ELSE image[o]]
      /\ commit' = [o \in Offsets |-> IF o \in W \ {Off(q0)} THEN Junk ELSE commit[o]]
      /\ UNCHANGED <<enq, deq, pos, total, padding, cur>>
  BY DEF Fill, cursors, producer
<1>2. Fills(p)
  BY DEF Fills
<1>3. /\ Off(q0) \in W /\ W \subseteq Offsets
      /\ \A q \in deq .. enq - 1 : Off(q) \in W => q \in q0 .. q0 + Need(p) - 1
      /\ \A q \in deq .. enq - 1, n, i \in Nat :
            Entry(q, n) /\ i < n /\ q # q0 => Off(q) + i \notin W
  BY <1>2, WrittenApart
<1>4. /\ q0 \in deq .. enq - 1 /\ ~Stored(q0) /\ deq \in Nat /\ enq \in Nat /\ q0 \in Nat
      /\ Need(p) \in Nat /\ Need(p) # 0
  BY <1>2, NeedType DEF TypeOK, RingInv, OwnInv, Own, Fills, Sized
<1>5. new.pos = q0 /\ new.total_len = Need(p) /\ new.pad = padding[p]
      /\ new.msg = (IF padding[p] THEN NoMsg ELSE cur[p])
  OBVIOUS
<1>6. ~padding[p] => W = Off(q0) .. Off(q0) + RecordLen[cur[p]] - 1
  BY DEF Written
<1>7. q0' = q0
  BY <1>1
<1> HIDE DEF new, q0, W
<1>8. \A o \in Offsets : /\ image'[o] = IF o \in W THEN new ELSE image[o]
                         /\ commit'[o] = IF o \in W \ {Off(q0)} THEN Junk ELSE commit[o]
  BY <1>1
<1>9. \A q \in deq .. enq - 1 : q \in Nat /\ Off(q) \in Offsets
  BY <1>4, OffType
<1>10. image'[Off(q0)] = new /\ commit'[Off(q0)] = commit[Off(q0)]
  BY <1>3, <1>4, <1>8, <1>9
<1>11. \A q \in deq .. enq - 1 : Starts(q) /\ q # q0 => Off(q) \notin W
  <2> SUFFICES ASSUME NEW q \in deq .. enq - 1, Starts(q), q # q0  PROVE Off(q) \notin W
    OBVIOUS
  <2>1. PICK n \in Nat : Entry(q, n)
    BY <1>9, StartsEntry
  <2>2. n # 0
    BY <2>1 DEF RingInv, ChainInv
  <2>3. Off(q) + 0 \notin W
    BY <1>3, <2>1, <2>2
  <2>4. Off(q) + 0 = Off(q)
    BY <1>9 DEF Offsets
  <2> QED  BY <2>3, <2>4
<1>12. \A q \in deq .. enq - 1 : Starts(q) /\ q # q0 =>
                 commit'[Off(q)] = commit[Off(q)] /\ image'[Off(q)] = image[Off(q)]
  BY <1>8, <1>9, <1>11
<1>13. \A q : Stored(q)' <=> image'[Off(q)].pos = q /\ image'[Off(q)].total_len # 0
  BY DEF Stored
<1>14. \A q \in deq .. enq - 1 : Stored(q)' <=> Stored(q) \/ q = q0
  <2> SUFFICES ASSUME NEW q \in deq .. enq - 1
               PROVE  Stored(q)' <=> Stored(q) \/ q = q0
    OBVIOUS
  <2>1. CASE q = q0
    BY <1>4, <1>5, <1>10, <1>13, <2>1
  <2>2. CASE q # q0 /\ Off(q) \in W
    <3>1. ~Stored(q)
      BY <1>11, <2>2 DEF Starts
    <3>2. image'[Off(q)].pos = q0
      BY <1>5, <1>8, <1>9, <2>2
    <3> QED  BY <1>13, <2>2, <3>1, <3>2
  <2>3. CASE q # q0 /\ Off(q) \notin W
    BY <1>8, <1>9, <1>13, <2>3 DEF Stored
  <2> QED  BY <2>1, <2>2, <2>3
<1>15. \A q : Intact(q)' <=> /\ Stored(q)'
                             /\ ~image'[Off(q)].pad => \A i \in 0 .. RecordLen[image'[Off(q)].msg] - 1 :
                                   image'[Off(q) + i] = image'[Off(q)]
  BY DEF Intact
<1>16. Intact(q0)'
  <2>1. Stored(q0)'
    BY <1>4, <1>13, <1>14, <1>7
  <2>2. ASSUME ~padding[p], NEW i \in 0 .. RecordLen[cur[p]] - 1
        PROVE  image'[Off(q0) + i] = new
    <3>1. Off(q0) + i \in W
      BY <1>4, <1>6, <1>9, <2>2, Sizes DEF Offsets
    <3> QED  BY <1>3, <1>8, <3>1
  <2> QED  BY <1>5, <1>10, <1>15, <1>7, <2>1, <2>2
<1>17. \A q \in deq .. enq - 1 : Intact(q) => Intact(q)'
  <2> SUFFICES ASSUME NEW q \in deq .. enq - 1, Intact(q)  PROVE Intact(q)'
    OBVIOUS
  <2>1. Stored(q) /\ q # q0 /\ Stored(q)'
    BY <1>4, <1>14 DEF Intact
  <2>2. image'[Off(q)] = image[Off(q)]
    BY <1>12, <2>1 DEF Starts
  <2>3. ASSUME ~image[Off(q)].pad, NEW i \in 0 .. RecordLen[image[Off(q)].msg] - 1
        PROVE  image'[Off(q) + i] = image[Off(q) + i]
    <3> DEFINE n == image[Off(q)].total_len
    <3>1. Entry(q, n) /\ n \in Nat
      BY <1>9, <2>1, ImageType DEF Entry
    <3>2. image[Off(q)].msg \in Msgs /\ RecordLen[image[Off(q)].msg] <= n
      BY <1>9, <2>1, <2>3 DEF Stored, RingInv, MemInv
    <3> HIDE DEF n
    <3>3. i \in Nat /\ i < n
      BY <2>3, <3>1, <3>2, Sizes
    <3>4. Off(q) + i \notin W
      BY <1>3, <2>1, <3>1, <3>3
    <3>5. Off(q) + i \in Offsets
      BY <3>1, <3>3, EntryWords
    <3> QED  BY <1>8, <3>4, <3>5
  <2> QED  BY <1>15, <2>1, <2>2, <2>3 DEF Intact
<1> QED  BY <1>4, <1>8, <1>10, <1>12, <1>14, <1>16, <1>17 DEF new, q0

LEMMA RangeFilled ==
    ASSUME TypeOK, PcInv, RingInv, NEW p \in Producers, pc[p] = "fill", Sized(p), Fill(p),
           cur[p] \in Msgs, RecordLen[cur[p]] <= total[p]
    PROVE  RingInv'
<1> DEFINE q0 == pos[p]
           new == [pos |-> pos[p], total_len |-> Need(p), pad |-> padding[p],
                   msg |-> IF padding[p] THEN NoMsg ELSE cur[p]]
<1>1. /\ UNCHANGED <<enq, deq, pos, total, padding, cur>>
      /\ pc'[p] = "publish" /\ \A r \in Producers \ {p} : pc'[r] = pc[r]
  BY DEF Fill, cursors, producer, Goto, PcInv, Threads
<1>2. /\ image'[Off(q0)] = new
      /\ Intact(q0)' /\ ~Stored(q0) /\ q0 \in deq .. enq - 1
      /\ commit'[Off(q0)] = commit[Off(q0)]
      /\ \A o \in Offsets : commit'[o] = commit[o] \/ commit'[o] = Junk
      /\ \A q \in deq .. enq - 1 : Starts(q) /\ q # q0 =>
            commit'[Off(q)] = commit[Off(q)] /\ image'[Off(q)] = image[Off(q)]
      /\ \A q \in deq .. enq - 1 : Stored(q)' <=> Stored(q) \/ q = q0
      /\ \A q \in deq .. enq - 1 : Intact(q) => Intact(q)'
  BY FillMem
<1>3. /\ deq \in Nat /\ enq \in Nat /\ q0 \in Nat /\ Need(p) \in Nat /\ Need(p) # 0
      /\ \A q \in deq .. enq - 1 : q \in Nat /\ Off(q) \in Offsets
  <2>1. deq \in Nat /\ enq \in Nat /\ q0 \in Nat /\ Need(p) \in Nat /\ Need(p) # 0
    BY NeedType DEF TypeOK, Sized
  <2> QED  BY <2>1, OffType
<1>4. new.pos = q0 /\ new.total_len = Need(p) /\ new.pad = padding[p]
      /\ new.msg = (IF padding[p] THEN NoMsg ELSE cur[p])
  OBVIOUS
<1>5. \A r \in Producers : /\ Fills(r)' <=> Fills(r) /\ r # p
                           /\ Own(r)' <=> Own(r)
                           /\ pos'[r] = pos[r] /\ Need(r)' = Need(r)
  BY <1>1 DEF Fills, Own, Need
<1>6. \A r \in Producers : Own(r) /\ pos[r] = q0 => r = p
  BY DEF RingInv, OwnInv, Own
<1>7. ~padding[p] => RecordLen[cur[p]] <= Need(p)
  BY DEF Need
<1>8. \A o \in Offsets : image'[o] = image[o] \/ image'[o] = new
  BY DEF Fill
<1>9. q0' = q0
  BY <1>1
<1> HIDE DEF new, q0
<1>10. \A q \in deq .. enq - 1 : Filled(q) <=> Filled(q)' \/ q = q0
  <2>1. Filled(q0)
    BY DEF Filled, Fills, q0
  <2>2. \A q : Filled(q) <=> Filled(q)' \/ q = q0
    BY <1>5, <2>1 DEF Filled, q0
  <2> QED  BY <2>2
<1>11. \A q \in deq .. enq - 1 : Starts(q)' <=> Starts(q)
  BY <1>2, <1>10 DEF Starts
<1>12. \A q \in deq .. enq - 1 : \A n : Entry(q, n)' <=> Entry(q, n)
  <2> SUFFICES ASSUME NEW q \in deq .. enq - 1, NEW n
               PROVE  Entry(q, n)' <=> Entry(q, n)
    OBVIOUS
  <2>1. CASE q = q0
    <3>1. Entry(q, n)' <=> n = Need(p)
      BY <1>2, <1>4, <1>5, <1>6, <2>1, <1>9 DEF Entry, Fills, Own, q0
    <3>2. Entry(q, n) <=> n = Need(p)
      BY <1>2, <1>6, <2>1 DEF Entry, Fills, Own, q0
    <3> QED  BY <3>1, <3>2
  <2>2. CASE q # q0
    <3>1. Stored(q) => image'[Off(q)] = image[Off(q)]
      BY <1>2, <2>2 DEF Starts
    <3>2. Stored(q)' <=> Stored(q)
      BY <1>2, <2>2
    <3> QED  BY <1>5, <2>2, <3>1, <3>2 DEF Entry, q0
  <2> QED  BY <2>1, <2>2
<1>13. ChainInv'
  <2>1. \A q \in deq .. enq - 1, n \in Nat :
          Entry(q, n)' =>
              /\ n # 0 /\ q + n <= enq /\ Off(q) + n <= Capacity
              /\ q + n = enq \/ Starts(q + n)'
              /\ \A r \in q + 1 .. q + n - 1 : ~Starts(r)'
    <3> SUFFICES ASSUME NEW q \in deq .. enq - 1, NEW n \in Nat, Entry(q, n)
                 PROVE  /\ n # 0 /\ q + n <= enq /\ Off(q) + n <= Capacity
                        /\ q + n = enq \/ Starts(q + n)'
                        /\ \A r \in q + 1 .. q + n - 1 : ~Starts(r)'
      BY <1>12
    <3>1. /\ n # 0 /\ q + n <= enq /\ Off(q) + n <= Capacity
          /\ q + n = enq \/ Starts(q + n)
          /\ \A r \in q + 1 .. q + n - 1 : ~Starts(r)
      BY DEF RingInv, ChainInv
    <3>2. q + n # enq => q + n \in deq .. enq - 1
      BY <1>3, <3>1
    <3>3. \A r \in q + 1 .. q + n - 1 : r \in deq .. enq - 1
      BY <1>3, <3>1
    <3> QED  BY <1>11, <3>1, <3>2, <3>3
  <2>2. deq # enq => deq \in deq .. enq - 1
    BY <1>3 DEF RingInv, ChainInv
  <2> QED  BY <1>1, <1>11, <2>1, <2>2 DEF RingInv, ChainInv
<1>14. \A q \in deq .. enq - 1 : commit'[Off(q)] \in {q + 1, q + 2} => Intact(q)
  <2> SUFFICES ASSUME NEW q \in deq .. enq - 1, commit'[Off(q)] \in {q + 1, q + 2}
               PROVE  Intact(q)
    OBVIOUS
  <2>1. commit'[Off(q)] \in Nat
    BY <1>3
  <2>2. commit'[Off(q)] = commit[Off(q)]
    BY <1>2, <1>3, <2>1, Sizes
  <2> QED  BY <2>2 DEF RingInv, MemInv
<1>15. MemInv'
  <2>1. \A o \in Offsets : image'[o].total_len # 0 =>
              /\ image'[o].pos < enq
              /\ ~image'[o].pad => /\ image'[o].msg \in Msgs
                                   /\ RecordLen[image'[o].msg] <= image'[o].total_len
    <3> SUFFICES ASSUME NEW o \in Offsets, image'[o].total_len # 0
                 PROVE  /\ image'[o].pos < enq
                        /\ ~image'[o].pad => /\ image'[o].msg \in Msgs
                                             /\ RecordLen[image'[o].msg] <= image'[o].total_len
      OBVIOUS
    <3>1. CASE image'[o] = image[o]
      BY <3>1 DEF RingInv, MemInv
    <3>2. CASE image'[o] = new
      BY <1>2, <1>3, <1>4, <1>7, <3>2
    <3> QED  BY <1>8, <3>1, <3>2
  <2>2. \A o \in Offsets :
          \/ commit'[o] = Junk \/ commit'[o] = 0
          \/ \E q \in 0 .. enq - 1 : Off(q) = o /\ commit'[o] \in {q + 1, q + 2}
    BY <1>2 DEF RingInv, MemInv
  <2> QED  BY <1>1, <1>2, <1>14, <2>1, <2>2 DEF MemInv
<1>16. OwnInv'
  <2> SUFFICES ASSUME NEW r \in Producers, Own(r)
               PROVE  /\ pos[r] \in deq .. enq - 1
                      /\ Fills(r)' => ~Stored(pos[r])'
                      /\ pc'[r] = "publish" => Intact(pos[r])'
                      /\ pc'[r] # "invalidate" => commit'[Off(pos[r])] = 0
    BY <1>1, <1>5 DEF RingInv, OwnInv
  <2>1. /\ pos[r] \in deq .. enq - 1
        /\ Fills(r) => ~Stored(pos[r])
        /\ pc[r] = "publish" => Intact(pos[r])
        /\ pc[r] # "invalidate" => commit[Off(pos[r])] = 0
    BY DEF RingInv, OwnInv
  <2>2. CASE r = p
    BY <1>1, <1>2, <1>5, <1>9, <2>1, <2>2 DEF q0
  <2>3. CASE r # p
    <3>1. pos[r] # q0 /\ pos[r]' = pos[r] /\ pc'[r] = pc[r]
      BY <1>1, <1>6, <2>3
    <3>2. Starts(pos[r])
      BY <2>1 DEF Starts, Filled, Intact, Own, Fills
    <3>3. commit'[Off(pos[r])] = commit[Off(pos[r])]
      BY <1>2, <2>1, <3>1, <3>2
    <3>4. \A q \in deq .. enq - 1 : q = pos[r] => (Stored(pos[r])' <=> Stored(q)') /\ (Intact(pos[r])' <=> Intact(q)')
      BY <3>1 DEF Stored, Intact
    <3>5. (Stored(pos[r])' <=> Stored(pos[r])) /\ (Intact(pos[r]) => Intact(pos[r])')
      BY <1>2, <2>1, <3>1, <3>4
    <3>6. Fills(r)' => Fills(r)
      BY <1>5
    <3> QED  BY <2>1, <3>1, <3>3, <3>5, <3>6
  <2> QED  BY <2>2, <2>3
<1> QED  BY <1>13, <1>15, <1>16 DEF RingInv

-----------------------------------------------------------------------------
(* The program counters *)

LEMMA GotoMoves ==
    ASSUME PcInv, NEW t \in Threads, NEW l \in PutPcs \cup GetPcs, Goto(t, l)
    PROVE  /\ pc' \in [Threads -> PutPcs \cup GetPcs]
           /\ pc'[t] = l /\ \A u \in Threads \ {t} : pc'[u] = pc[u]
BY DEF PcInv, Goto

LEMMA PutMoves ==
    ASSUME PcInv, NEW p \in Producers, NEW l \in PutPcs, Goto(p, l), pc[p] # "idle" \/ MayPut(p),
           UNCHANGED <<config, kick, consumer_waiting, view>>
    PROVE  /\ PcInv' /\ pc'[p] = l
           /\ \A r \in Producers \ {p} : pc'[r] = pc[r]
           /\ \A c \in Consumers : pc'[c] = pc[c]
<1>1. p \in Threads /\ Producers \subseteq Threads /\ Consumers \subseteq Threads
      /\ p \notin Consumers
  BY ThreadAssumption DEF Threads
<1>2. /\ pc' \in [Threads -> PutPcs \cup GetPcs]
      /\ pc'[p] = l /\ \A u \in Threads \ {p} : pc'[u] = pc[u]
  BY <1>1, GotoMoves
<1>3. \A r \in Producers \ {p} : pc'[r] = pc[r]
  BY <1>1, <1>2
<1>4. \A c \in Consumers : pc'[c] = pc[c]
  BY <1>1, <1>2
<1>5. Waiters' = Waiters
  BY <1>4 DEF Waiters
<1>6. \A c \in kick : pc'[c] = "asleep"
  <2>1. \A c \in kick : pc[c] = "asleep"
    BY DEF PcInv
  <2>2. \A c \in kick : c \in Threads
    BY <1>1 DEF PcInv
  <2>3. p \in kick => FALSE
    BY <2>1 DEF PcInv, PutPcs
  <2> QED  BY <1>2, <2>1, <2>2, <2>3
<1>7. /\ \A r \in Producers : pc'[r] \in PutPcs
      /\ \A c \in Consumers : pc'[c] \in GetPcs
  BY <1>2, <1>3, <1>4 DEF PcInv
<1>8. mode = SPSC => \A q, r \in Producers : pc'[q] # "idle" /\ pc'[r] # "idle" => q = r
  BY <1>3 DEF PcInv, MayPut, At
<1> QED  BY <1>2, <1>3, <1>4, <1>5, <1>6, <1>7, <1>8 DEF PcInv, config

(* What the local variables of a consumer look like where it stands. *)
Local(l, v) ==
    /\ l \in {"fresh_again", "claim"} => mode = MPMC
    /\ l = "revalidate" => mode # MPMC /\ Len(v) = 2
    /\ l \in {"copy", "advance"} => Len(v) >= 1
    /\ l = "copy" => Len(v) = 1 /\ v[1].msg \in Msgs

Waits(l) == l \in {"recheck", "asleep", "relock", "unpark"}

LEMMA GetMoves ==
    ASSUME PcInv, NEW c \in Consumers, NEW l \in GetPcs, Goto(c, l), pc[c] # "idle" \/ MayGet(c),
           NEW v \in Seq(Mem), view' = [view EXCEPT ![c] = v], Local(l, v),
           kick' \subseteq kick \cup {c}, c \in kick' => l = "asleep",
           \/ consumer_waiting' = consumer_waiting /\ (Waits(l) <=> Waits(pc[c]))
           \/ consumer_waiting' = consumer_waiting + 1 /\ ~Waits(pc[c]) /\ Waits(l)
           \/ consumer_waiting' = consumer_waiting - 1 /\ Waits(pc[c]) /\ ~Waits(l),
           UNCHANGED config
    PROVE  /\ PcInv' /\ pc'[c] = l /\ view'[c] = v
           /\ \A d \in Consumers \ {c} : pc'[d] = pc[d] /\ view'[d] = view[d]
           /\ \A p \in Producers : pc'[p] = pc[p]
<1>1. c \in Threads /\ Producers \subseteq Threads /\ Consumers \subseteq Threads
      /\ c \notin Producers
  BY ThreadAssumption DEF Threads
<1>2. /\ pc' \in [Threads -> PutPcs \cup GetPcs]
      /\ pc'[c] = l /\ \A u \in Threads \ {c} : pc'[u] = pc[u]
  BY <1>1, GotoMoves
<1>3. \A r \in Producers : pc'[r] = pc[r]
  BY <1>1, <1>2
<1>4. \A d \in Consumers \ {c} : pc'[d] = pc[d]
  BY <1>1, <1>2
<1>5. /\ view' \in [Consumers -> Seq(Mem)] /\ view'[c] = v
      /\ \A d \in Consumers \ {c} : view'[d] = view[d]
  BY DEF PcInv
<1>6. \A d \in kick' : pc'[d] = "asleep"
  <2>1. \A d \in kick : pc[d] = "asleep"
    BY DEF PcInv
  <2>2. \A d \in kick \ {c} : pc'[d] = pc[d]
    BY DEF PcInv, Goto
  <2> QED  BY <1>2, <2>1, <2>2
<1>7. IsFiniteSet(Waiters') /\ consumer_waiting' = Cardinality(Waiters')
  <2>1. \A d \in Consumers : d \in Waiters <=> Waits(pc[d])
    BY DEF Waiters, Waits
  <2>2. \A d \in Consumers : d \in Waiters' <=> Waits(pc'[d])
    BY DEF Waiters, Waits
  <2>3. Waiters \subseteq Consumers /\ Waiters' \subseteq Consumers
    BY DEF Waiters
  <2>4. IsFiniteSet(Waiters) /\ consumer_waiting = Cardinality(Waiters)
    BY DEF PcInv
  <2>5. CASE Waits(l) <=> Waits(pc[c])
    <3>1. Waiters' = Waiters
      BY <1>2, <1>4, <2>1, <2>2, <2>3, <2>5
    <3> QED  BY <2>4, <2>5, <3>1
  <2>6. CASE consumer_waiting' = consumer_waiting + 1 /\ ~Waits(pc[c]) /\ Waits(l)
    <3>1. Waiters' = Waiters \cup {c} /\ c \notin Waiters
      BY <1>2, <1>4, <2>1, <2>2, <2>3, <2>6
    <3> QED  BY <2>4, <2>6, <3>1, FS_AddElement
  <2>7. CASE consumer_waiting' = consumer_waiting - 1 /\ Waits(pc[c]) /\ ~Waits(l)
    <3>1. Waiters' = Waiters \ {c} /\ c \in Waiters
      BY <1>2, <1>4, <2>1, <2>2, <2>3, <2>7
    <3> QED  BY <2>4, <2>7, <3>1, FS_RemoveElement
  <2> QED  BY <2>5, <2>6, <2>7
<1>8. /\ \A r \in Producers : pc'[r] \in PutPcs
      /\ \A d \in Consumers : pc'[d] \in GetPcs
  BY <1>2, <1>3, <1>4 DEF PcInv
<1>9. mode # MPMC => \A d, e \in Consumers : pc'[d] # "idle" /\ pc'[e] # "idle" => d = e
  <2>1. mode # MPMC => \A d \in Consumers \ {c} : pc[d] = "idle"
    BY DEF PcInv, MayGet, At
  <2> QED  BY <1>4, <2>1
<1>10. mode' = mode /\ policy' = policy
  BY DEF config
<1>11. \A d \in Consumers : Local(pc'[d], view'[d])
  BY <1>2, <1>4, <1>5 DEF PcInv, Local
<1>12. mode = SPSC => \A q, r \in Producers : pc'[q] # "idle" /\ pc'[r] # "idle" => q = r
  BY <1>3 DEF PcInv
<1>13. PcInv'
  BY <1>2, <1>5, <1>6, <1>7, <1>8, <1>9, <1>10, <1>11, <1>12 DEF PcInv, Local
<1> QED  BY <1>2, <1>3, <1>4, <1>5, <1>13

(* A broadcast: who sleeps goes for the mutex. *)
LEMMA WakeMoves ==
    ASSUME PcInv, kick' = {}, UNCHANGED <<config, consumer_waiting, view>>,
           NEW T, T \subseteq Producers, NEW l, T # {} => l = "idle",
           pc' = [u \in Threads |-> IF u \in T THEN l ELSE IF u \in kick THEN "relock" ELSE pc[u]]
    PROVE  /\ PcInv'
           /\ \A p \in T : pc'[p] = "idle"
           /\ \A p \in Producers \ T : pc'[p] = pc[p]
           /\ \A c \in Consumers : pc'[c] = pc[c] \/ (pc[c] = "asleep" /\ pc'[c] = "relock")
<1>1. /\ Producers \subseteq Threads /\ Consumers \subseteq Threads
      /\ \A c \in Consumers : c \notin T
      /\ \A p \in Producers : p \notin kick
      /\ \A c \in kick : pc[c] = "asleep"
  BY ThreadAssumption DEF Threads, PcInv, PutPcs
<1>2. \A p \in T : pc'[p] = "idle"
  BY <1>1
<1>3. \A p \in Producers \ T : pc'[p] = pc[p]
  BY <1>1
<1>4. \A c \in Consumers : pc'[c] = pc[c] \/ (pc[c] = "asleep" /\ pc'[c] = "relock")
  BY <1>1
<1>5. Waiters' = Waiters
  BY <1>4 DEF Waiters
<1>6. pc' \in [Threads -> PutPcs \cup GetPcs]
  BY DEF PcInv, PutPcs, GetPcs
<1>7. \A p \in Producers : pc'[p] = pc[p] \/ pc'[p] = "idle"
  BY <1>2, <1>3
<1>8. /\ \A p \in Producers : pc'[p] \in PutPcs
      /\ \A c \in Consumers : pc'[c] \in GetPcs
  BY <1>4, <1>7 DEF PcInv, PutPcs, GetPcs
<1>9. mode' = mode /\ policy' = policy
  BY DEF config
<1>10. PcInv'
  BY <1>4, <1>5, <1>6, <1>7, <1>8, <1>9 DEF PcInv
<1> QED  BY <1>2, <1>3, <1>4, <1>10

-----------------------------------------------------------------------------
(* What a step of somebody else leaves to a thread *)

(* In a single-producer build the others are outside put. *)
LEMMA PutOthers ==
    ASSUME TypeOK, PcInv, PutInv, PcInv', NEW p \in Producers, deq' \in Nat, deq <= deq',
           UNCHANGED config, mode = SPSC => pc[p] # "idle" \/ pc'[p] # "idle",
           \A r \in Producers \ {p} : /\ pc'[r] = pc[r] /\ pos'[r] = pos[r] /\ total'[r] = total[r]
                                      /\ padding'[r] = padding[r] /\ cur'[r] = cur[r]
    PROVE  \A r \in Producers \ {p} : PutOk(r)'
<1> SUFFICES ASSUME NEW r \in Producers \ {p}  PROVE PutOk(r)'
  OBVIOUS
<1>1. /\ pc'[r] = pc[r] /\ pos'[r] = pos[r] /\ total'[r] = total[r]
      /\ padding'[r] = padding[r] /\ cur'[r] = cur[r] /\ mode' = mode /\ policy' = policy
  BY DEF config
<1>2. Need(r)' = Need(r) /\ Need(r) \in Nat /\ pos[r] \in Nat /\ deq \in Nat
  BY <1>1, NeedType DEF Need, TypeOK
<1>3. (Sized(r)' <=> Sized(r)) /\ (Own(r)' <=> Own(r))
  BY <1>1, <1>2 DEF Sized, Own
<1>4. pc[r] # "idle" => mode # SPSC /\ policy # Overwrite
  BY <1>1 DEF PcInv
<1> QED  BY <1>1, <1>2, <1>3, <1>4, Sizes DEF PutInv, PutOk

(* Producers stand still, or leave put, while deq may move. *)
LEMMA PutKept ==
    ASSUME TypeOK, PcInv, PutInv, deq' \in Nat, deq <= deq',
           \A p \in Producers : pc'[p] = pc[p] \/ pc'[p] = "idle",
           UNCHANGED <<config, enq, producer>>, commit' = commit \/ mode # SPSC
    PROVE  PutInv'
<1> SUFFICES ASSUME NEW r \in Producers, pc'[r] = pc[r]  PROVE PutOk(r)'
  BY DEF PutInv, PutOk, Own
<1>1. /\ pos'[r] = pos[r] /\ total'[r] = total[r] /\ victim'[r] = victim[r]
      /\ padding'[r] = padding[r] /\ cur'[r] = cur[r] /\ mode' = mode /\ policy' = policy
  BY DEF config, producer
<1>2. Need(r)' = Need(r) /\ Need(r) \in Nat /\ pos[r] \in Nat /\ deq \in Nat /\ victim[r] \in Nat
  BY <1>1, NeedType DEF Need, TypeOK
<1>3. (Sized(r)' <=> Sized(r)) /\ (Own(r)' <=> Own(r))
  BY <1>1, <1>2 DEF Sized, Own
<1>4. pc[r] = "evict_cas" => mode = SPSC
  BY DEF PcInv, PutInv, PutOk
<1>5. PutOk(r)
  BY DEF PutInv
<1>6. pc[r] = "evict_cas" /\ victim[r] = deq' => deq' = deq /\ commit'[Off(deq')] = 0
  BY <1>2, <1>4, <1>5 DEF PutOk
<1> QED  BY <1>1, <1>2, <1>3, <1>5, <1>6, Sizes DEF PutOk

LEMMA GetFrame ==
    ASSUME TypeOK, NEW c \in Consumers, GetOk(c), UNCHANGED config,
           Reads(c)' => pc'[c] = pc[c] /\ at'[c] = at[c] /\ view'[c] = view[c],
           enq' \in Nat, enq <= enq', deq' \in Nat, deq <= deq',
           Reads(c) => /\ mode # MPMC /\ policy # Overwrite => deq' = deq
                       /\ at[c] < deq' => commit'[Off(at[c])] # at[c] + 1,
           Past(c) => /\ mode = MPMC => deq' = deq /\ commit'[Off(deq)] = commit[Off(deq)]
                      /\ at[c] = deq => image'[Off(at[c])] = image[Off(at[c])]
                      /\ \A q : q = at[c] /\ q = deq /\ Intact(q) => Intact(q)'
                      /\ \A p \in Producers : pc'[p] = "publish" => at[c] # pos'[p]
    PROVE  GetOk(c)'
<1>1. deq \in Nat /\ enq \in Nat /\ at[c] \in Nat /\ mode' = mode /\ policy' = policy
  BY DEF TypeOK, config
<1> SUFFICES ASSUME Reads(c)'  PROVE GetOk(c)'
  BY DEF GetOk, Reads, Past
<1>2. /\ pc'[c] = pc[c] /\ at'[c] = at[c] /\ view'[c] = view[c]
      /\ Reads(c) /\ (Past(c)' <=> Past(c)) /\ (Copied(c)' <=> Copied(c))
  BY DEF Reads, Past, Copied
<1>3. /\ at[c] <= deq /\ at[c] < enq
      /\ mode # MPMC /\ policy # Overwrite => at[c] = deq
      /\ at[c] < deq => commit[Off(at[c])] # at[c] + 1
  BY <1>2 DEF GetOk
<1>4. at[c] = deq' => at[c] = deq /\ deq' = deq
  BY <1>1, <1>3
<1>5. \A q : q = at[c] => (Intact(at[c])' <=> Intact(q)')
  BY <1>2 DEF Intact, Stored
<1>6. Past(c) /\ at[c] = deq' => Intact(at[c])'
  <2> SUFFICES ASSUME Past(c), at[c] = deq'  PROVE Intact(at[c])'
    OBVIOUS
  <2>1. at[c] = deq /\ Intact(at[c])
    BY <1>4 DEF GetOk
  <2>2. \A q : q = at[c] => Intact(q)'
    BY <2>1 DEF Intact, Stored
  <2> QED  BY <1>5, <2>2
<1> QED  BY <1>1, <1>2, <1>3, <1>4, <1>6 DEF GetOk

(* Nothing changes between the cursors, and nobody gets ready to publish.  *)
LEMMA GetGrown ==
    ASSUME TypeOK, GetInv, UNCHANGED <<config, deq, memory, consumer>>,
           enq' \in Nat, enq <= enq',
           \A c \in Consumers : pc'[c] = pc[c] \/ (pc[c] = "asleep" /\ pc'[c] = "relock"),
           \A p \in Producers : pc'[p] = "publish" => pc[p] = "publish" /\ pos'[p] = pos[p]
    PROVE  GetInv'
<1>1. /\ deq' = deq /\ commit' = commit /\ image' = image
      /\ at' = at /\ view' = view /\ mode' = mode
  BY DEF config, memory, consumer
<1>2. \A q : Intact(q)' <=> Intact(q)
  BY <1>1 DEF Intact, Stored
<1>3. \A c \in Consumers : (Reads(c)' <=> Reads(c)) /\ (Past(c)' <=> Past(c))
  BY DEF Reads, Past
<1>4. \A c \in Consumers : GetOk(c)'
  <2> SUFFICES ASSUME NEW c \in Consumers  PROVE GetOk(c)'
    OBVIOUS
  <2>1. deq \in Nat /\ enq \in Nat
    BY DEF TypeOK
  <2>2. Reads(c)' => pc'[c] = pc[c]
    BY DEF Reads
  <2>3. GetOk(c)
    BY DEF GetInv
  <2> QED  BY <1>1, <1>2, <2>1, <2>2, <2>3, GetFrame DEF GetOk
<1> QED  BY <1>1, <1>3, <1>4 DEF GetInv, OneLease

LEMMA GetQuiet ==
    ASSUME TypeOK, GetInv, UNCHANGED <<config, cursors, memory, consumer>>,
           \A c \in Consumers : pc'[c] = pc[c] \/ (pc[c] = "asleep" /\ pc'[c] = "relock"),
           \A p \in Producers : pc'[p] = "publish" => pc[p] = "publish" /\ pos'[p] = pos[p]
    PROVE  GetInv'
<1>1. enq' \in Nat /\ enq <= enq' /\ deq' = deq
  BY DEF cursors, TypeOK
<1> QED  BY <1>1, GetGrown

(* A producer outside its range goes on outside of it. *)
LEMMA PutQuiet ==
    ASSUME FInv, NEW p \in Producers, NEW l \in PutPcs, Goto(p, l), pc[p] # "idle" \/ MayPut(p),
           pc[p] # "idle" \/ l # "idle",
           UNCHANGED <<config, cursors, memory, kick, consumer_waiting, consumer>>,
           ~Own(p), l \notin {"invalidate", "fill", "publish"},
           \A r \in Producers \ {p} : /\ pos'[r] = pos[r] /\ total'[r] = total[r]
                                      /\ padding'[r] = padding[r] /\ cur'[r] = cur[r],
           PutOk(p)'
    PROVE  Sound'
<1>1. TypeOK /\ PcInv /\ RingInv /\ PutInv /\ GetInv
  BY DEF FInv, Sound
<1>2. /\ PcInv' /\ pc'[p] = l
      /\ \A r \in Producers \ {p} : pc'[r] = pc[r]
      /\ \A c \in Consumers : pc'[c] = pc[c]
  BY <1>1, PutMoves DEF consumer
<1>3. /\ enq' = enq /\ deq' = deq /\ commit' = commit /\ image' = image
      /\ at' = at /\ view' = view
  BY DEF cursors, memory, consumer
<1>4. OwnSame
  BY <1>2 DEF OwnSame, RangesSame, Own, Fills
<1>5. RingInv'
  BY <1>1, <1>3, <1>4, RingSame
<1>6. GetInv'
  BY <1>1, <1>2, <1>3, GetQuiet DEF Own
<1>7. PutInv'
  <2>1. deq \in Nat
    BY <1>1 DEF TypeOK
  <2>2. \A r \in Producers \ {p} : PutOk(r)'
    BY <1>1, <1>2, <1>3, <2>1, PutOthers
  <2> QED  BY <2>2 DEF PutInv
<1> QED  BY <1>2, <1>5, <1>6, <1>7 DEF Sound

(* Nobody moves. *)
LEMMA Still ==
    ASSUME FInv, UNCHANGED <<config, cursors, memory, pc, producer, consumer, kick, consumer_waiting>>
    PROVE  Sound'
<1>1. TypeOK /\ PcInv /\ RingInv /\ PutInv /\ GetInv
  BY DEF FInv, Sound
<1>2. /\ enq' = enq /\ deq' = deq /\ commit' = commit /\ image' = image /\ view' = view
      /\ pos' = pos /\ total' = total /\ padding' = padding /\ cur' = cur
      /\ mode' = mode /\ policy' = policy
  BY DEF cursors, memory, consumer, producer, config
<1>3. PcInv'
  BY <1>1, <1>2 DEF PcInv, Waiters
<1>4. RingInv'
  BY <1>1, <1>2, RingSame DEF OwnSame, RangesSame, Own, Fills
<1>5. PutInv'
  BY <1>1, <1>2, PutKept DEF TypeOK
<1>6. GetInv'
  BY <1>1, <1>2, GetQuiet
<1> QED  BY <1>3, <1>4, <1>5, <1>6 DEF Sound

LEMMA HoldsSame ==
    ASSUME UNCHANGED <<cursors, image>>
    PROVE  \A q, m : Holds(q, m)' <=> Holds(q, m)
BY DEF Holds, Stored, cursors

(* The records where they were. *)
LEMMA MsgSame ==
    ASSUME TypeOK, MsgInv, status' = status,
           \A m \in Msgs, q \in Nat : Holds(q, m)' <=> Holds(q, m),
           \A m \in Msgs, p \in Producers : Brings(p, m)' <=> Brings(p, m),
           \A p \in Producers : /\ pc'[p] # "idle" => pc[p] # "idle" /\ cur'[p] = cur[p]
                                /\ Putting(p)' => Putting(p)
    PROVE  MsgInv'
<1>1. \A p \in Producers : Putting(p)' => pc'[p] # "idle"
  BY DEF Putting, Own
<1> QED  BY <1>1 DEF MsgInv

(* A record outside the ring changes its state. *)
LEMMA MsgOutside ==
    ASSUME TypeOK, MsgInv, NEW m \in Msgs, status[m] \in {"new", "putting"},
           NEW s \in {"putting", "dropped"}, status' = [status EXCEPT ![m] = s],
           UNCHANGED <<cursors, image>>,
           NEW p \in Producers, pc'[p] # "idle" => cur'[p] = m /\ s = "putting",
           pc[p] # "idle" => cur[p] = m, pc[p] # "idle" \/ status[m] = "new",
           ~Fills(p), ~Fills(p)',
           \A r \in Producers \ {p} : pc'[r] = pc[r] /\ cur'[r] = cur[r] /\ padding'[r] = padding[r]
    PROVE  MsgInv'
<1>1. \A n \in Msgs, q \in Nat : Holds(q, n)' <=> Holds(q, n)
  BY HoldsSame
<1>2. \A n \in Msgs, r \in Producers : Brings(r, n)' <=> Brings(r, n)
  BY DEF Brings, Fills
<1>3. \A r \in Producers \ {p} : pc[r] # "idle" => cur[r] # m
  BY DEF MsgInv
<1>4. /\ status' \in [Msgs -> {"new", "putting", "queued", "got", "evicted", "dropped"}]
      /\ status'[m] = s /\ \A n \in Msgs \ {m} : status'[n] = status[n]
  BY DEF MsgInv
<1>5. \A n \in Msgs : status'[n] = "queued" <=> status[n] = "queued"
  BY <1>4
<1>6. \A r \in Producers \ {p} : /\ Putting(r)' <=> Putting(r)
                                 /\ Putting(r) => pc[r] # "idle"
  BY DEF Putting, Own
<1>7. \A r \in Producers : pc'[r] # "idle" => status'[cur'[r]] # "new"
  <2> SUFFICES ASSUME NEW r \in Producers, pc'[r] # "idle"  PROVE status'[cur'[r]] # "new"
    OBVIOUS
  <2>1. CASE r = p
    BY <1>4, <2>1
  <2>2. CASE r # p
    BY <1>3, <2>2 DEF MsgInv
  <2> QED  BY <2>1, <2>2
<1>8. \A r \in Producers : Putting(r)' => status'[cur'[r]] = "putting"
  <2> SUFFICES ASSUME NEW r \in Producers, Putting(r)'  PROVE status'[cur'[r]] = "putting"
    OBVIOUS
  <2>1. CASE r = p
    BY <1>4, <2>1 DEF Putting, Own
  <2>2. CASE r # p
    BY <1>3, <1>6, <2>2 DEF MsgInv
  <2> QED  BY <2>1, <2>2
<1>9. \A q, r \in Producers : pc'[q] # "idle" /\ pc'[r] # "idle" /\ cur'[q] = cur'[r] => q = r
  BY <1>3 DEF MsgInv
<1> QED  BY <1>1, <1>2, <1>4, <1>5, <1>7, <1>8, <1>9 DEF MsgInv

-----------------------------------------------------------------------------
(* The steps of put that leave the ring as it is *)

LEMMA PutCallSafe ==
    ASSUME FInv, NEW p \in Producers, NEW m \in Msgs, PutCall(p, m)
    PROVE  Sound' /\ MsgInv'
<1>1. /\ TypeOK /\ MsgInv /\ pc[p] = "idle" /\ MayPut(p) /\ status[m] = "new"
      /\ UNCHANGED <<config, cursors, memory, pos, padding, victim, consumer, kick, consumer_waiting>>
  BY DEF FInv, PutCall, At, parking
<1>2. UNCHANGED <<cursors, image>> /\ ~Fills(p) /\ ~Own(p) /\ padding' = padding /\ pos' = pos
  BY <1>1 DEF memory, Fills, Own
<1>3. CASE ~closed
  <2>1. /\ cur' = [cur EXCEPT ![p] = m] /\ total' = [total EXCEPT ![p] = RecordLen[m]]
        /\ status' = [status EXCEPT ![m] = "putting"] /\ Goto(p, "load_enq")
    BY <1>3 DEF PutCall
  <2>2. /\ pc'[p] = "load_enq" /\ cur'[p] = m /\ total'[p] = RecordLen[m]
        /\ \A r \in Producers \ {p} : pc'[r] = pc[r] /\ cur'[r] = cur[r] /\ total'[r] = total[r]
    BY <1>1, <2>1, PutMoves DEF FInv, Sound, TypeOK, PutPcs, consumer
  <2>3. PutOk(p)'
    BY <2>2, Sizes DEF PutOk, Own
  <2>4. Sound'
    BY <1>1, <1>2, <2>1, <2>2, <2>3, PutQuiet DEF PutPcs
  <2>5. MsgInv'
    BY <1>1, <1>2, <2>1, <2>2, MsgOutside DEF Fills
  <2> QED  BY <2>4, <2>5
<1>4. CASE closed
  <2>1. status' = [status EXCEPT ![m] = "dropped"] /\ UNCHANGED <<pc, cur, total>>
    BY <1>4 DEF PutCall, Refused
  <2>2. Sound'
    BY <1>1, <2>1, Still DEF producer
  <2>3. MsgInv'
    BY <1>1, <1>2, <2>1, MsgOutside DEF Fills
  <2> QED  BY <2>2, <2>3
<1> QED  BY <1>3, <1>4

LEMMA LoadEnqSafe ==
    ASSUME FInv, NEW p \in Producers, LoadEnq(p)
    PROVE  Sound' /\ MsgInv'
<1> DEFINE gap == Capacity - Off(enq)
           pad == gap < total[p]
<1>1. /\ TypeOK /\ MsgInv /\ pc[p] = "load_enq" /\ Goto(p, "space")
      /\ pos' = [pos EXCEPT ![p] = enq] /\ padding' = [padding EXCEPT ![p] = pad]
      /\ total' = [total EXCEPT ![p] = IF ~pad /\ gap < total[p] + MinPad THEN gap ELSE total[p]]
      /\ UNCHANGED <<config, cursors, memory, cur, status, consumer, kick, consumer_waiting>>
  BY DEF FInv, LoadEnq, At, parking, history
<1>2. /\ enq \in Nat /\ total[p] \in Nat /\ Off(enq) \in Nat /\ gap \in Nat /\ MinPad <= gap /\ gap # 0
      /\ cur[p] \in Msgs /\ RecordLen[cur[p]] <= total[p] /\ RecordLen[cur[p]] \in Nat
      /\ MinPad <= RecordLen[cur[p]] /\ MinPad \in Nat /\ MinPad # 0
  <2>1. enq \in Nat /\ total[p] \in Nat /\ MinPad <= Capacity - Off(enq)
    BY <1>1 DEF TypeOK, FInv, Sound, RingInv, ChainInv
  <2>2. Off(enq) \in Nat /\ Off(enq) < Capacity
    BY <2>1, OffType
  <2>3. cur[p] \in Msgs /\ RecordLen[cur[p]] <= total[p]
    BY <1>1 DEF FInv, Sound, PutInv, PutOk
  <2> QED  BY <2>1, <2>2, <2>3, Sizes
<1>3. /\ pos'[p] = enq /\ padding'[p] = pad /\ cur'[p] = cur[p]
      /\ total'[p] = IF ~pad /\ gap < total[p] + MinPad THEN gap ELSE total[p]
      /\ \A r \in Producers \ {p} : /\ pos'[r] = pos[r] /\ total'[r] = total[r]
                                    /\ padding'[r] = padding[r] /\ cur'[r] = cur[r]
  BY <1>1 DEF TypeOK
<1>4. /\ pc'[p] = "space"
      /\ \A r \in Producers \ {p} : pc'[r] = pc[r]
  BY <1>1, PutMoves DEF FInv, Sound, PutPcs, consumer
<1>5. Need(p)' = IF pad THEN gap ELSE total'[p]
  BY <1>3 DEF Need
<1>6. Sized(p)'
  <2>1. Sized(p)' <=> /\ Need(p)' # 0 /\ Off(enq) + Need(p)' <= Capacity
                      /\ Off(enq) + Need(p)' = Capacity \/ Off(enq) + Need(p)' + MinPad <= Capacity
                      /\ pad => MinPad <= Need(p)'
    BY <1>3 DEF Sized
  <2> QED  BY <1>2, <1>3, <1>5, <2>1, Sizes
<1>7. PutOk(p)'
  <2>1. RecordLen[cur'[p]] <= total'[p]
    BY <1>2, <1>3, Sizes
  <2> QED  BY <1>1, <1>2, <1>3, <1>4, <1>6, <2>1 DEF PutOk, cursors
<1>8. Sound'
  BY <1>1, <1>3, <1>4, <1>7, PutQuiet DEF PutPcs, Own
<1>9. MsgInv'
  <2>1. \A m, q : Holds(q, m)' <=> Holds(q, m)
    BY <1>1, HoldsSame DEF memory
  <2>2. \A m \in Msgs, r \in Producers : Brings(r, m)' <=> Brings(r, m)
    BY <1>1, <1>3, <1>4 DEF Brings, Fills
  <2>3. \A r \in Producers : /\ pc'[r] # "idle" => pc[r] # "idle" /\ cur'[r] = cur[r]
                             /\ Putting(r)' => Putting(r)
    BY <1>1, <1>3, <1>4 DEF Putting, Own
  <2> QED  BY <1>1, <2>1, <2>2, <2>3, MsgSame
<1> QED  BY <1>8, <1>9

(* A producer in put goes on, or leaves, and no record changes its state. *)
LEMMA MsgQuiet ==
    ASSUME FInv, NEW p \in Producers, UNCHANGED <<cursors, image, status>>, pc[p] # "idle",
           pc'[p] = "idle" \/ cur'[p] = cur[p], ~Fills(p), ~Fills(p)', Putting(p)' => Putting(p),
           \A r \in Producers \ {p} : pc'[r] = pc[r] /\ cur'[r] = cur[r] /\ padding'[r] = padding[r]
    PROVE  MsgInv'
<1>1. \A m, q : Holds(q, m)' <=> Holds(q, m)
  BY HoldsSame
<1>2. \A m \in Msgs, r \in Producers : Brings(r, m)' <=> Brings(r, m)
  BY DEF Brings, Fills
<1>3. \A r \in Producers : /\ pc'[r] # "idle" => pc[r] # "idle" /\ cur'[r] = cur[r]
                           /\ Putting(r)' => Putting(r)
  BY DEF Putting, Own
<1> QED  BY <1>1, <1>2, <1>3, MsgSame DEF FInv

(* A turn of put ends where it was, or put itself does. *)
LEMMA TurnEndsSafe ==
    ASSUME FInv, NEW p \in Producers, TurnEnds(p),
           pc[p] \notin {"idle", "invalidate", "fill", "publish"},
           UNCHANGED <<config, cursors, memory, kick, consumer_waiting, consumer>>,
           \/ Goto(p, "load_enq") /\ UNCHANGED <<cur, total>>
           \/ Goto(p, "idle") /\ PutReturn(p)
    PROVE  /\ Sound'
           /\ status' = status /\ (pc'[p] = "load_enq" => Putting(p)) => MsgInv'
<1>1. \E l \in {"load_enq", "idle"} : Goto(p, l)
  OBVIOUS
<1>2. PICK l \in {"load_enq", "idle"} : Goto(p, l)
  BY <1>1
<1>3. /\ pc'[p] = l
      /\ \A r \in Producers \ {p} : pc'[r] = pc[r]
  BY <1>2, PutMoves DEF FInv, Sound, PutPcs, consumer
<1>4. \A r \in Producers \ {p} : /\ pos'[r] = pos[r] /\ total'[r] = total[r]
                                 /\ padding'[r] = padding[r] /\ cur'[r] = cur[r]
  BY DEF TurnEnds, PutReturn, FInv, TypeOK
<1>5. l = "load_enq" => cur' = cur /\ total' = total
  <2>1. l = "load_enq" => ~Goto(p, "idle")
    BY <1>2, <1>3, PutMoves DEF FInv, Sound, PutPcs, consumer
  <2> QED  BY <2>1
<1>6. PutOk(p)'
  <2>1. PutOk(p)
    BY DEF FInv, Sound, PutInv
  <2> QED  BY <1>3, <1>5, <2>1 DEF PutOk, Own
<1>7. ~Own(p) /\ ~Fills(p) /\ ~Fills(p)' /\ ~Own(p)'
  BY <1>3 DEF Own, Fills
<1>8. Sound'
  BY <1>2, <1>4, <1>6, <1>7, PutQuiet DEF PutPcs
<1>9. ASSUME status' = status, pc'[p] = "load_enq" => Putting(p)  PROVE MsgInv'
  <2>1. Putting(p)' => Putting(p)
    BY <1>3, <1>7, <1>9 DEF Putting
  <2> QED  BY <1>3, <1>4, <1>5, <1>7, <1>9, <2>1, MsgQuiet DEF memory
<1> QED  BY <1>8, <1>9

LEMMA SpaceOkSafe ==
    ASSUME FInv, NEW p \in Producers, SpaceOk(p)
    PROVE  Sound' /\ MsgInv'
<1>1. /\ pc[p] = "space" /\ Goto(p, "reserve") /\ pos[p] + Need(p) <= deq + Capacity
      /\ UNCHANGED <<config, cursors, memory, kick, consumer_waiting, consumer, producer, status>>
  BY DEF SpaceOk, At, lf_space_ok, parking, history
<1>2. /\ pc'[p] = "reserve" /\ \A r \in Producers \ {p} : pc'[r] = pc[r]
  BY <1>1, PutMoves DEF FInv, Sound, PutPcs, consumer
<1>3. /\ pos' = pos /\ total' = total /\ padding' = padding /\ cur' = cur /\ enq' = enq /\ deq' = deq
      /\ mode' = mode /\ (Sized(p)' <=> Sized(p)) /\ Need(p)' = Need(p)
  BY <1>1 DEF producer, cursors, config, Sized, Need
<1>4. PutOk(p)'
  <2>1. PutOk(p)
    BY DEF FInv, Sound, PutInv
  <2> QED  BY <1>1, <1>2, <1>3, <2>1 DEF PutOk, Own
<1>5. Sound'
  BY <1>1, <1>3, <1>4, PutQuiet DEF PutPcs, Own
<1>6. MsgInv'
  BY <1>1, <1>2, <1>3, MsgQuiet DEF Fills, Putting, memory
<1> QED  BY <1>5, <1>6

LEMMA SpaceNoneSafe ==
    ASSUME FInv, NEW p \in Producers, SpaceNone(p)
    PROVE  Sound' /\ MsgInv'
<1>1. /\ pc[p] = "space"
      /\ UNCHANGED <<config, cursors, memory, kick, consumer_waiting, consumer>>
  BY DEF SpaceNone, At, parking
<1>2. CASE policy = Overwrite
  <2>1. Goto(p, "evict") /\ UNCHANGED <<status, producer>>
    BY <1>2 DEF SpaceNone
  <2>2. /\ pc'[p] = "evict" /\ \A r \in Producers \ {p} : pc'[r] = pc[r]
    BY <1>1, <2>1, PutMoves DEF FInv, Sound, PutPcs, consumer
  <2>3. /\ pos' = pos /\ total' = total /\ padding' = padding /\ cur' = cur /\ enq' = enq /\ deq' = deq
        /\ mode' = mode /\ policy' = policy /\ (Sized(p)' <=> Sized(p)) /\ Need(p)' = Need(p)
    BY <1>1, <2>1 DEF producer, cursors, config, Sized, Need
  <2>4. PutOk(p)'
    <3>1. PutOk(p)
      BY DEF FInv, Sound, PutInv
    <3> QED  BY <1>1, <1>2, <2>2, <2>3, <3>1 DEF PutOk, Own
  <2>5. Sound'
    BY <1>1, <2>1, <2>3, <2>4, PutQuiet DEF PutPcs, Own
  <2>6. MsgInv'
    BY <1>1, <2>1, <2>2, <2>3, MsgQuiet DEF Fills, Putting, memory
  <2> QED  BY <2>5, <2>6
<1>3. CASE policy # Overwrite
  <2>1. /\ Goto(p, "idle") /\ PutReturn(p) /\ TurnEnds(p)
        /\ status' = [status EXCEPT ![cur[p]] = "dropped"]
    BY <1>3 DEF SpaceNone, PutReturn, Refused
  <2>2. Sound'
    BY <1>1, <2>1, TurnEndsSafe
  <2>3. /\ pc'[p] = "idle" /\ \A r \in Producers \ {p} : pc'[r] = pc[r]
    BY <1>1, <2>1, PutMoves DEF FInv, Sound, PutPcs, consumer
  <2>4. \A r \in Producers \ {p} : cur'[r] = cur[r] /\ padding'[r] = padding[r]
    BY <2>1 DEF TurnEnds, PutReturn, FInv, TypeOK
  <2>5. cur[p] \in Msgs /\ status[cur[p]] = "putting"
    BY <1>1 DEF FInv, Sound, PutInv, PutOk, MsgInv, Putting
  <2>6. MsgInv'
    BY <1>1, <2>1, <2>3, <2>4, <2>5, MsgOutside DEF FInv, Fills, memory
  <2> QED  BY <2>2, <2>6
<1> QED  BY <1>2, <1>3

LEMMA EvictLoadSafe ==
    ASSUME FInv, NEW p \in Producers, EvictLoad(p)
    PROVE  Sound' /\ MsgInv'
<1>1. /\ pc[p] = "evict"
      /\ UNCHANGED <<config, cursors, memory, kick, consumer_waiting, consumer, status>>
      /\ PutOk(p) /\ Putting(p) /\ Need(p) \in Nat /\ pos[p] \in Nat /\ deq \in Nat
  BY NeedType DEF EvictLoad, At, parking, history, FInv, Sound, PutInv, Putting, TypeOK
<1>2. CASE lf_space_ok(p) /\ ~padding[p] /\ PutAgain(p)
  BY <1>1, <1>2, TurnEndsSafe DEF PutAgain
<1>3. ASSUME NEW l \in {"reserve", "evict_mark"}, Goto(p, l), UNCHANGED <<cur, pos, total, padding>>,
             \A r \in Producers \ {p} : victim'[r] = victim[r],
             l = "reserve" => pos[p] + Need(p) <= deq + Capacity,
             l = "evict_mark" => victim'[p] = deq /\ ~(pos[p] + Need(p) <= deq + Capacity)
      PROVE  Sound' /\ MsgInv'
  <2>1. /\ pc'[p] = l /\ \A r \in Producers \ {p} : pc'[r] = pc[r]
    BY <1>1, <1>3, PutMoves DEF FInv, Sound, PutPcs, consumer
  <2>2. /\ enq' = enq /\ deq' = deq /\ mode' = mode /\ policy' = policy
        /\ (Sized(p)' <=> Sized(p)) /\ Need(p)' = Need(p)
    BY <1>1, <1>3 DEF cursors, config, Sized, Need
  <2>3. PutOk(p)'
    BY <1>1, <1>3, <2>1, <2>2, Sizes DEF PutOk, Own
  <2>4. Sound'
    BY <1>1, <1>3, <2>2, <2>3, PutQuiet DEF PutPcs, Own
  <2>5. MsgInv'
    BY <1>1, <1>3, <2>1, MsgQuiet DEF Fills, memory
  <2> QED  BY <2>4, <2>5
<1>4. CASE lf_space_ok(p) /\ padding[p] /\ Goto(p, "reserve") /\ UNCHANGED producer
  BY <1>3, <1>4 DEF producer, lf_space_ok
<1>5. CASE /\ ~lf_space_ok(p)
           /\ Goto(p, "evict_mark")
           /\ victim' = [victim EXCEPT ![p] = deq]
           /\ UNCHANGED <<cur, pos, total, padding>>
  BY <1>3, <1>5 DEF lf_space_ok, FInv, TypeOK
<1> QED  BY <1>2, <1>4, <1>5 DEF EvictLoad

LEMMA PutKickSafe ==
    ASSUME FInv, NEW p \in Producers, PutKick(p)
    PROVE  Sound' /\ MsgInv'
<1>1. /\ pc[p] = "kick"
      /\ UNCHANGED <<config, cursors, memory, kick, consumer_waiting, consumer, status>>
      /\ PutOk(p)
  BY DEF PutKick, At, parking, history, FInv, Sound, PutInv
<1>2. CASE Goto(p, "broadcast") /\ UNCHANGED producer
  <2>1. /\ pc'[p] = "broadcast" /\ \A r \in Producers \ {p} : pc'[r] = pc[r]
    BY <1>1, <1>2, PutMoves DEF FInv, Sound, PutPcs, consumer
  <2>2. pos' = pos /\ total' = total /\ padding' = padding /\ cur' = cur
    BY <1>2 DEF producer
  <2>3. PutOk(p)'
    BY <1>1, <2>1, <2>2 DEF PutOk, Own
  <2>4. Sound'
    BY <1>1, <1>2, <2>2, <2>3, PutQuiet DEF PutPcs, Own
  <2>5. MsgInv'
    BY <1>1, <2>1, <2>2, MsgQuiet DEF Fills, Putting, Own, memory
  <2> QED  BY <2>4, <2>5
<1>3. CASE Goto(p, "idle") /\ PutReturn(p)
  <2>1. pc'[p] = "idle"
    BY <1>1, <1>3, PutMoves DEF FInv, Sound, PutPcs, consumer
  <2> QED  BY <1>1, <1>3, <2>1, TurnEndsSafe DEF PutReturn
<1> QED  BY <1>2, <1>3 DEF PutKick

LEMMA PutBroadcastSafe ==
    ASSUME FInv, NEW p \in Producers, PutBroadcast(p)
    PROVE  Sound' /\ MsgInv'
<1>1. /\ pc[p] = "broadcast" /\ kick' = {} /\ PutReturn(p) /\ TurnEnds(p)
      /\ pc' = [u \in Threads |-> IF u \in {p} THEN "idle" ELSE IF u \in kick THEN "relock" ELSE pc[u]]
      /\ UNCHANGED <<config, cursors, memory, consumer_waiting, consumer, status>>
      /\ TypeOK /\ PcInv /\ RingInv /\ PutInv /\ GetInv
  BY DEF PutBroadcast, Broadcast, PutReturn, At, history, FInv, Sound
<1>2. /\ enq' = enq /\ deq' = deq /\ commit' = commit /\ image' = image /\ view' = view
  BY <1>1 DEF cursors, memory, consumer
<1>3. /\ PcInv' /\ pc'[p] = "idle" /\ \A r \in Producers \ {p} : pc'[r] = pc[r]
      /\ \A c \in Consumers : pc'[c] = pc[c] \/ (pc[c] = "asleep" /\ pc'[c] = "relock")
  <2>1. {p} \subseteq Producers /\ {p} # {} /\ p \in {p} /\ Producers \ {p} \subseteq Producers
    OBVIOUS
  <2> QED  BY <1>1, <1>2, <2>1, WakeMoves
<1>4. \A r \in Producers \ {p} : /\ pos'[r] = pos[r] /\ total'[r] = total[r]
                                 /\ padding'[r] = padding[r] /\ cur'[r] = cur[r]
  BY <1>1 DEF TurnEnds, PutReturn, TypeOK
<1>5. RingInv'
  BY <1>1, <1>2, <1>3, <1>4, RingSame DEF OwnSame, RangesSame, Own, Fills
<1>6. PutInv'
  <2>1. \A r \in Producers \ {p} : PutOk(r)'
    <3>1. deq' \in Nat /\ deq <= deq'
      BY <1>1, <1>2 DEF TypeOK
    <3> QED  BY <1>1, <1>2, <1>3, <1>4, <3>1, PutOthers
  <2>2. PutOk(p)'
    BY <1>3 DEF PutOk, Own
  <2> QED  BY <2>1, <2>2 DEF PutInv
<1>7. GetInv'
  BY <1>1, <1>3, <1>4, GetQuiet
<1>8. MsgInv'
  BY <1>1, <1>2, <1>3, <1>4, MsgQuiet DEF Fills, Putting, Own
<1> QED  BY <1>3, <1>5, <1>6, <1>7, <1>8 DEF Sound

-----------------------------------------------------------------------------
(* The steps of put that change the ring *)

(* The record of p is in the ring from its reservation on. *)
LEMMA MsgBrought ==
    ASSUME FInv, NEW p \in Producers, pc[p] = "reserve", pc'[p] = "invalidate", ~padding[p],
           status' = [status EXCEPT ![cur[p]] = "queued"], UNCHANGED <<padding, cur>>,
           \A r \in Producers \ {p} : pc'[r] = pc[r],
           \A q, m : Holds(q, m)' <=> Holds(q, m)
    PROVE  MsgInv'
<1> DEFINE m0 == cur[p]
<1>1. /\ MsgInv /\ m0 \in Msgs /\ status[m0] = "putting"
      /\ \A r \in Producers \ {p} : pc[r] # "idle" => cur[r] # m0
  BY DEF FInv, Sound, PutInv, PutOk, MsgInv, Putting
<1>2. /\ \A q \in Nat : ~Holds(q, m0)
      /\ \A r \in Producers : ~Brings(r, m0)
  BY <1>1 DEF MsgInv
<1>3. \A m \in Msgs, r \in Producers : Brings(r, m)' <=> Brings(r, m) \/ (r = p /\ m = m0)
  BY DEF Brings, Fills
<1>4. /\ status' \in [Msgs -> {"new", "putting", "queued", "got", "evicted", "dropped"}]
      /\ status'[m0] = "queued" /\ \A m \in Msgs \ {m0} : status'[m] = status[m]
  BY <1>1 DEF MsgInv
<1>5. cur' = cur /\ padding' = padding
  OBVIOUS
<1>6. \A r \in Producers : pc'[r] # "idle" => pc[r] # "idle" /\ cur[r] \in Msgs
  BY DEF FInv, Sound, PutInv, PutOk
<1> HIDE DEF m0
<1>7. \A r \in Producers : Putting(r)' => Putting(r) /\ r # p
  BY <1>5 DEF Putting, Own
<1>8. \A r \in Producers : Putting(r) => pc[r] # "idle"
  BY DEF Putting, Own
<1>9. \A r \in Producers : Putting(r)' => status'[cur'[r]] = "putting"
  <2> SUFFICES ASSUME NEW r \in Producers, Putting(r)'  PROVE status'[cur[r]] = "putting"
    BY <1>5
  <2>1. r # p /\ Putting(r) /\ cur[r] # m0 /\ cur[r] \in Msgs
    BY <1>1, <1>7, <1>8 DEF FInv, Sound, PutInv, PutOk
  <2> QED  BY <1>1, <1>4, <2>1 DEF MsgInv
<1>10. \A r \in Producers : pc'[r] # "idle" => status'[cur'[r]] # "new"
  <2> SUFFICES ASSUME NEW r \in Producers, pc'[r] # "idle"  PROVE status'[cur[r]] # "new"
    BY <1>5
  <2>1. cur[r] \in Msgs /\ status[cur[r]] # "new"
    BY <1>1, <1>6 DEF MsgInv
  <2> QED  BY <1>4, <2>1
<1>11. \A m \in Msgs :
          status'[m] = "queued" <=> (\E q \in Nat : Holds(q, m)') \/ (\E r \in Producers : Brings(r, m)')
  <2> TAKE m \in Msgs
  <2>1. CASE m = m0
    BY <1>3, <1>4, <2>1
  <2>2. CASE m # m0
    BY <1>1, <1>3, <1>4, <2>2 DEF MsgInv
  <2> QED  BY <2>1, <2>2
<1>12. \A m \in Msgs, q \in Nat, r \in Producers : ~(Holds(q, m)' /\ Brings(r, m)')
  BY <1>1, <1>2, <1>3 DEF MsgInv
<1>13. /\ \A m \in Msgs, q, r \in Nat : Holds(q, m)' /\ Holds(r, m)' => q = r
       /\ \A q, r \in Producers : pc'[q] # "idle" /\ pc'[r] # "idle" /\ cur'[q] = cur'[r] => q = r
  BY <1>1, <1>5, <1>6 DEF MsgInv
<1> QED  BY <1>4, <1>9, <1>10, <1>11, <1>12, <1>13 DEF MsgInv

LEMMA ReserveSafe ==
    ASSUME FInv, NEW p \in Producers, Reserve(p)
    PROVE  Sound' /\ MsgInv'
<1>1. /\ pc[p] = "reserve"
      /\ UNCHANGED <<config, deq, memory, kick, consumer_waiting, consumer>>
      /\ TypeOK /\ PcInv /\ RingInv /\ PutInv /\ GetInv /\ MsgInv /\ PutOk(p)
  BY DEF Reserve, At, parking, FInv, Sound, PutInv
<1>2. CASE /\ ~lf_enq_contended \/ enq = pos[p]
           /\ enq' = pos[p] + Need(p)
           /\ status' = IF padding[p] THEN status ELSE [status EXCEPT ![cur[p]] = "queued"]
           /\ Goto(p, "invalidate")
           /\ UNCHANGED producer
  <2>1. pos[p] = enq
    BY <1>1, <1>2 DEF lf_enq_contended, PutOk
  <2>2. /\ PcInv' /\ pc'[p] = "invalidate" /\ \A r \in Producers \ {p} : pc'[r] = pc[r]
        /\ \A c \in Consumers : pc'[c] = pc[c]
    BY <1>1, <1>2, PutMoves DEF PutPcs, consumer
  <2>3. /\ pos' = pos /\ total' = total /\ padding' = padding /\ cur' = cur /\ deq' = deq
        /\ commit' = commit /\ image' = image
    BY <1>1, <1>2 DEF producer, memory
  <2>4. Sized(p) /\ pos[p] + Need(p) <= deq + Capacity /\ ~Own(p)
    BY <1>1 DEF PutOk, Own
  <2>5. RingInv' /\ enq < enq' /\ enq' \in Nat
    BY <1>1, <1>2, <2>1, <2>2, <2>3, <2>4, RangeReserved
  <2>6. PutInv'
    <3>1. \A r \in Producers \ {p} : PutOk(r)'
      <4>1. deq' \in Nat /\ deq <= deq'
        BY <1>1, <2>3 DEF TypeOK
      <4> QED  BY <1>1, <2>2, <2>3, <4>1, PutOthers
    <3>2. Sized(p)' <=> Sized(p)
      BY <2>3 DEF Sized, Need
    <3>3. PutOk(p)'
      BY <1>1, <2>2, <2>3, <2>4, <3>2 DEF PutOk
    <3> QED  BY <3>1, <3>3 DEF PutInv
  <2>7. GetInv'
    <3>1. enq <= enq'
      BY <1>1, <2>5 DEF TypeOK
    <3> QED  BY <1>1, <2>2, <2>3, <2>5, <3>1, GetGrown
  <2>8. \A q, m : Holds(q, m)' <=> Holds(q, m)
    <3>1. \A q \in Nat : enq <= q => ~Stored(q)
      BY <1>1, NothingAhead DEF Starts
    <3>2. deq \in Nat /\ enq \in Nat
      BY <1>1 DEF TypeOK
    <3>3. \A q : q \in deq .. enq' - 1 /\ Stored(q) <=> q \in deq .. enq - 1 /\ Stored(q)
      BY <2>5, <3>1, <3>2
    <3>4. \A q, m : Holds(q, m)' <=> /\ q \in deq .. enq' - 1 /\ Stored(q)
                                     /\ ~image[Off(q)].pad /\ image[Off(q)].msg = m
      BY <2>3 DEF Holds, Stored
    <3> QED  BY <3>3, <3>4 DEF Holds
  <2>9. MsgInv'
    <3>1. CASE padding[p]
      <4>1. \A m \in Msgs, r \in Producers : Brings(r, m)' <=> Brings(r, m)
        BY <1>1, <2>2, <2>3, <3>1 DEF Brings, Fills
      <4>2. \A r \in Producers : /\ pc'[r] # "idle" => pc[r] # "idle" /\ cur'[r] = cur[r]
                                 /\ Putting(r)' => Putting(r)
        BY <1>1, <2>2, <2>3 DEF Putting, Own
      <4> QED  BY <1>1, <1>2, <2>8, <3>1, <4>1, <4>2, MsgSame
    <3>2. CASE ~padding[p]
      BY <1>1, <1>2, <2>2, <2>3, <2>8, <3>2, MsgBrought
    <3> QED  BY <3>1, <3>2
  <2> QED  BY <2>2, <2>5, <2>6, <2>7, <2>9 DEF Sound
<1>3. CASE PutAgain(p) /\ UNCHANGED <<enq, status>>
  BY <1>1, <1>3, TurnEndsSafe DEF PutAgain, Putting, cursors
<1> QED  BY <1>2, <1>3 DEF Reserve

(* An invalidated commit word misleads no consumer, and is no leased one.  *)
LEMMA GetCleared ==
    ASSUME TypeOK, PcInv, RingInv, GetInv, UNCHANGED <<config, cursors, image, consumer>>, NEW v \in Nat,
           commit' = [commit EXCEPT ![Off(v)] = 0],
           \A c \in Consumers : Past(c) /\ mode = MPMC => Off(v) # Off(deq),
           \A c \in Consumers : pc'[c] = pc[c],
           \A p \in Producers : pc'[p] = "publish" => pc[p] = "publish" /\ pos'[p] = pos[p]
    PROVE  GetInv'
<1>1. /\ enq' = enq /\ deq' = deq /\ image' = image
      /\ at' = at /\ view' = view /\ mode' = mode /\ enq \in Nat /\ deq \in Nat
  BY DEF config, cursors, consumer, TypeOK
<1>2. \A q : Intact(q)' <=> Intact(q)
  BY <1>1 DEF Intact, Stored
<1>3. \A o \in Offsets : commit'[o] = commit[o] \/ (o = Off(v) /\ commit'[o] = 0)
  BY DEF TypeOK
<1>4. \A q \in Nat : Off(q) \in Offsets
  BY OffType
<1>5. \A c \in Consumers : GetOk(c)'
  <2> SUFFICES ASSUME NEW c \in Consumers  PROVE GetOk(c)'
    OBVIOUS
  <2>1. at[c] \in Nat /\ GetOk(c)
    BY DEF TypeOK, GetInv
  <2>2. Reads(c) => (at[c] < deq => commit'[Off(at[c])] # at[c] + 1)
    BY <1>3, <1>4, <2>1 DEF GetOk
  <2>3. Past(c) => (mode = MPMC => commit'[Off(deq)] = commit[Off(deq)])
    BY <1>1, <1>3, <1>4
  <2> QED  BY <1>1, <1>2, <2>1, <2>2, <2>3, GetFrame DEF GetOk
<1> QED  BY <1>1, <1>5 DEF GetInv, OneLease, Past

LEMMA InvalidateSafe ==
    ASSUME FInv, NEW p \in Producers, Invalidate(p)
    PROVE  Sound' /\ MsgInv'
<1>1. /\ pc[p] = "invalidate" /\ Goto(p, "fill")
      /\ commit' = [commit EXCEPT ![Off(pos[p])] = 0]
      /\ UNCHANGED <<config, cursors, image, kick, consumer_waiting, producer, consumer, status>>
      /\ TypeOK /\ PcInv /\ RingInv /\ PutInv /\ GetInv /\ MsgInv /\ PutOk(p) /\ pos[p] \in Nat
  BY DEF Invalidate, At, parking, history, FInv, Sound, PutInv, TypeOK
<1>2. /\ PcInv' /\ pc'[p] = "fill" /\ \A r \in Producers \ {p} : pc'[r] = pc[r]
      /\ \A c \in Consumers : pc'[c] = pc[c]
  BY <1>1, PutMoves DEF PutPcs, consumer
<1>3. /\ pos' = pos /\ total' = total /\ padding' = padding /\ cur' = cur /\ deq' = deq /\ enq' = enq
  BY <1>1 DEF producer, cursors
<1>4. \A r \in Producers : /\ Fills(r)' <=> Fills(r)
                           /\ Own(r)' <=> Own(r)
  BY <1>1, <1>2 DEF Fills, Own
<1>5. RingInv'
  BY <1>1, <1>2, <1>3, <1>4, CommitCleared DEF RangesSame
<1>6. PutInv'
  <2>1. deq' \in Nat /\ deq <= deq'
    BY <1>1, <1>3 DEF TypeOK
  <2>2. \A r \in Producers \ {p} : PutOk(r)'
    BY <1>1, <1>2, <1>3, <2>1, PutOthers
  <2>3. Sized(p)' <=> Sized(p)
    BY <1>3 DEF Sized, Need
  <2>4. PutOk(p)'
    BY <1>1, <1>2, <1>3, <2>3 DEF PutOk, Own
  <2> QED  BY <2>2, <2>4 DEF PutInv
<1>7. GetInv'
  <2>1. ASSUME NEW c \in Consumers, Past(c), mode = MPMC  PROVE Off(pos[p]) # Off(deq)
    <3>1. at[c] = deq /\ Stored(deq)
      BY <1>1, <2>1 DEF GetInv, GetOk, Intact
    <3>2. pos[p] \in deq .. enq - 1 /\ pos[p] # deq
      BY <1>1, <3>1 DEF RingInv, OwnInv, Own, Fills
    <3>3. enq <= deq + Capacity /\ deq \in Nat /\ enq \in Nat
      BY <1>1 DEF RingInv, ChainInv, TypeOK
    <3> QED  BY <3>2, <3>3, OffInj, Sizes
  <2> QED  BY <1>1, <1>2, <1>3, <2>1, GetCleared
<1>8. MsgInv'
  <2>1. \A m, q : Holds(q, m)' <=> Holds(q, m)
    BY <1>1, HoldsSame
  <2>2. \A m \in Msgs, r \in Producers : Brings(r, m)' <=> Brings(r, m)
    BY <1>3, <1>4 DEF Brings
  <2>3. \A r \in Producers : /\ pc'[r] # "idle" => pc[r] # "idle" /\ cur'[r] = cur[r]
                             /\ Putting(r)' => Putting(r)
    BY <1>1, <1>2, <1>3, <1>4 DEF Putting
  <2> QED  BY <1>1, <2>1, <2>2, <2>3, MsgSame
<1> QED  BY <1>2, <1>5, <1>6, <1>7, <1>8 DEF Sound

LEMMA EvictMarkSafe ==
    ASSUME FInv, NEW p \in Producers, EvictMark(p)
    PROVE  Sound' /\ MsgInv'
<1>1. /\ pc[p] = "evict_mark" /\ Goto(p, "evict_cas")
      /\ commit' = [commit EXCEPT ![Off(victim[p])] = 0]
      /\ UNCHANGED <<config, cursors, image, kick, consumer_waiting, producer, consumer, status>>
      /\ TypeOK /\ PcInv /\ RingInv /\ PutInv /\ GetInv /\ MsgInv /\ PutOk(p) /\ victim[p] \in Nat
  BY DEF EvictMark, At, parking, history, FInv, Sound, PutInv, TypeOK
<1>2. /\ PcInv' /\ pc'[p] = "evict_cas" /\ \A r \in Producers \ {p} : pc'[r] = pc[r]
      /\ \A c \in Consumers : pc'[c] = pc[c]
  BY <1>1, PutMoves DEF PutPcs, consumer
<1>3. /\ pos' = pos /\ total' = total /\ padding' = padding /\ cur' = cur /\ victim' = victim
      /\ deq' = deq /\ enq' = enq /\ mode' = mode /\ policy' = policy
  BY <1>1 DEF producer, cursors, config
<1>4. \A r \in Producers : /\ Fills(r)' <=> Fills(r)
                           /\ Own(r)' <=> Own(r)
  BY <1>1, <1>2 DEF Fills, Own
<1>5. RingInv'
  BY <1>1, <1>2, <1>3, <1>4, CommitCleared DEF RangesSame, Own
<1>6. mode = SPSC /\ mode # MPMC
  BY <1>1, ModeAssumption DEF PutOk, PcInv
<1>7. PutInv'
  <2>1. deq' \in Nat /\ deq <= deq'
    BY <1>1, <1>3 DEF TypeOK
  <2>2. \A r \in Producers \ {p} : PutOk(r)'
    BY <1>1, <1>2, <1>3, <2>1, PutOthers
  <2>3. (Sized(p)' <=> Sized(p)) /\ Need(p)' = Need(p)
    BY <1>3 DEF Sized, Need
  <2>4. commit'[Off(victim[p])] = 0
    BY <1>1, OffType DEF TypeOK
  <2>5. PutOk(p)'
    BY <1>1, <1>2, <1>3, <2>3, <2>4 DEF PutOk, Own
  <2> QED  BY <2>2, <2>5 DEF PutInv
<1>8. GetInv'
  BY <1>1, <1>2, <1>3, <1>6, GetCleared
<1>9. MsgInv'
  BY <1>1, <1>2, <1>3, MsgQuiet DEF Fills, Putting
<1> QED  BY <1>2, <1>5, <1>7, <1>8, <1>9 DEF Sound

(* The entry at deq leaves the ring, with its record if it is not a pad.   *)
LEMMA MsgTaken ==
    ASSUME FInv, NEW n, Stored(deq), Entry(deq, n), deq < enq, deq' = deq + n,
           UNCHANGED <<enq, image, cur, padding>>,
           NEW s \in {"got", "evicted"},
           IF image[Off(deq)].pad THEN status' = status
                                  ELSE status' = [status EXCEPT ![image[Off(deq)].msg] = s],
           \A p \in Producers : /\ Fills(p)' <=> Fills(p)
                                /\ pc'[p] # "idle" => pc[p] # "idle"
                                /\ Putting(p)' => Putting(p)
    PROVE  MsgInv' /\ (~image[Off(deq)].pad => image[Off(deq)].msg \in Msgs)
<1> DEFINE m0 == image[Off(deq)].msg
<1>1. TypeOK /\ RingInv /\ MsgInv /\ deq \in Nat /\ enq \in Nat /\ Off(deq) \in Offsets
  BY OffType DEF FInv, Sound, TypeOK
<1>2. n \in Nat
  BY <1>1, EntryType
<1>3. /\ n # 0 /\ deq + n <= enq
      /\ \A r \in deq + 1 .. deq + n - 1 : ~Starts(r)
  BY <1>1, <1>2 DEF RingInv, ChainInv
<1>4. \A q : q \in deq' .. enq' - 1 /\ Stored(q)' <=> q \in deq .. enq - 1 /\ q # deq /\ Stored(q)
  <2> SUFFICES ASSUME NEW q, q \in deq .. enq - 1 \/ q \in deq' .. enq - 1
               PROVE  q \in deq' .. enq - 1 /\ Stored(q)' <=> q \in deq .. enq - 1 /\ q # deq /\ Stored(q)
    OBVIOUS
  <2>1. Stored(q)' <=> Stored(q)
    BY DEF Stored
  <2>2. Stored(q) => q \notin deq + 1 .. deq + n - 1
    BY <1>3 DEF Starts
  <2> QED  BY <1>1, <1>2, <1>3, <2>1, <2>2
<1>5. \A q, m : Holds(q, m)' <=> Holds(q, m) /\ q # deq
  <2>1. \A q, m : Holds(q, m)' <=> /\ q \in deq' .. enq' - 1 /\ Stored(q)'
                                   /\ ~image[Off(q)].pad /\ image[Off(q)].msg = m
    BY DEF Holds
  <2> QED  BY <1>4, <2>1 DEF Holds
<1>6. \A m \in Msgs, p \in Producers : Brings(p, m)' <=> Brings(p, m)
  BY DEF Brings
<1>7. CASE image[Off(deq)].pad
  <2>1. \A q, m : Holds(q, m)' <=> Holds(q, m)
    BY <1>5, <1>7 DEF Holds
  <2> QED  BY <1>1, <1>6, <1>7, <2>1, MsgSame
<1>8. CASE ~image[Off(deq)].pad
  <2>1. m0 \in Msgs
    BY <1>1, <1>8 DEF RingInv, MemInv, Stored
  <2>2. Holds(deq, m0)
    BY <1>1, <1>8 DEF Holds
  <2>3. \A q, m : Holds(q, m) /\ q = deq => m = m0
    BY DEF Holds
  <2> HIDE DEF m0
  <2>4. \A q \in Nat : Holds(q, m0) => q = deq
    BY <1>1, <2>1, <2>2 DEF MsgInv
  <2>5. \A q \in Nat, m \in Msgs : Holds(q, m)' <=> Holds(q, m) /\ m # m0
    BY <1>5, <2>3, <2>4
  <2>6. status[m0] = "queued" /\ \A p \in Producers : ~Brings(p, m0)
    BY <1>1, <2>1, <2>2 DEF MsgInv
  <2>7. /\ status' \in [Msgs -> {"new", "putting", "queued", "got", "evicted", "dropped"}]
        /\ status'[m0] = s /\ \A m \in Msgs \ {m0} : status'[m] = status[m]
    BY <1>1, <1>8, <2>1 DEF MsgInv, m0
  <2>8. \A p \in Producers : Putting(p)' => status'[cur[p]] = "putting"
    <3> SUFFICES ASSUME NEW p \in Producers, Putting(p)'  PROVE status'[cur[p]] = "putting"
      OBVIOUS
    <3>1. Putting(p) /\ pc[p] # "idle" /\ status[cur[p]] = "putting"
      BY <1>1 DEF MsgInv, Putting, Own
    <3>2. cur[p] \in Msgs /\ cur[p] # m0
      BY <2>6, <3>1 DEF FInv, Sound, PutInv, PutOk
    <3> QED  BY <2>7, <3>1, <3>2
  <2>9. \A p \in Producers : pc'[p] # "idle" => status'[cur[p]] # "new"
    <3> SUFFICES ASSUME NEW p \in Producers, pc'[p] # "idle"  PROVE status'[cur[p]] # "new"
      OBVIOUS
    <3>1. cur[p] \in Msgs /\ status[cur[p]] # "new"
      BY <1>1 DEF MsgInv, FInv, Sound, PutInv, PutOk
    <3> QED  BY <2>7, <3>1
  <2>10. \A m \in Msgs : status'[m] = "queued" <=>
            (\E q \in Nat : Holds(q, m)') \/ (\E p \in Producers : Brings(p, m)')
    <3> TAKE m \in Msgs
    <3>1. CASE m = m0
      BY <1>6, <2>5, <2>6, <2>7, <3>1
    <3>2. CASE m # m0
      BY <1>1, <1>6, <2>5, <2>7, <3>2 DEF MsgInv
    <3> QED  BY <3>1, <3>2
  <2>11. /\ \A m \in Msgs, q, r \in Nat : Holds(q, m)' /\ Holds(r, m)' => q = r
         /\ \A m \in Msgs, q \in Nat, p \in Producers : ~(Holds(q, m)' /\ Brings(p, m)')
    BY <1>1, <1>6, <2>5 DEF MsgInv
  <2>12. \A p, r \in Producers : pc'[p] # "idle" /\ pc'[r] # "idle" /\ cur'[p] = cur'[r] => p = r
    BY <1>1 DEF MsgInv
  <2>13. MsgInv'
    BY <2>7, <2>8, <2>9, <2>10, <2>11, <2>12 DEF MsgInv
  <2> QED  BY <2>1, <2>13 DEF m0
<1> QED  BY <1>7, <1>8

LEMMA EvictCasSafe ==
    ASSUME FInv, NEW p \in Producers, EvictCas(p)
    PROVE  Sound' /\ MsgInv'
<1> DEFINE old == image[Off(victim[p])]
<1>1. /\ pc[p] = "evict_cas" /\ Goto(p, "evict")
      /\ deq' = IF deq = victim[p] THEN victim[p] + old.total_len ELSE deq
      /\ IF deq = victim[p] /\ ~old.pad
         THEN status' = [status EXCEPT ![old.msg] = "evicted"] ELSE status' = status
      /\ UNCHANGED <<config, enq, memory, kick, consumer_waiting, producer, consumer>>
      /\ TypeOK /\ PcInv /\ RingInv /\ PutInv /\ GetInv /\ MsgInv /\ PutOk(p) /\ victim[p] \in Nat
  BY DEF EvictCas, At, parking, FInv, Sound, PutInv, TypeOK
<1>2. /\ PcInv' /\ pc'[p] = "evict" /\ \A r \in Producers \ {p} : pc'[r] = pc[r]
      /\ \A c \in Consumers : pc'[c] = pc[c]
  BY <1>1, PutMoves DEF PutPcs, consumer
<1>3. /\ pos' = pos /\ total' = total /\ padding' = padding /\ cur' = cur /\ victim' = victim
      /\ commit' = commit /\ image' = image /\ enq' = enq /\ mode' = mode /\ policy' = policy
      /\ at' = at /\ view' = view
  BY <1>1 DEF producer, memory, config, consumer
<1>4. mode = SPSC /\ mode # MPMC /\ policy = Overwrite /\ \A r \in Producers : ~Own(r)
  BY <1>1, ModeAssumption DEF PutOk, PcInv, Own
<1>5. OwnSame
  BY <1>2, <1>3, <1>4 DEF OwnSame, RangesSame, Own, Fills
<1>6. Putting(p) /\ ~Fills(p) /\ ~Fills(p)' /\ cur[p] \in Msgs /\ status[cur[p]] = "putting"
  BY <1>1, <1>2 DEF Putting, Fills, PutOk, MsgInv
<1>7. PutOk(p)' /\ \A c \in Consumers : (Reads(c)' <=> Reads(c)) /\ (Past(c)' <=> Past(c))
  <2>1. (Sized(p)' <=> Sized(p)) /\ Need(p)' = Need(p)
    BY <1>3 DEF Sized, Need
  <2> QED  BY <1>1, <1>2, <1>3, <2>1 DEF PutOk, Own, Reads, Past
<1>8. CASE deq # victim[p]
  <2>1. deq' = deq /\ status' = status /\ cursors' = cursors
    BY <1>1, <1>8 DEF cursors
  <2>2. RingInv'
    BY <1>1, <1>3, <1>5, <2>1, RingSame
  <2>3. GetInv'
    BY <1>1, <1>2, <1>3, <2>1, GetQuiet
  <2>4. PutInv'
    <3>1. deq' \in Nat /\ deq <= deq'
      BY <1>1, <2>1 DEF TypeOK
    <3> QED  BY <1>1, <1>2, <1>3, <1>7, <3>1, PutOthers DEF PutInv
  <2>5. MsgInv'
    BY <1>1, <1>2, <1>3, <1>6, <2>1, MsgQuiet
  <2> QED  BY <1>2, <2>2, <2>3, <2>4, <2>5 DEF Sound
<1>9. CASE deq = victim[p]
  <2>1. deq \in Nat /\ enq \in Nat /\ Need(p) \in Nat /\ Off(pos[p]) \in Nat /\ pos[p] \in Nat
        /\ commit[Off(deq)] = 0 /\ deq <= enq
    BY <1>1, <1>9, NeedType, OffType DEF TypeOK, PutOk, RingInv, ChainInv
  <2>2. deq < enq
    <3>1. pos[p] = enq /\ pos[p] + Need(p) > deq + Capacity /\ Off(pos[p]) + Need(p) <= Capacity
      BY <1>1, <1>4, <1>9 DEF PutOk, Sized
    <3> QED  BY <2>1, <3>1, Sizes
  <2>3. Stored(deq) /\ Entry(deq, old.total_len)
    BY <1>1, <1>4, <1>9, <2>1, <2>2 DEF RingInv, ChainInv, Starts, Filled, Entry, Own, Fills
  <2>4. RingInv' /\ deq < deq' /\ deq' <= enq /\ deq' \in Nat
    <3>1. deq' = deq + old.total_len
      BY <1>1, <1>9
    <3> QED  BY <1>1, <1>3, <1>4, <1>5, <2>2, <2>3, <3>1, DeqMoves
  <2>5. deq <= deq'
    BY <2>1, <2>4
  <2>6. PutInv'
    BY <1>1, <1>2, <1>3, <1>7, <2>4, <2>5, PutOthers DEF PutInv
  <2>7. GetInv'
    <3>1. ASSUME NEW c \in Consumers  PROVE GetOk(c)'
      <4>1. GetOk(c) /\ at[c] \in Nat
        BY <1>1 DEF GetInv, TypeOK
      <4>2. Reads(c) => commit[Off(at[c])] # at[c] + 1
        BY <2>1, <4>1 DEF GetOk
      <4>3. \A q : Intact(q)' <=> Intact(q)
        BY <1>3 DEF Intact, Stored
      <4>4. Past(c) => \A r \in Producers : pc'[r] # "publish"
        BY <1>2, <1>4 DEF Own
      <4>5. enq <= enq' /\ enq' \in Nat
        BY <1>3, <2>1
      <4> QED  BY <1>1, <1>2, <1>3, <1>4, <2>4, <2>5, <4>1, <4>2, <4>3, <4>4, <4>5, GetFrame
    <3> QED  BY <1>3, <1>4, <3>1 DEF GetInv, OneLease
  <2>8. MsgInv'
    <3>1. /\ deq' = deq + old.total_len
          /\ IF image[Off(deq)].pad THEN status' = status
             ELSE status' = [status EXCEPT ![image[Off(deq)].msg] = "evicted"]
      BY <1>1, <1>9
    <3>2. \A r \in Producers : /\ Fills(r)' <=> Fills(r)
                               /\ pc'[r] # "idle" => pc[r] # "idle"
                               /\ Putting(r)' => Putting(r)
      BY <1>1, <1>2, <1>3, <1>6 DEF Fills, Putting, Own
    <3>3. enq' = enq /\ image' = image /\ cur' = cur /\ padding' = padding
      BY <1>3
    <3> HIDE DEF old
    <3> QED  BY <2>2, <2>3, <3>1, <3>2, <3>3, MsgTaken
  <2> QED  BY <1>2, <2>4, <2>6, <2>7, <2>8 DEF Sound
<1> QED  BY <1>8, <1>9

LEMMA FillSafe ==
    ASSUME FInv, NEW p \in Producers, Fill(p)
    PROVE  Sound' /\ MsgInv'
<1>1. /\ pc[p] = "fill" /\ Goto(p, "publish")
      /\ UNCHANGED <<config, cursors, kick, consumer_waiting, producer, consumer, status>>
      /\ TypeOK /\ PcInv /\ RingInv /\ PutInv /\ GetInv /\ MsgInv /\ PutOk(p) /\ pos[p] \in Nat
  BY DEF Fill, At, parking, history, FInv, Sound, PutInv, TypeOK
<1>2. /\ PcInv' /\ pc'[p] = "publish" /\ \A r \in Producers \ {p} : pc'[r] = pc[r]
      /\ \A c \in Consumers : pc'[c] = pc[c]
  BY <1>1, PutMoves DEF PutPcs, consumer
<1>3. /\ pos' = pos /\ total' = total /\ padding' = padding /\ cur' = cur /\ deq' = deq /\ enq' = enq
      /\ at' = at /\ view' = view /\ mode' = mode
  BY <1>1 DEF producer, cursors, consumer, config
<1>4. Sized(p) /\ cur[p] \in Msgs /\ RecordLen[cur[p]] <= total[p] /\ Fills(p) /\ Own(p)
  BY <1>1 DEF PutOk, Own, Fills
<1>5. RingInv'
  BY <1>1, <1>4, RangeFilled
<1>6. /\ image'[Off(pos[p])] = [pos |-> pos[p], total_len |-> Need(p), pad |-> padding[p],
                                msg |-> IF padding[p] THEN NoMsg ELSE cur[p]]
      /\ ~Stored(pos[p]) /\ pos[p] \in deq .. enq - 1
      /\ \A o \in Offsets : commit'[o] = commit[o] \/ commit'[o] = Junk
      /\ \A q \in deq .. enq - 1 : Starts(q) /\ q # pos[p] =>
            commit'[Off(q)] = commit[Off(q)] /\ image'[Off(q)] = image[Off(q)]
      /\ \A q \in deq .. enq - 1 : Stored(q)' <=> Stored(q) \/ q = pos[p]
      /\ \A q \in deq .. enq - 1 : Intact(q) => Intact(q)'
  BY <1>1, <1>4, FillMem
<1>7. deq \in Nat /\ enq \in Nat /\ deq < enq
  BY <1>1, <1>6 DEF TypeOK
<1>8. PutInv'
  <2>1. deq' \in Nat /\ deq <= deq'
    BY <1>3, <1>7
  <2>2. \A r \in Producers \ {p} : PutOk(r)'
    BY <1>1, <1>2, <1>3, <2>1, PutOthers
  <2>3. Sized(p)' <=> Sized(p)
    BY <1>3 DEF Sized, Need
  <2>4. PutOk(p)'
    BY <1>1, <1>2, <1>3, <1>4, <2>3 DEF PutOk
  <2> QED  BY <2>2, <2>4 DEF PutInv
<1>9. GetInv'
  <2>1. ASSUME NEW c \in Consumers  PROVE GetOk(c)'
    <3>1. GetOk(c) /\ at[c] \in Nat
      BY <1>1 DEF GetInv, TypeOK
    <3>2. Reads(c) => (at[c] < deq => commit'[Off(at[c])] # at[c] + 1)
      <4>1. Off(at[c]) \in Offsets
        BY <3>1, OffType
      <4> QED  BY <1>6, <3>1, <4>1, Sizes DEF GetOk
    <3>3. Past(c) /\ at[c] = deq => Starts(deq) /\ deq # pos[p]
      BY <1>6, <3>1 DEF GetOk, Intact, Starts
    <3>4. Past(c) /\ at[c] = deq => /\ commit'[Off(deq)] = commit[Off(deq)]
                                    /\ image'[Off(deq)] = image[Off(deq)]
      BY <1>6, <1>7, <3>3
    <3>5. \A q : q = deq /\ Intact(q) => Intact(q)'
      BY <1>6, <1>7
    <3>6. Past(c) => \A r \in Producers : pc'[r] = "publish" => at[c] # pos'[r]
      <4> SUFFICES ASSUME Past(c), NEW r \in Producers, pc'[r] = "publish", at[c] = pos[r]
                   PROVE  FALSE
        BY <1>3
      <4>1. at[c] <= deq
        BY <3>1 DEF GetOk, Past, Reads
      <4>2. CASE r = p
        BY <1>6, <1>7, <3>1, <3>3, <4>1, <4>2
      <4>3. CASE r # p
        BY <1>2, <3>1, <4>3 DEF GetOk
      <4> QED  BY <4>2, <4>3
    <3>7. Past(c) => (mode = MPMC => at[c] = deq)
      BY <3>1 DEF GetOk
    <3>8. enq' \in Nat /\ enq <= enq' /\ deq' \in Nat /\ deq <= deq' /\ deq' = deq
      BY <1>3, <1>7
    <3> QED  BY <1>1, <1>2, <1>3, <3>1, <3>2, <3>4, <3>5, <3>6, <3>7, <3>8, GetFrame
  <2> QED  BY <1>1, <1>2, <1>3, <2>1 DEF GetInv, OneLease, Past
<1>10. MsgInv'
  <2> DEFINE m0 == cur[p]
             q0 == pos[p]
  <2>1. \A q, m : Holds(q, m)' <=> Holds(q, m) \/ (q = q0 /\ ~padding[p] /\ m = m0)
    <3> SUFFICES ASSUME NEW q \in deq .. enq - 1, NEW m
                 PROVE  Holds(q, m)' <=> Holds(q, m) \/ (q = q0 /\ ~padding[p] /\ m = m0)
      BY <1>3, <1>6 DEF Holds
    <3>1. Holds(q, m)' <=> Stored(q)' /\ ~image'[Off(q)].pad /\ image'[Off(q)].msg = m
      BY <1>3 DEF Holds
    <3>2. CASE q = q0
      BY <1>6, <3>1, <3>2 DEF Holds
    <3>3. CASE q # q0
      BY <1>6, <3>1, <3>3 DEF Holds, Starts
    <3> QED  BY <3>2, <3>3
  <2>2. \A m \in Msgs, r \in Producers : Brings(r, m) <=> Brings(r, m)' \/ (r = p /\ ~padding[p] /\ m = m0)
    BY <1>2, <1>3, <1>4 DEF Brings, Fills
  <2>3. \A m \in Msgs, r \in Producers : Brings(r, m)' => Brings(r, m) /\ r # p
    BY <1>2, <1>3, <1>4 DEF Brings, Fills
  <2>4. \A r \in Producers : /\ pc'[r] # "idle" => pc[r] # "idle" /\ cur'[r] = cur[r]
                             /\ Putting(r)' => Putting(r)
    BY <1>1, <1>2, <1>3 DEF Putting, Own
  <2>5. \A m \in Msgs, r \in Producers : Brings(r, m) /\ Brings(p, m) => r = p
    BY <1>1 DEF MsgInv, Brings, Fills
  <2>6. ~padding[p] => Brings(p, m0)
    BY <1>4 DEF Brings
  <2>7. q0 \in Nat
    BY <1>1
  <2> HIDE DEF m0, q0
  <2>8. \A m \in Msgs :
           (\E q \in Nat : Holds(q, m)') \/ (\E r \in Producers : Brings(r, m)')
              <=> (\E q \in Nat : Holds(q, m)) \/ (\E r \in Producers : Brings(r, m))
    BY <2>1, <2>2, <2>7
  <2>9. /\ \A m \in Msgs, q, r \in Nat : Holds(q, m)' /\ Holds(r, m)' => q = r
        /\ \A m \in Msgs, q \in Nat, r \in Producers : ~(Holds(q, m)' /\ Brings(r, m)')
    BY <1>1, <2>1, <2>3, <2>5, <2>6 DEF MsgInv
  <2>10. \A r \in Producers : Putting(r)' => pc'[r] # "idle"
    BY DEF Putting, Own
  <2> QED  BY <1>1, <2>4, <2>8, <2>9, <2>10 DEF MsgInv
<1> QED  BY <1>2, <1>5, <1>8, <1>9, <1>10 DEF Sound

LEMMA PublishSafe ==
    ASSUME FInv, NEW p \in Producers, Publish(p)
    PROVE  Sound' /\ MsgInv'
<1> DEFINE q0 == pos[p]
<1>1. /\ pc[p] = "publish" /\ commit' = [commit EXCEPT ![Off(q0)] = q0 + 1]
      /\ UNCHANGED <<config, cursors, image, kick, consumer_waiting, consumer, status>>
      /\ TypeOK /\ PcInv /\ RingInv /\ PutInv /\ GetInv /\ MsgInv /\ PutOk(p) /\ q0 \in Nat
  BY DEF Publish, At, parking, history, FInv, Sound, PutInv, TypeOK
<1>2. PICK l \in {"load_enq", "kick"} : Goto(p, l) /\ (l = "load_enq" <=> padding[p])
  BY <1>1 DEF Publish, PutAgain
<1>3. /\ PcInv' /\ pc'[p] = l /\ \A r \in Producers \ {p} : pc'[r] = pc[r]
      /\ \A c \in Consumers : pc'[c] = pc[c]
  BY <1>1, <1>2, PutMoves DEF PutPcs, consumer
<1>4. /\ cur' = cur /\ total' = total /\ deq' = deq /\ enq' = enq /\ image' = image
      /\ at' = at /\ view' = view /\ mode' = mode
      /\ \A r \in Producers \ {p} : pos'[r] = pos[r] /\ padding'[r] = padding[r]
      /\ l = "kick" => padding' = padding
  BY <1>1, <1>2, <1>3 DEF Publish, PutAgain, TurnEnds, producer, cursors, consumer, config, TypeOK, Goto, PcInv
<1>5. /\ q0 \in deq .. enq - 1 /\ Intact(q0) /\ commit[Off(q0)] = 0
      /\ \A r \in Producers \ {p} : Own(r) => pos[r] # q0
      /\ enq <= deq + Capacity /\ deq \in Nat /\ enq \in Nat
  BY <1>1 DEF RingInv, OwnInv, ChainInv, Own, Fills, TypeOK
<1>6. ~Own(p)' /\ ~Fills(p)' /\ ~Fills(p) /\ \A r \in Producers \ {p} : (Own(r)' <=> Own(r)) /\ (Fills(r)' <=> Fills(r))
  BY <1>1, <1>3 DEF Own, Fills
<1>7. RingInv'
  <2>1. OwnSame
    BY <1>3, <1>4, <1>6 DEF OwnSame, RangesSame
  <2>2. \A r \in Producers : Own(r)' /\ pc[r] # "invalidate" => pos[r] # q0
    BY <1>5, <1>6
  <2> HIDE DEF q0
  <2> QED  BY <1>1, <1>4, <1>5, <2>1, <2>2, CommitStored
<1>8. PutInv'
  <2>1. deq' \in Nat /\ deq <= deq'
    BY <1>4, <1>5
  <2>2. \A r \in Producers \ {p} : PutOk(r)'
    BY <1>1, <1>3, <1>4, <2>1, PutOthers
  <2>3. PutOk(p)'
    BY <1>1, <1>2, <1>3, <1>4, <1>6 DEF PutOk
  <2> QED  BY <2>2, <2>3 DEF PutInv
<1>9. GetInv'
  <2>1. \A o \in Offsets : commit'[o] = IF o = Off(q0) THEN q0 + 1 ELSE commit[o]
    BY <1>1 DEF TypeOK
  <2>2. \A q \in Nat : Off(q) \in Offsets
    BY OffType
  <2>3. ASSUME NEW c \in Consumers  PROVE GetOk(c)'
    <3>1. GetOk(c) /\ at[c] \in Nat
      BY <1>1 DEF GetInv, TypeOK
    <3>2. Reads(c) => (at[c] < deq => commit'[Off(at[c])] # at[c] + 1)
      BY <1>5, <2>1, <2>2, <3>1 DEF GetOk
    <3>3. Past(c) /\ mode = MPMC => at[c] = deq /\ deq # q0
      BY <1>1, <3>1 DEF GetOk
    <3>4. Past(c) /\ mode = MPMC => Off(deq) # Off(q0)
      BY <1>5, <3>3, OffInj, Sizes
    <3>5. Past(c) /\ mode = MPMC => commit'[Off(deq)] = commit[Off(deq)]
      BY <1>5, <2>1, <2>2, <3>4
    <3>6. \A q : Intact(q)' <=> Intact(q)
      BY <1>4 DEF Intact, Stored
    <3>7. Past(c) => \A r \in Producers : pc'[r] = "publish" => at[c] # pos'[r]
      BY <1>3, <1>4, <1>6, <3>1 DEF GetOk, Own
    <3>8. enq' \in Nat /\ enq <= enq' /\ deq' \in Nat /\ deq <= deq' /\ deq' = deq
      BY <1>4, <1>5
    <3> HIDE DEF q0
    <3> QED  BY <1>1, <1>3, <1>4, <3>1, <3>2, <3>5, <3>6, <3>7, <3>8, GetFrame
  <2> QED  BY <1>1, <1>3, <1>4, <2>3 DEF GetInv, OneLease, Past
<1>10. MsgInv'
  <2>1. Putting(p)' => Putting(p)
    BY <1>1, <1>2, <1>3, <1>6 DEF Putting, Own
  <2> QED  BY <1>1, <1>3, <1>4, <1>6, <2>1, MsgQuiet
<1> QED  BY <1>3, <1>7, <1>8, <1>9, <1>10 DEF Sound

-----------------------------------------------------------------------------
(* The steps of get that leave the ring as it is *)

LEMMA MsgKept ==
    ASSUME FInv, UNCHANGED <<cursors, image, status, cur, padding>>,
           \A p \in Producers : pc'[p] = pc[p]
    PROVE  MsgInv'
<1>1. \A m, q : Holds(q, m)' <=> Holds(q, m)
  BY HoldsSame
<1>2. \A m \in Msgs, r \in Producers : Brings(r, m)' <=> Brings(r, m)
  BY DEF Brings, Fills
<1>3. \A r \in Producers : /\ pc'[r] # "idle" => pc[r] # "idle" /\ cur'[r] = cur[r]
                           /\ Putting(r)' => Putting(r)
  BY DEF Putting, Own
<1> QED  BY <1>1, <1>2, <1>3, MsgSame DEF FInv

LEMMA GetQuietly ==
    ASSUME FInv, NEW c \in Consumers, NEW l \in GetPcs, Goto(c, l), pc[c] # "idle" \/ MayGet(c),
           NEW v \in Seq(Mem), view' = [view EXCEPT ![c] = v], Local(l, v),
           NEW a \in Nat, at' = [at EXCEPT ![c] = a],
           kick' \subseteq kick \cup {c}, c \in kick' => l = "asleep",
           \/ consumer_waiting' = consumer_waiting /\ (Waits(l) <=> Waits(pc[c]))
           \/ consumer_waiting' = consumer_waiting + 1 /\ ~Waits(pc[c]) /\ Waits(l)
           \/ consumer_waiting' = consumer_waiting - 1 /\ Waits(pc[c]) /\ ~Waits(l),
           UNCHANGED <<config, cursors, memory, producer, status>>,
           GetOk(c)', mode = MPMC /\ Past(c)' => Past(c)
    PROVE  Sound' /\ MsgInv'
<1>1. TypeOK /\ PcInv /\ RingInv /\ PutInv /\ GetInv
  BY DEF FInv, Sound
<1>2. /\ PcInv' /\ pc'[c] = l /\ view'[c] = v
      /\ \A d \in Consumers \ {c} : pc'[d] = pc[d] /\ view'[d] = view[d]
      /\ \A p \in Producers : pc'[p] = pc[p]
  BY <1>1, GetMoves
<1>3. /\ enq' = enq /\ deq' = deq /\ commit' = commit /\ image' = image
      /\ pos' = pos /\ total' = total /\ padding' = padding /\ cur' = cur
      /\ mode' = mode /\ policy' = policy
  BY DEF cursors, memory, producer, config
<1>4. RingInv'
  BY <1>1, <1>2, <1>3, RingSame DEF OwnSame, RangesSame, Own, Fills
<1>5. PutInv'
  <2>1. deq' \in Nat /\ deq <= deq'
    BY <1>1, <1>3 DEF TypeOK
  <2> QED  BY <1>1, <1>2, <1>3, <2>1, PutKept
<1>6. \A d \in Consumers \ {c} : GetOk(d)'
  <2> SUFFICES ASSUME NEW d \in Consumers \ {c}  PROVE GetOk(d)'
    OBVIOUS
  <2>1. GetOk(d) /\ at'[d] = at[d]
    BY <1>1 DEF GetInv, TypeOK
  <2>2. \A q : Intact(q)' <=> Intact(q)
    BY <1>3 DEF Intact, Stored
  <2>3. enq' \in Nat /\ enq <= enq' /\ deq' \in Nat /\ deq <= deq'
    BY <1>1, <1>3 DEF TypeOK
  <2>4. /\ Reads(d) => /\ mode # MPMC /\ policy # Overwrite => deq' = deq
                       /\ at[d] < deq' => commit'[Off(at[d])] # at[d] + 1
        /\ Past(d) => \A p \in Producers : pc'[p] = "publish" => at[d] # pos'[p]
    BY <1>2, <1>3, <2>1 DEF GetOk
  <2> QED  BY <1>1, <1>2, <1>3, <2>1, <2>2, <2>3, <2>4, GetFrame
<1>7. GetInv'
  BY <1>1, <1>2, <1>3, <1>6 DEF GetInv, OneLease, Past
<1>8. MsgInv'
  BY <1>2, <1>3, MsgKept
<1> QED  BY <1>2, <1>4, <1>5, <1>7, <1>8 DEF Sound

LEMMA LookSafe ==
    ASSUME FInv, NEW c \in Consumers, NEW l \in GetPcs, Look(c, l), pc[c] # "idle" \/ MayGet(c),
           pc[c] # "asleep", Waits(l) <=> Waits(pc[c]), Local(l, view[c]),
           GetOk(c)', mode = MPMC /\ Past(c)' => Past(c)
    PROVE  Sound' /\ MsgInv'
<1>1. /\ Goto(c, l) /\ view' = view /\ at' = at /\ kick' = kick /\ consumer_waiting' = consumer_waiting
      /\ UNCHANGED <<config, cursors, memory, producer, status>>
  BY DEF Look, consumer, parking, history
<1>2. view[c] \in Seq(Mem) /\ at[c] \in Nat /\ c \notin kick
      /\ view = [view EXCEPT ![c] = view[c]] /\ at = [at EXCEPT ![c] = at[c]]
  BY DEF FInv, Sound, PcInv, TypeOK
<1>3. kick' \subseteq kick \cup {c} /\ (c \in kick' => l = "asleep")
  BY <1>1, <1>2
<1>4. view' = [view EXCEPT ![c] = view[c]] /\ at' = [at EXCEPT ![c] = at[c]]
  BY <1>1, <1>2
<1> QED  BY <1>1, <1>2, <1>3, <1>4, GetQuietly

LEMMA LookOverSafe ==
    ASSUME FInv, NEW c \in Consumers, NEW l \in {"cursors", "idle"}, TurnOver(c, l), Reads(c),
           UNCHANGED <<config, cursors, memory, parking, producer, status>>
    PROVE  Sound' /\ MsgInv'
<1>1. /\ Goto(c, l) /\ view' = [view EXCEPT ![c] = <<>>] /\ at' = [at EXCEPT ![c] = 0]
      /\ kick' = kick /\ consumer_waiting' = consumer_waiting
  BY DEF TurnOver, parking
<1>2. pc[c] # "idle" /\ c \notin kick /\ ~Waits(pc[c]) /\ ~Waits(l) /\ l \in GetPcs /\ Local(l, <<>>)
  BY DEF Reads, Waits, FInv, Sound, PcInv, GetPcs, Local
<1>3. pc'[c] = l
  <2>1. c \in Threads
    BY DEF Threads
  <2> QED  BY <1>1, <2>1 DEF Goto, FInv, Sound, PcInv
<1>4. GetOk(c)' /\ ~Past(c)'
  BY <1>3 DEF GetOk, Reads, Past
<1>5. kick' \subseteq kick \cup {c} /\ (c \in kick' => l = "asleep") /\ <<>> \in Seq(Mem) /\ 0 \in Nat
  BY <1>1, <1>2
<1> QED  BY <1>1, <1>2, <1>4, <1>5, GetQuietly

(* Who finds the marker at its cursor stands at deq, in front of a whole   *)
(* record that nobody has leased.                                          *)
LEMMA MarkerIsTrue ==
    ASSUME FInv, NEW c \in Consumers, Reads(c), Marker(c) = at[c] + 1
    PROVE  /\ at[c] = deq /\ deq < enq /\ Intact(deq)
           /\ \A p \in Producers : pc[p] = "publish" => at[c] # pos[p]
           /\ mode = MPMC => \A d \in Consumers : ~Past(d)
<1>1. /\ TypeOK /\ RingInv /\ GetOk(c) /\ at[c] \in Nat /\ deq \in Nat /\ enq \in Nat
      /\ \A d \in Consumers : GetOk(d)
  BY DEF FInv, Sound, GetInv, TypeOK
<1>2. at[c] = deq /\ deq < enq /\ commit[Off(deq)] = deq + 1
  BY <1>1 DEF GetOk, Marker
<1>3. Intact(deq)
  BY <1>1, <1>2 DEF RingInv, MemInv
<1>4. \A p \in Producers : pc[p] = "publish" => deq # pos[p]
  <2> SUFFICES ASSUME NEW p \in Producers, pc[p] = "publish", deq = pos[p]  PROVE FALSE
    OBVIOUS
  <2>1. commit[Off(deq)] = 0
    BY <1>1 DEF RingInv, OwnInv, Own
  <2> QED  BY <1>1, <1>2, <2>1
<1>5. mode = MPMC => \A d \in Consumers : ~Past(d)
  BY <1>1, <1>2 DEF GetOk
<1> QED  BY <1>2, <1>3, <1>4, <1>5

LEMMA LookGoes ==
    ASSUME FInv, NEW c \in Consumers, NEW l, Look(c, l)
    PROVE  /\ pc'[c] = l
           /\ \A p \in Producers : pc'[p] = pc[p] /\ pos'[p] = pos[p]
           /\ enq' = enq /\ deq' = deq /\ commit' = commit /\ image' = image /\ mode' = mode
           /\ policy' = policy /\ at' = at /\ view' = view
           /\ \A q : Intact(q)' <=> Intact(q)
           /\ GetOk(c) /\ at[c] \in Nat /\ deq \in Nat /\ enq \in Nat
<1>1. c \in Threads /\ \A p \in Producers : p # c
  BY ThreadAssumption DEF Threads
<1>2. /\ enq' = enq /\ deq' = deq /\ commit' = commit /\ image' = image /\ mode' = mode
      /\ policy' = policy /\ at' = at /\ view' = view /\ pos' = pos
  BY DEF Look, cursors, memory, consumer, producer, config
<1>3. pc'[c] = l /\ \A p \in Producers : pc'[p] = pc[p]
  BY <1>1 DEF Look, Goto, FInv, Sound, PcInv
<1>4. \A q : Intact(q)' <=> Intact(q)
  BY <1>2 DEF Intact, Stored
<1> QED  BY <1>2, <1>3, <1>4 DEF FInv, Sound, GetInv, TypeOK

(* Outside the part of get that has a cursor. *)
LEMMA LookOutside ==
    ASSUME FInv, NEW c \in Consumers, NEW l \in {"idle", "cursors", "nothing", "park"}, Look(c, l),
           pc[c] # "idle" \/ MayGet(c), pc[c] \in {"idle", "cursors", "nothing"}
    PROVE  Sound' /\ MsgInv'
<1>1. pc'[c] = l
  BY LookGoes
<1>2. GetOk(c)' /\ ~Past(c)'
  BY <1>1 DEF GetOk, Reads, Past
<1> QED  BY <1>2, LookSafe DEF GetPcs, Waits, Local

(* Before the marker, one freshness check to the next. *)
LEMMA LookFurther ==
    ASSUME FInv, NEW c \in Consumers, NEW l \in {"fresh", "marker", "fresh_again", "claim"},
           Look(c, l), pc[c] \in {"fresh", "marker", "fresh_again"},
           l \in {"fresh_again", "claim"} => mode = MPMC
    PROVE  Sound' /\ MsgInv'
<1>1. pc'[c] = l /\ enq' = enq /\ deq' = deq /\ commit' = commit /\ mode' = mode /\ policy' = policy /\ at' = at
      /\ GetOk(c)
  BY LookGoes
<1>2. Reads(c) /\ ~Past(c)'
  BY <1>1 DEF Reads, Past
<1>3. GetOk(c)'
  BY <1>1, <1>2 DEF GetOk
<1> QED  BY <1>2, <1>3, LookSafe DEF GetPcs, Waits, Local

LEMMA LoadCursorsSafe ==
    ASSUME FInv, NEW c \in Consumers, LoadCursors(c)
    PROVE  Sound' /\ MsgInv'
<1>1. pc[c] = "cursors"
  BY DEF LoadCursors, At
<1>2. CASE Look(c, "nothing")
  BY <1>1, <1>2, LookOutside
<1>3. CASE /\ deq < enq
           /\ at' = [at EXCEPT ![c] = deq]
           /\ Goto(c, "fresh")
           /\ UNCHANGED <<config, cursors, memory, closer, counters, parking, producer, view, history>>
  <2>1. /\ enq' = enq /\ deq' = deq /\ deq \in Nat /\ enq \in Nat /\ at'[c] = deq
        /\ view[c] \in Seq(Mem) /\ view' = [view EXCEPT ![c] = view[c]]
        /\ kick' = kick /\ consumer_waiting' = consumer_waiting /\ c \notin kick /\ status' = status
    BY <1>1, <1>3 DEF cursors, parking, history, FInv, Sound, PcInv, TypeOK
  <2>2. pc'[c] = "fresh"
    <3>1. c \in Threads
      BY DEF Threads
    <3> QED  BY <1>3, <3>1 DEF Goto, FInv, Sound, PcInv
  <2>3. GetOk(c)' /\ ~Past(c)'
    BY <1>3, <2>1, <2>2 DEF GetOk, Past
  <2>4. kick' \subseteq kick \cup {c} /\ (c \in kick' => "fresh" = "asleep")
    BY <2>1
  <2> QED  BY <1>1, <1>3, <2>1, <2>3, <2>4, GetQuietly DEF GetPcs, Waits, Local
<1> QED  BY <1>2, <1>3 DEF LoadCursors

LEMMA OverSafe ==
    ASSUME FInv, NEW c \in Consumers, NEW l \in {"cursors", "idle"}, LookOver(c, l), Reads(c)
    PROVE  Sound' /\ MsgInv'
BY LookOverSafe DEF LookOver, history

LEMMA FreshSafe ==
    ASSUME FInv, NEW c \in Consumers, Fresh(c) \/ FreshAgain(c)
    PROVE  Sound' /\ MsgInv'
<1>1. pc[c] \in {"fresh", "fresh_again"} /\ Reads(c)
  BY DEF Fresh, FreshAgain, At, Reads
<1>2. pc[c] = "fresh_again" => mode = MPMC
  BY DEF FInv, Sound, PcInv
<1>3. CASE LookOver(c, "cursors")
  BY <1>1, <1>3, OverSafe
<1>4. CASE Look(c, "marker")
  BY <1>1, <1>4, LookFurther
<1>5. CASE pc[c] = "fresh_again" /\ Look(c, "claim")
  BY <1>1, <1>2, <1>5, LookFurther
<1> QED  BY <1>3, <1>4, <1>5 DEF Fresh, FreshAgain, At

LEMMA MarkerSafe ==
    ASSUME FInv, ~MistakesJunk, NEW c \in Consumers,
           MarkerFound(c) \/ MarkerTaken(c) \/ MarkerMissing(c)
    PROVE  Sound' /\ MsgInv'
<1>1. pc[c] = "marker" /\ Reads(c)
  BY DEF MarkerFound, MarkerTaken, MarkerMissing, At, Reads
<1>2. CASE LookOver(c, "cursors") \/ LookOver(c, "idle")
  BY <1>1, <1>2, OverSafe
<1>3. CASE Look(c, "fresh")
  BY <1>1, <1>3, LookFurther
<1>4. CASE MarkerFound(c)
  <2>1. Marker(c) = at[c] + 1
    BY <1>4 DEF MistakesJunk, MarkerFound, IsMarker
  <2>2. CASE mode = MPMC
    <3>1. Look(c, "fresh_again")
      BY <1>4, <2>2 DEF MarkerFound
    <3> QED  BY <1>1, <2>2, <3>1, LookFurther
  <2>3. CASE mode # MPMC
    <3>1. Look(c, "header")
      BY <1>4, <2>3 DEF MarkerFound
    <3>2. /\ at[c] = deq /\ Intact(deq)
          /\ \A p \in Producers : pc[p] = "publish" => at[c] # pos[p]
      BY <1>1, <2>1, MarkerIsTrue
    <3>3. GetOk(c)'
      <4>1. /\ pc'[c] = "header" /\ enq' = enq /\ deq' = deq /\ commit' = commit /\ mode' = mode
            /\ policy' = policy /\ at' = at /\ GetOk(c)
            /\ \A p \in Producers : pc'[p] = pc[p] /\ pos'[p] = pos[p]
            /\ \A q : Intact(q)' <=> Intact(q)
        BY <3>1, LookGoes
      <4>2. Intact(at[c])'
        BY <3>2, <4>1 DEF Intact, Stored
      <4> QED  BY <1>1, <2>3, <3>2, <4>1, <4>2 DEF GetOk
    <3> QED  BY <1>1, <2>3, <3>1, <3>3, LookSafe DEF GetPcs, Waits, Local
  <2> QED  BY <2>2, <2>3
<1> QED  BY <1>2, <1>3, <1>4 DEF MarkerTaken, MarkerMissing

LEMMA ClaimLosesSafe ==
    ASSUME FInv, NEW c \in Consumers, ClaimLoses(c)
    PROVE  Sound' /\ MsgInv'
BY OverSafe DEF ClaimLoses, At, Reads

LEMMA ReadHeaderSafe ==
    ASSUME FInv, NEW c \in Consumers, ReadHeader(c)
    PROVE  Sound' /\ MsgInv'
<1> DEFINE h == image[Off(at[c])]
           l == IF h.pad THEN "advance" ELSE "copy"
<1>1. /\ pc[c] = "header" /\ HeaderThere(c) /\ view' = [view EXCEPT ![c] = <<h>>] /\ Goto(c, l)
      /\ UNCHANGED <<config, cursors, memory, parking, producer, at, status>>
      /\ TypeOK /\ PcInv /\ RingInv /\ GetOk(c) /\ at[c] \in Nat
  BY DEF ReadHeader, Header, At, history, FInv, Sound, GetInv, TypeOK
<1>2. h \in Mem /\ h.pad \in BOOLEAN /\ (~h.pad => h.msg \in Msgs)
  <2>1. Off(at[c]) \in Offsets /\ h.total_len # 0
    BY <1>1, OffType DEF HeaderThere, Header
  <2> QED  BY <1>1, <2>1, ImageType DEF RingInv, MemInv
<1>3. /\ enq' = enq /\ deq' = deq /\ commit' = commit /\ image' = image /\ at' = at /\ mode' = mode
      /\ policy' = policy /\ pos' = pos /\ kick' = kick /\ consumer_waiting' = consumer_waiting
  BY <1>1 DEF cursors, memory, config, producer, parking
<1>4. <<h>> \in Seq(Mem) /\ Len(<<h>>) = 1 /\ <<h>>[1] = h
  BY <1>2
<1> HIDE DEF h
<1>5. l \in {"advance", "copy"} /\ (l = "copy" <=> ~h.pad) /\ Local(l, <<h>>)
  BY <1>2, <1>4 DEF Local
<1> HIDE DEF l
<1>6. /\ pc'[c] = l /\ view'[c] = <<h>> /\ c \notin kick
      /\ \A p \in Producers : pc'[p] = pc[p]
  <2>1. c \in Threads /\ \A p \in Producers : p # c
    BY ThreadAssumption DEF Threads
  <2> QED  BY <1>1, <2>1 DEF Goto, PcInv
<1>7. GetOk(c)'
  <2>1. \A q : Intact(q)' <=> Intact(q)
    BY <1>3 DEF Intact, Stored
  <2>2. at[c] = deq => Intact(at[c])'
    BY <1>1, <1>3 DEF GetOk, Past, Intact, Stored
  <2>3. /\ at[c] <= deq /\ at[c] < enq
        /\ mode # MPMC /\ policy # Overwrite => at[c] = deq
        /\ at[c] < deq => commit[Off(at[c])] # at[c] + 1
        /\ mode = MPMC => at[c] = deq /\ commit[Off(deq)] = deq + 2
        /\ \A p \in Producers : pc[p] = "publish" => at[c] # pos[p]
    BY <1>1 DEF GetOk, Reads, Past
  <2>4. view'[c][1] = image[Off(at[c])]
    BY <1>4, <1>6 DEF h
  <2>5. view'[c][1] = h
    BY <1>4, <1>6
  <2> QED  BY <1>3, <1>5, <1>6, <2>2, <2>3, <2>4, <2>5 DEF GetOk
<1>8. Past(c) /\ ~Waits(pc[c]) /\ ~Waits(l) /\ l \in GetPcs
  BY <1>1, <1>5 DEF Past, Waits, GetPcs
<1>9. kick' \subseteq kick \cup {c} /\ (c \in kick' => l = "asleep") /\ at' = [at EXCEPT ![c] = at[c]]
  BY <1>1, <1>3, <1>6 DEF TypeOK
<1> QED  BY <1>1, <1>3, <1>4, <1>5, <1>7, <1>8, <1>9, GetQuietly

(* Behind a lease there is a header. *)
LEMMA ReadNoHeaderSafe ==
    ASSUME FInv, NEW c \in Consumers, ReadNoHeader(c)
    PROVE  Sound' /\ MsgInv' /\ deq' = deq
<1>1. pc[c] = "header" /\ ~HeaderThere(c) /\ Reads(c) /\ Past(c) /\ GetOk(c)
  BY DEF ReadNoHeader, At, Reads, Past, FInv, Sound, GetInv
<1>2. mode = MPMC => HeaderThere(c)
  BY <1>1 DEF GetOk, Intact, Stored, HeaderThere, Header
<1>3. deq' = deq
  BY <1>1, <1>2 DEF ReadNoHeader
<1> QED  BY <1>1, <1>3, LookOverSafe DEF ReadNoHeader, cursors, history

(* Where the record ends that an intact header announces. *)
LEMMA LastWordIs ==
    ASSUME FInv, NEW c \in Consumers, Past(c), at[c] = deq, ~image[Off(at[c])].pad,
           view[c][1] = image[Off(at[c])]
    PROVE  image[LastWord(c)] = image[Off(at[c])]
<1> DEFINE h == image[Off(at[c])]
           len == RecordLen[h.msg]
<1>1. /\ TypeOK /\ RingInv /\ Intact(deq) /\ deq \in Nat /\ enq \in Nat /\ deq < enq
  BY DEF FInv, Sound, GetInv, GetOk, Reads, Past, TypeOK
<1>2. Off(deq) \in Offsets /\ Off(deq) \in Nat /\ Stored(deq)
  BY <1>1, OffType DEF Intact
<1>3. h.total_len \in Nat /\ h.msg \in Msgs /\ len <= h.total_len /\ len \in Nat /\ len # 0
      /\ LastWord(c) = (Off(deq) + len - 1) % Capacity
  BY <1>1, <1>2, ImageType, Sizes DEF RingInv, MemInv, Stored, LastWord
<1>4. Off(deq) + h.total_len <= Capacity
  BY <1>1, <1>2, <1>3 DEF RingInv, ChainInv, Entry
<1>5. \A i \in 0 .. len - 1 : image[Off(deq) + i] = h
  BY <1>1 DEF Intact
<1> HIDE DEF h, len
<1>6. Off(deq) + len - 1 \in Nat /\ Off(deq) + len - 1 < Capacity /\ len - 1 \in 0 .. len - 1
      /\ Off(deq) + len - 1 = Off(deq) + (len - 1)
  BY <1>2, <1>3, <1>4, Sizes
<1>7. LastWord(c) = Off(deq) + (len - 1)
  <2> DEFINE x == Off(deq) + len - 1
  <2>1. x \in Nat /\ x \in 0 .. Capacity - 1 /\ Capacity \in Nat \ {0} /\ 0 \in Nat /\ x = Capacity * 0 + x
    BY <1>6, Sizes
  <2> HIDE DEF x
  <2>2. x % Capacity = x
    BY <2>1, ModOf
  <2> QED  BY <1>3, <1>6, <2>2 DEF x
<1> QED  BY <1>5, <1>6, <1>7 DEF h

LEMMA AppendSecond ==
    ASSUME NEW S, NEW s \in Seq(S), NEW w \in S, Len(s) = 1
    PROVE  /\ Append(s, w) \in Seq(S) /\ Len(Append(s, w)) = 2
           /\ Append(s, w)[1] = s[1] /\ Append(s, w)[2] = w
<1> DEFINE u == Append(s, w)
<1>1. u \in Seq(S) /\ Len(u) = Len(s) + 1 /\ Len(s) \in Nat
      /\ u[Len(s) + 1] = w /\ \A i \in 1 .. Len(s) : u[i] = s[i]
  OBVIOUS
<1> HIDE DEF u
<1>2. Len(u) = 2 /\ u[1] = s[1] /\ u[2] = w
  BY <1>1
<1> QED  BY <1>1, <1>2 DEF u

LEMMA CopySafe ==
    ASSUME FInv, NEW c \in Consumers, Copy(c)
    PROVE  Sound' /\ MsgInv'
<1> DEFINE w == image[LastWord(c)]
           v == Append(view[c], w)
           l == IF mode = MPMC THEN "advance" ELSE "revalidate"
<1>1. /\ pc[c] = "copy" /\ view' = [view EXCEPT ![c] = v] /\ Goto(c, l)
      /\ UNCHANGED <<config, cursors, memory, parking, producer, at, status>>
      /\ TypeOK /\ PcInv /\ RingInv /\ GetOk(c) /\ at[c] \in Nat
      /\ view[c] \in Seq(Mem) /\ Len(view[c]) = 1 /\ view[c][1].msg \in Msgs
  BY DEF Copy, At, history, FInv, Sound, GetInv, TypeOK, PcInv
<1>2. w \in Mem
  <2>1. Off(at[c]) \in Nat /\ RecordLen[view[c][1].msg] \in Nat /\ RecordLen[view[c][1].msg] # 0
    <3>1. Off(at[c]) \in Nat
      BY <1>1, OffType
    <3> QED  BY <1>1, <3>1, Sizes
  <2>2. Off(at[c]) + RecordLen[view[c][1].msg] - 1 \in Nat
    BY <2>1
  <2>3. LastWord(c) \in 0 .. Capacity - 1
    BY <2>2, Sizes, ModRange DEF LastWord
  <2> QED  BY <1>1, <2>3, ImageType DEF Offsets
<1>3. /\ enq' = enq /\ deq' = deq /\ commit' = commit /\ image' = image /\ at' = at /\ mode' = mode
      /\ policy' = policy /\ pos' = pos /\ kick' = kick /\ consumer_waiting' = consumer_waiting
  BY <1>1 DEF cursors, memory, config, producer, parking
<1>4. at[c] = deq => w = view[c][1] /\ view[c][1] = image[Off(at[c])] /\ Intact(at[c])
  <2>1. at[c] = deq => view[c][1] = image[Off(at[c])] /\ Intact(at[c])
    BY <1>1 DEF GetOk, Past
  <2>2. ~view[c][1].pad
    BY <1>1 DEF GetOk, Past
  <2> QED  BY <1>1, <2>1, <2>2, LastWordIs DEF Past
<1> HIDE DEF w
<1>5. v \in Seq(Mem) /\ Len(v) = 2 /\ v[1] = view[c][1] /\ v[2] = w
  <2> DEFINE s == view[c]
  <2>1. s \in Seq(Mem) /\ Len(s) = 1 /\ v = Append(s, w)
    BY <1>1
  <2> HIDE DEF s, v
  <2>2. /\ Append(s, w) \in Seq(Mem) /\ Len(Append(s, w)) = 2
        /\ Append(s, w)[1] = s[1] /\ Append(s, w)[2] = w
    BY <1>2, <2>1, AppendSecond
  <2> QED  BY <2>1, <2>2 DEF s
<1> HIDE DEF v
<1>6. l \in {"advance", "revalidate"} /\ (l = "advance" <=> mode = MPMC) /\ Local(l, v)
  BY <1>5 DEF Local
<1> HIDE DEF l
<1>7. /\ pc'[c] = l /\ view'[c] = v /\ c \notin kick
      /\ \A p \in Producers : pc'[p] = pc[p]
  <2>1. c \in Threads /\ \A p \in Producers : p # c
    BY ThreadAssumption DEF Threads
  <2> QED  BY <1>1, <2>1 DEF Goto, PcInv
<1>8. GetOk(c)'
  <2>1. at[c] = deq => Intact(at[c])'
    BY <1>3, <1>4 DEF Intact, Stored
  <2>2. /\ at[c] <= deq /\ at[c] < enq
        /\ mode # MPMC /\ policy # Overwrite => at[c] = deq
        /\ at[c] < deq => commit[Off(at[c])] # at[c] + 1
        /\ mode = MPMC => at[c] = deq /\ commit[Off(deq)] = deq + 2
        /\ \A p \in Producers : pc[p] = "publish" => at[c] # pos[p]
        /\ ~view[c][1].pad
    BY <1>1 DEF GetOk, Reads, Past
  <2>3. view'[c][1] = view[c][1] /\ view'[c][2] = w
    BY <1>5, <1>7
  <2>4. at[c] = deq => Copied(c)'
    BY <1>3, <1>4, <2>3 DEF Copied, Intact, Stored
  <2> QED  BY <1>3, <1>4, <1>6, <1>7, <2>1, <2>2, <2>3, <2>4 DEF GetOk
<1>9. Past(c) /\ ~Waits(pc[c]) /\ ~Waits(l) /\ l \in GetPcs
  BY <1>1, <1>6 DEF Past, Waits, GetPcs
<1>10. kick' \subseteq kick \cup {c} /\ (c \in kick' => l = "asleep") /\ at' = [at EXCEPT ![c] = at[c]]
  BY <1>1, <1>3, <1>7 DEF TypeOK
<1> QED  BY <1>1, <1>3, <1>5, <1>6, <1>8, <1>9, <1>10, GetQuietly

LEMMA RevalidateSafe ==
    ASSUME FInv, ~MistakesJunk, NEW c \in Consumers, Revalidate(c)
    PROVE  Sound' /\ MsgInv'
<1>1. pc[c] = "revalidate" /\ Reads(c) /\ Past(c) /\ GetOk(c)
  BY DEF Revalidate, At, Reads, Past, FInv, Sound, GetInv
<1>2. CASE LookOver(c, "cursors")
  BY <1>1, <1>2, OverSafe
<1>3. CASE IsMarker(c) /\ Look(c, "advance")
  <2>0. Marker(c) = at[c] + 1
    <3>1. pc'[c] = "advance"
      BY <1>3, LookGoes
    <3> QED  BY <1>3, <3>1 DEF MistakesJunk, IsMarker
  <2>1. at[c] = deq
    BY <1>1, <2>0, MarkerIsTrue
  <2>2. Copied(c) /\ ~view[c][1].pad
    BY <1>1, <2>1 DEF GetOk
  <2>3. /\ pc'[c] = "advance" /\ enq' = enq /\ deq' = deq /\ commit' = commit /\ mode' = mode
        /\ policy' = policy /\ at' = at /\ view' = view /\ image' = image
        /\ \A p \in Producers : pc'[p] = pc[p] /\ pos'[p] = pos[p]
    BY <1>3, LookGoes
  <2>4. Intact(at[c])'
    BY <1>1, <2>1, <2>3 DEF GetOk, Intact, Stored
  <2>5. GetOk(c)'
    BY <1>1, <2>1, <2>2, <2>3, <2>4 DEF GetOk, Copied
  <2>6. Local("advance", view[c])
    <3>1. Len(view[c]) = 2
      BY <1>1 DEF FInv, Sound, PcInv
    <3> QED  BY <3>1 DEF Local
  <2> QED  BY <1>1, <1>3, <2>5, <2>6, LookSafe DEF GetPcs, Waits
<1> QED  BY <1>2, <1>3 DEF Revalidate

-----------------------------------------------------------------------------
(* The steps of get that change the ring *)

LEMMA ClaimWinsSafe ==
    ASSUME FInv, ~MistakesJunk, NEW c \in Consumers, ClaimWins(c)
    PROVE  Sound' /\ MsgInv'
<1>0. Marker(c) = at[c] + 1
  BY DEF MistakesJunk, ClaimWins, IsMarker
<1>1. /\ pc[c] = "claim" /\ Goto(c, "header")
      /\ commit' = [commit EXCEPT ![Off(at[c])] = at[c] + 2]
      /\ UNCHANGED <<config, cursors, image, parking, producer, consumer, status>>
      /\ TypeOK /\ PcInv /\ RingInv /\ PutInv /\ GetInv /\ deq \in Nat /\ enq \in Nat
  BY DEF ClaimWins, At, history, FInv, Sound, TypeOK
<1>2. mode = MPMC /\ mode # SPSC /\ policy # Overwrite
  BY <1>1, ModeAssumption DEF PcInv
<1>3. /\ at[c] = deq /\ deq < enq /\ Intact(deq)
      /\ \A p \in Producers : pc[p] = "publish" => deq # pos[p]
      /\ \A d \in Consumers : ~Past(d)
  BY <1>0, <1>1, <1>2, MarkerIsTrue DEF Reads
<1>4. /\ enq' = enq /\ deq' = deq /\ image' = image /\ at' = at /\ view' = view /\ mode' = mode
      /\ policy' = policy /\ pos' = pos /\ kick' = kick /\ consumer_waiting' = consumer_waiting
      /\ total' = total /\ padding' = padding /\ cur' = cur /\ c \notin kick
  BY <1>1 DEF cursors, config, producer, parking, consumer, PcInv
<1>5. /\ PcInv' /\ pc'[c] = "header"
      /\ \A d \in Consumers \ {c} : pc'[d] = pc[d]
      /\ \A p \in Producers : pc'[p] = pc[p]
  <2>1. view[c] \in Seq(Mem) /\ view' = [view EXCEPT ![c] = view[c]]
    BY <1>1, <1>4 DEF PcInv
  <2>2. kick' \subseteq kick \cup {c} /\ (c \in kick' => "header" = "asleep")
    BY <1>4
  <2> QED  BY <1>1, <1>4, <2>1, <2>2, GetMoves DEF GetPcs, Local, Waits
<1>6. commit' = [commit EXCEPT ![Off(deq)] = deq + 2]
  BY <1>1, <1>3
<1>7. RingInv'
  <2>1. OwnSame
    BY <1>4, <1>5 DEF OwnSame, RangesSame, Own, Fills
  <2>2. \A p \in Producers : Own(p)' /\ pc[p] # "invalidate" => pos[p] # deq
    BY <1>1, <1>3, <1>4, <1>5 DEF RingInv, OwnInv, Own, Fills, Intact
  <2>3. deq \in deq .. enq - 1 /\ deq + 2 \in {deq + 1, deq + 2}
    BY <1>1, <1>3
  <2> QED  BY <1>1, <1>3, <1>4, <1>6, <2>1, <2>2, <2>3, CommitStored
<1>8. PutInv'
  <2>1. deq' \in Nat /\ deq <= deq'
    BY <1>1, <1>4
  <2> QED  BY <1>1, <1>2, <1>4, <1>5, <2>1, PutKept
<1>9. \A o \in Offsets : commit'[o] = IF o = Off(deq) THEN deq + 2 ELSE commit[o]
  BY <1>1, <1>6 DEF TypeOK
<1>10. \A q \in Nat : Off(q) \in Offsets
  BY OffType
<1>11. \A q : Intact(q)' <=> Intact(q)
  BY <1>4 DEF Intact, Stored
<1>12. \A d \in Consumers \ {c} : GetOk(d)'
  <2> SUFFICES ASSUME NEW d \in Consumers \ {c}  PROVE GetOk(d)'
    OBVIOUS
  <2>1. GetOk(d) /\ at[d] \in Nat
    BY <1>1 DEF GetInv, TypeOK
  <2>2. Reads(d) => (at[d] < deq => commit'[Off(at[d])] # at[d] + 1)
    BY <1>1, <1>9, <1>10, <2>1 DEF GetOk
  <2>3. enq' \in Nat /\ enq <= enq' /\ deq' \in Nat /\ deq <= deq'
    BY <1>1, <1>4
  <2> QED  BY <1>1, <1>2, <1>3, <1>4, <1>5, <2>1, <2>2, <2>3, GetFrame
<1>13. GetOk(c)'
  <2>1. Intact(at[c])'
    BY <1>3, <1>4 DEF Intact, Stored
  <2>2. commit'[Off(deq)] = deq + 2
    BY <1>1, <1>9, <1>10
  <2> QED  BY <1>1, <1>2, <1>3, <1>4, <1>5, <2>1, <2>2 DEF GetOk, Reads, Past
<1>14. GetInv'
  BY <1>3, <1>4, <1>5, <1>12, <1>13 DEF GetInv, OneLease, Past
<1>15. MsgInv'
  BY <1>1, <1>4, <1>5, MsgKept
<1> QED  BY <1>5, <1>7, <1>8, <1>14, <1>15 DEF Sound

(* Whoever moves deq, moves it over the entry it has read. *)
LEMMA AdvanceAtDeq ==
    ASSUME FInv, NEW c \in Consumers, pc[c] = "advance", ~lf_deq_contended \/ deq = at[c]
    PROVE  /\ at[c] = deq /\ deq < enq /\ Stored(deq)
           /\ view[c][1] = image[Off(deq)] /\ Entry(deq, view[c][1].total_len)
           /\ \A p \in Producers : Own(p) => pos[p] # deq
<1>1. RingInv /\ GetOk(c) /\ Past(c) /\ Reads(c) /\ deq \in Nat /\ enq \in Nat
  BY DEF FInv, Sound, GetInv, Past, Reads, TypeOK
<1>2. at[c] = deq
  BY <1>1 DEF GetOk, lf_deq_contended
<1>3. /\ Intact(deq) /\ view[c][1] = image[Off(deq)] /\ deq < enq
      /\ \A p \in Producers : pc[p] = "publish" => deq # pos[p]
  BY <1>1, <1>2 DEF GetOk
<1>4. Stored(deq) /\ Entry(deq, view[c][1].total_len)
  BY <1>3 DEF Intact, Entry
<1>5. \A p \in Producers : Own(p) => pos[p] # deq
  BY <1>1, <1>3, <1>4 DEF RingInv, OwnInv, Own, Fills
<1> QED  BY <1>2, <1>3, <1>4, <1>5

LEMMA AdvanceSafe ==
    ASSUME FInv, NEW c \in Consumers, Advance(c)
    PROVE  Sound' /\ MsgInv'
<1> DEFINE h == view[c][1]
           wins == ~lf_deq_contended \/ deq = at[c]
           returns == ~h.pad /\ (wins \/ mode = MPMC)
           l == IF returns THEN "idle" ELSE "cursors"
<1>1. /\ pc[c] = "advance"
      /\ deq' = IF wins THEN at[c] + h.total_len ELSE deq
      /\ status' = IF returns THEN [status EXCEPT ![h.msg] = "got"] ELSE status
      /\ TurnOver(c, l)
      /\ UNCHANGED <<config, enq, memory, parking, producer>>
      /\ TypeOK /\ PcInv /\ RingInv /\ PutInv /\ GetInv /\ MsgInv /\ GetOk(c) /\ Past(c) /\ Reads(c)
  BY DEF Advance, At, FInv, Sound, GetInv, Past, Reads
<1>2. mode = MPMC => wins
  BY <1>1 DEF GetOk
<1>3. CASE ~wins
  <2>1. ~returns /\ deq' = deq /\ status' = status /\ l = "cursors"
    BY <1>1, <1>2, <1>3
  <2>2. TurnOver(c, "cursors")
    BY <1>1, <2>1
  <2> QED  BY <1>1, <2>1, <2>2, LookOverSafe DEF cursors
<1>4. CASE wins
  <2>1. /\ at[c] = deq /\ deq < enq /\ Stored(deq) /\ h = image[Off(deq)] /\ Entry(deq, h.total_len)
        /\ \A p \in Producers : Own(p) => pos[p] # deq
    BY <1>1, <1>4, AdvanceAtDeq
  <2>2. deq' = deq + h.total_len
    BY <1>1, <1>4, <2>1
  <2>3. IF image[Off(deq)].pad THEN status' = status
        ELSE status' = [status EXCEPT ![image[Off(deq)].msg] = "got"]
    BY <1>1, <1>4, <2>1
  <2>4. l \in {"idle", "cursors"}
    OBVIOUS
  <2> HIDE DEF h, l, wins, returns
  <2>5. /\ Goto(c, l) /\ at' = [at EXCEPT ![c] = 0] /\ view' = [view EXCEPT ![c] = <<>>]
        /\ enq' = enq /\ commit' = commit /\ image' = image /\ mode' = mode /\ policy' = policy
        /\ pos' = pos /\ total' = total /\ padding' = padding /\ cur' = cur
        /\ kick' = kick /\ consumer_waiting' = consumer_waiting /\ c \notin kick
    BY <1>1 DEF TurnOver, memory, config, producer, parking, PcInv
  <2>6. /\ PcInv' /\ pc'[c] = l
        /\ \A d \in Consumers \ {c} : pc'[d] = pc[d] /\ view'[d] = view[d]
        /\ \A p \in Producers : pc'[p] = pc[p]
    <3>1. /\ kick' \subseteq kick \cup {c} /\ (c \in kick' => l = "asleep") /\ <<>> \in Seq(Mem)
          /\ l \in GetPcs /\ Local(l, <<>>) /\ ~Waits(l) /\ ~Waits(pc[c])
      BY <1>1, <2>4, <2>5 DEF GetPcs, Local, Waits
    <3> QED  BY <1>1, <2>5, <3>1, GetMoves
  <2>7. OwnSame
    BY <2>5, <2>6 DEF OwnSame, RangesSame, Own, Fills
  <2>8. RingInv' /\ deq < deq' /\ deq' <= enq /\ deq' \in Nat
    BY <1>1, <2>1, <2>2, <2>5, <2>7, DeqMoves
  <2>9. deq \in Nat /\ enq \in Nat /\ deq <= deq' /\ enq' \in Nat /\ enq <= enq'
    BY <1>1, <2>5, <2>8 DEF TypeOK
  <2>10. PutInv'
    BY <1>1, <2>5, <2>6, <2>8, <2>9, PutKept
  <2>11. ASSUME NEW d \in Consumers \ {c}  PROVE GetOk(d)'
    <3>1. GetOk(d) /\ at[d] \in Nat /\ at'[d] = at[d]
      BY <1>1, <2>5 DEF GetInv, TypeOK
    <3>2. CASE mode # MPMC
      <4>1. pc'[d] = "idle"
        BY <1>1, <2>6, <3>2 DEF PcInv
      <4> QED  BY <4>1 DEF GetOk, Reads, Past
    <3>3. CASE mode = MPMC
      <4>1. ~Past(d)
        BY <1>1, <3>3 DEF GetInv, OneLease
      <4>2. commit[Off(deq)] = deq + 2
        BY <1>1, <3>3 DEF GetOk
      <4>3. Reads(d) => commit'[Off(at[d])] # at[d] + 1
        BY <2>5, <2>9, <3>1, <4>2 DEF GetOk
      <4> QED  BY <1>1, <2>5, <2>6, <2>8, <2>9, <3>1, <3>3, <4>1, <4>3, GetFrame
    <3> QED  BY <3>2, <3>3
  <2>12. GetInv'
    <3>1. ~Reads(c)' /\ ~Past(c)'
      BY <2>4, <2>6 DEF Reads, Past
    <3>2. GetOk(c)'
      BY <3>1 DEF GetOk
    <3>3. OneLease'
      BY <1>1, <2>5, <2>6, <3>1 DEF GetInv, OneLease, Past
    <3> QED  BY <2>11, <3>2, <3>3 DEF GetInv
  <2>13. MsgInv'
    <3>1. \A r \in Producers : /\ Fills(r)' <=> Fills(r)
                               /\ pc'[r] # "idle" => pc[r] # "idle"
                               /\ Putting(r)' => Putting(r)
      BY <2>5, <2>6 DEF Fills, Putting, Own
    <3> QED  BY <2>1, <2>2, <2>3, <2>5, <3>1, MsgTaken
  <2> QED  BY <2>6, <2>8, <2>10, <2>12, <2>13 DEF Sound
<1> QED  BY <1>3, <1>4

-----------------------------------------------------------------------------
(* Parking, waking and closing *)

LEMMA ParkSafe ==
    ASSUME FInv, NEW c \in Consumers, NEW l \in {"recheck", "asleep", "relock", "unpark", "cursors"},
           Goto(c, l), pc[c] \in {"park", "recheck", "asleep", "relock", "unpark"},
           kick' \subseteq kick \cup {c}, c \in kick' => l = "asleep",
           \/ consumer_waiting' = consumer_waiting /\ Waits(l) /\ Waits(pc[c])
           \/ consumer_waiting' = consumer_waiting + 1 /\ pc[c] = "park" /\ l = "recheck"
           \/ consumer_waiting' = consumer_waiting - 1 /\ pc[c] = "unpark" /\ l = "cursors",
           UNCHANGED <<config, cursors, memory, producer, consumer, status>>
    PROVE  Sound' /\ MsgInv'
<1>1. /\ view[c] \in Seq(Mem) /\ view' = [view EXCEPT ![c] = view[c]]
      /\ at[c] \in Nat /\ at' = [at EXCEPT ![c] = at[c]]
  BY DEF FInv, Sound, PcInv, TypeOK, consumer
<1>2. pc'[c] = l
  <2>1. c \in Threads
    BY DEF Threads
  <2> QED  BY <2>1 DEF Goto, FInv, Sound, PcInv
<1>3. GetOk(c)' /\ ~Past(c)'
  BY <1>2 DEF GetOk, Reads, Past
<1>4. l \in GetPcs /\ pc[c] # "idle" /\ Local(l, view[c])
  BY DEF GetPcs, Local
<1>5. \/ consumer_waiting' = consumer_waiting /\ (Waits(l) <=> Waits(pc[c]))
      \/ consumer_waiting' = consumer_waiting + 1 /\ ~Waits(pc[c]) /\ Waits(l)
      \/ consumer_waiting' = consumer_waiting - 1 /\ Waits(pc[c]) /\ ~Waits(l)
  BY DEF Waits
<1> QED  BY <1>1, <1>3, <1>4, <1>5, GetQuietly

LEMMA WaitSafe ==
    ASSUME FInv, NEW c \in Consumers,
           Announce(c) \/ Recheck(c) \/ Timeout(c) \/ Relock(c) \/ Unpark(c)
    PROVE  Sound' /\ MsgInv'
<1>1. pc[c] # "asleep" => c \notin kick
  BY DEF FInv, Sound, PcInv
<1>2. CASE Announce(c)
  BY <1>1, <1>2, ParkSafe DEF Announce, At, history
<1>3. CASE Recheck(c)
  <2>1. CASE deq >= enq /\ kick' = kick \cup {c} /\ Goto(c, "asleep")
    BY <1>3, <2>1, ParkSafe DEF Recheck, At, history, Waits
  <2>2. CASE deq < enq /\ Goto(c, "unpark") /\ UNCHANGED <<kick, kick_mu>>
    BY <1>1, <1>3, <2>2, ParkSafe DEF Recheck, At, history, Waits
  <2> QED  BY <1>3, <2>1, <2>2 DEF Recheck
<1>4. CASE Timeout(c)
  BY <1>1, <1>4, ParkSafe DEF Timeout, At, history, Waits
<1>5. CASE Relock(c)
  BY <1>1, <1>5, ParkSafe DEF Relock, At, history, Waits
<1>6. CASE Unpark(c)
  BY <1>1, <1>6, ParkSafe DEF Unpark, At, history
<1> QED  BY <1>2, <1>3, <1>4, <1>5, <1>6

LEMMA WakeSafe ==
    ASSUME FInv, WakeAll,
           UNCHANGED <<config, cursors, memory, consumer_waiting, producer, consumer, status>>
    PROVE  Sound' /\ MsgInv'
<1>1. /\ kick' = {} /\ TypeOK /\ PcInv /\ RingInv /\ PutInv /\ GetInv
      /\ pc' = [u \in Threads |-> IF u \in {} THEN "idle" ELSE IF u \in kick THEN "relock" ELSE pc[u]]
  BY DEF WakeAll, FInv, Sound
<1>2. /\ enq' = enq /\ deq' = deq /\ commit' = commit /\ image' = image /\ view' = view
      /\ pos' = pos /\ total' = total /\ padding' = padding /\ cur' = cur
  BY DEF cursors, memory, consumer, producer
<1>3. /\ PcInv' /\ \A p \in Producers : pc'[p] = pc[p]
      /\ \A c \in Consumers : pc'[c] = pc[c] \/ (pc[c] = "asleep" /\ pc'[c] = "relock")
  <2>1. {} \subseteq Producers /\ Producers \ {} = Producers /\ ({} # {} => "idle" = "idle")
    OBVIOUS
  <2> QED  BY <1>1, <1>2, <2>1, WakeMoves
<1>4. RingInv'
  BY <1>1, <1>2, <1>3, RingSame DEF OwnSame, RangesSame, Own, Fills
<1>5. PutInv'
  <2>1. deq' \in Nat /\ deq <= deq'
    BY <1>1, <1>2 DEF TypeOK
  <2> QED  BY <1>1, <1>2, <1>3, <2>1, PutKept
<1>6. GetInv'
  BY <1>1, <1>2, <1>3, GetQuiet
<1>7. MsgInv'
  BY <1>2, <1>3, MsgKept
<1> QED  BY <1>3, <1>4, <1>5, <1>6, <1>7 DEF Sound

LEMMA CloseSafe ==
    ASSUME FInv, KickConsumer \/ Close \/ CloseStep
    PROVE  Sound' /\ MsgInv'
<1>1. CASE KickConsumer \/ CloseBroadcast
  BY <1>1, WakeSafe DEF KickConsumer, CloseBroadcast, history
<1>2. CASE Close \/ CloseKick
  <2>1. UNCHANGED <<config, cursors, memory, pc, producer, consumer, kick, consumer_waiting, status>>
    BY <1>2 DEF Close, CloseKick, history, parking
  <2>2. Sound'
    BY <2>1, Still
  <2>3. MsgInv'
    BY <2>1, MsgKept DEF memory, producer
  <2> QED  BY <2>2, <2>3
<1> QED  BY <1>1, <1>2 DEF CloseStep

-----------------------------------------------------------------------------
(* Types *)

LEMMA CursorTypes ==
    ASSUME FInv
    PROVE  /\ \A p \in Producers : Reserve(p) \/ EvictCas(p) => enq' \in Nat /\ deq' \in Nat
           /\ \A c \in Consumers : ReadNoHeader(c) \/ Advance(c) =>
                 deq' \in Nat /\ delivered' \in Seq(Msgs)
<1>1. TypeOK /\ RingInv /\ enq \in Nat /\ deq \in Nat
  BY DEF FInv, Sound, TypeOK
<1>2. \A q \in Nat : image[Off(q)].total_len \in Nat
  BY <1>1, OffType, ImageType
<1>3. ASSUME NEW p \in Producers, Reserve(p) \/ EvictCas(p)  PROVE enq' \in Nat /\ deq' \in Nat
  <2>1. pos[p] \in Nat /\ Need(p) \in Nat /\ victim[p] \in Nat
    BY <1>1, NeedType DEF TypeOK
  <2> QED  BY <1>1, <1>2, <1>3, <2>1 DEF Reserve, EvictCas
<1>4. ASSUME NEW c \in Consumers, ReadNoHeader(c)  PROVE deq' \in Nat /\ delivered' \in Seq(Msgs)
  BY <1>1, <1>4, ReadNoHeaderSafe DEF ReadNoHeader, history, TypeOK
<1>5. ASSUME NEW c \in Consumers, Advance(c)  PROVE deq' \in Nat /\ delivered' \in Seq(Msgs)
  <2> DEFINE h == view[c][1]
             wins == ~lf_deq_contended \/ deq = at[c]
             returns == ~h.pad /\ (wins \/ mode = MPMC)
  <2>1. /\ pc[c] = "advance"
        /\ deq' = IF wins THEN at[c] + h.total_len ELSE deq
        /\ delivered' = IF returns THEN Append(delivered, h.msg) ELSE delivered
        /\ delivered \in Seq(Msgs)
    BY <1>1, <1>5 DEF Advance, At, TypeOK
  <2>2. mode = MPMC => wins
    BY <2>1 DEF FInv, Sound, GetInv, GetOk, Past
  <2>3. wins => /\ at[c] = deq /\ h.total_len \in Nat
                /\ ~h.pad => h.msg \in Msgs
    <3> SUFFICES ASSUME wins  PROVE at[c] = deq /\ h.total_len \in Nat /\ (~h.pad => h.msg \in Msgs)
      OBVIOUS
    <3>1. at[c] = deq /\ Stored(deq) /\ h = image[Off(deq)] /\ deq < enq
      BY <2>1, AdvanceAtDeq
    <3>2. Off(deq) \in Offsets /\ h.total_len # 0
      BY <1>1, <3>1, OffType DEF Stored
    <3> QED  BY <1>1, <1>2, <3>1, <3>2 DEF RingInv, MemInv
  <2> HIDE DEF h
  <2>4. CASE returns
    BY <1>1, <2>1, <2>2, <2>3, <2>4
  <2>5. CASE ~returns
    BY <1>1, <2>1, <2>2, <2>3, <2>5
  <2> QED  BY <2>4, <2>5
<1> QED  BY <1>3, <1>4, <1>5

LEMMA PutTypes ==
    ASSUME FInv, NEW p \in Producers, (\E m \in Msgs : PutCall(p, m)) \/ PutStep(p)
    PROVE  TypeOK'
<1> USE DEF config, cursors, memory, counters, parking, producer, consumer, history, TurnEnds,
            PutReturn, PutAgain, Refused
<1>1. TypeOK /\ enq \in Nat /\ deq \in Nat /\ pos[p] \in Nat
  BY DEF FInv, TypeOK
<1>2. \A q \in Nat : Off(q) \in Offsets /\ Off(q) \in Nat /\ Off(q) < Capacity
  BY OffType
<1>3. TurnEnds(p) => /\ pos' \in [Producers -> Nat] /\ padding' \in [Producers -> BOOLEAN]
                      /\ victim' \in [Producers -> Nat]
  BY <1>1 DEF TypeOK
<1>4. PutReturn(p) => cur' \in [Producers -> Msgs \cup {NoMsg}] /\ total' \in [Producers -> Nat]
  BY <1>1 DEF TypeOK
<1> HIDE DEF TurnEnds
<1>5. ASSUME NEW m \in Msgs, PutCall(p, m)  PROVE TypeOK'
  <2>1. dropped' \in Nat /\ cur' \in [Producers -> Msgs \cup {NoMsg}]
        /\ total' \in [Producers -> Nat]
    <3>1. /\ dropped' = dropped \/ dropped' = dropped + 1
          /\ \/ cur' = cur /\ total' = total
             \/ cur' = [cur EXCEPT ![p] = m] /\ total' = [total EXCEPT ![p] = RecordLen[m]]
      BY <1>5 DEF PutCall
    <3>2. /\ dropped \in Nat /\ cur \in [Producers -> Msgs \cup {NoMsg}]
          /\ total \in [Producers -> Nat] /\ RecordLen[m] \in Nat
      BY <1>1, SizeAssumption DEF TypeOK
    <3> QED  BY <3>1, <3>2
  <2>2. UNCHANGED <<config, cursors, memory, closer, overwritten, parking, pos, padding, victim,
                    consumer, delivered>>
    BY <1>5 DEF PutCall
  <2> QED  BY <1>1, <2>1, <2>2 DEF TypeOK
<1>6. CASE LoadEnq(p)
  <2>1. Capacity - Off(enq) \in Nat
    BY <1>1, <1>2, Sizes
  <2> QED  BY <1>1, <1>6, <2>1 DEF TypeOK, LoadEnq
<1>7. CASE SpaceOk(p)
  BY <1>1, <1>7 DEF TypeOK, SpaceOk
<1>8. CASE SpaceNone(p)
  <2>1. CASE Refused(cur[p]) /\ PutReturn(p)
    BY <1>1, <1>8, <1>3, <1>4, <2>1 DEF TypeOK, SpaceNone
  <2>2. CASE UNCHANGED <<dropped, status, producer>>
    BY <1>1, <1>8, <2>2 DEF TypeOK, SpaceNone
  <2> QED  BY <1>8, <2>1, <2>2 DEF SpaceNone
<1>9. CASE EvictLoad(p)
  <2>1. CASE PutAgain(p)
    BY <1>1, <1>9, <1>3, <2>1 DEF TypeOK, EvictLoad
  <2>2. CASE UNCHANGED producer
    BY <1>1, <1>9, <2>2 DEF TypeOK, EvictLoad
  <2>3. CASE victim' = [victim EXCEPT ![p] = deq] /\ UNCHANGED <<cur, pos, total, padding>>
    BY <1>1, <1>9, <2>3 DEF TypeOK, EvictLoad
  <2> QED  BY <1>9, <2>1, <2>2, <2>3 DEF EvictLoad
<1>10. CASE EvictMark(p)
  BY <1>1, <1>10 DEF TypeOK, EvictMark
<1>11. CASE EvictCas(p)
  <2>1. deq' \in Nat
    BY <1>11, CursorTypes
  <2> QED  BY <1>1, <1>11, <2>1 DEF TypeOK, EvictCas
<1>12. CASE Reserve(p)
  <2>1. enq' \in Nat
    BY <1>12, CursorTypes
  <2>2. CASE PutAgain(p)
    BY <1>1, <1>12, <1>3, <2>1, <2>2 DEF TypeOK, Reserve
  <2>3. CASE UNCHANGED producer
    BY <1>1, <1>12, <2>1, <2>3 DEF TypeOK, Reserve
  <2> QED  BY <1>12, <2>2, <2>3 DEF Reserve
<1>13. CASE Invalidate(p)
  BY <1>1, <1>13 DEF TypeOK, Invalidate
<1>14. CASE Fill(p)
  <2> DEFINE new == [pos |-> pos[p], total_len |-> Need(p), pad |-> padding[p],
                     msg |-> IF padding[p] THEN NoMsg ELSE cur[p]]
             Images == [pos : Nat, total_len : Nat, pad : BOOLEAN, msg : Msgs \cup {NoMsg}]
  <2>1. new \in Images
    BY <1>1, NeedType DEF TypeOK
  <2>2. /\ image' = [o \in Offsets |-> IF o \in Written(p) THEN new ELSE image[o]]
        /\ commit' = [o \in Offsets |-> IF o \in Written(p) \ {Off(pos[p])} THEN Junk ELSE commit[o]]
    BY <1>14 DEF Fill
  <2>3. image \in [Offsets -> Images] /\ commit \in [Offsets -> Nat \cup {Junk}]
    BY <1>1 DEF TypeOK
  <2> HIDE DEF new, Images
  <2>4. image' \in [Offsets -> Images] /\ commit' \in [Offsets -> Nat \cup {Junk}]
    BY <2>1, <2>2, <2>3
  <2> QED  BY <1>1, <1>14, <2>4 DEF TypeOK, Fill, Images
<1>15. CASE Publish(p)
  <2>1. commit' \in [Offsets -> Nat \cup {Junk}]
    <3>1. pos[p] + 1 \in Nat \cup {Junk} /\ commit' = [commit EXCEPT ![Off(pos[p])] = pos[p] + 1]
      BY <1>1, <1>15 DEF Publish
    <3>2. commit \in [Offsets -> Nat \cup {Junk}]
      BY <1>1 DEF TypeOK
    <3> QED  BY <3>1, <3>2
  <2>2. CASE PutAgain(p)
    BY <1>1, <1>15, <1>3, <2>1, <2>2 DEF TypeOK, Publish
  <2>3. CASE UNCHANGED producer
    BY <1>1, <1>15, <2>1, <2>3 DEF TypeOK, Publish
  <2> QED  BY <1>15, <2>2, <2>3 DEF Publish
<1>16. CASE PutKick(p)
  <2>1. CASE PutReturn(p)
    BY <1>1, <1>16, <1>3, <1>4, <2>1 DEF TypeOK, PutKick
  <2>2. CASE UNCHANGED producer
    BY <1>1, <1>16, <2>2 DEF TypeOK, PutKick
  <2> QED  BY <1>16, <2>1, <2>2 DEF PutKick
<1>17. CASE PutBroadcast(p)
  BY <1>1, <1>17, <1>3, <1>4 DEF TypeOK, PutBroadcast, Broadcast
<1> QED  BY <1>5, <1>6, <1>7, <1>8, <1>9, <1>10, <1>11, <1>12, <1>13, <1>14, <1>15, <1>16, <1>17
         DEF PutStep

LEMMA GetTypes ==
    ASSUME FInv, NEW c \in Consumers, PcInv', GetCall(c) \/ GetStep(c) \/ Timeout(c)
    PROVE  TypeOK'
<1> USE DEF config, cursors, memory, counters, parking, producer, consumer, history, Look, LookOver,
            TurnOver
<1>1. TypeOK /\ at[c] \in Nat /\ deq \in Nat
  BY DEF FInv, TypeOK
<1>2. consumer_waiting' \in Nat
  BY FS_CardinalityType DEF PcInv
<1>3. CASE \E l : Look(c, l) \/ LookOver(c, l)
  <2>1. /\ UNCHANGED <<config, cursors, memory, closer, counters, parking, producer, history>>
        /\ at' = at \/ at' = [at EXCEPT ![c] = 0]
    BY <1>3, Zenon
  <2>2. at' \in [Consumers -> Nat]
    <3>1. at \in [Consumers -> Nat]
      BY <1>1 DEF TypeOK
    <3>2. at' = at \/ at' = [at EXCEPT ![c] = 0]
      BY <2>1
    <3> QED  BY <3>1, <3>2
  <2> QED  BY <1>1, <2>1, <2>2 DEF TypeOK
<1>4. CASE LoadCursors(c)
  BY <1>1, <1>4 DEF TypeOK, LoadCursors
<1>5. CASE ClaimWins(c)
  <2>1. at[c] + 2 \in Nat \cup {Junk}
    BY <1>1
  <2>2. commit' \in [Offsets -> Nat \cup {Junk}]
    BY <1>1, <1>5, <2>1 DEF TypeOK, ClaimWins
  <2> QED  BY <1>1, <1>5, <2>2 DEF TypeOK, ClaimWins
<1>6. CASE ReadHeader(c) \/ Copy(c)
  BY <1>1, <1>6 DEF TypeOK, ReadHeader, Copy
<1>7. CASE ReadNoHeader(c)
  <2>1. deq' \in Nat
    BY <1>7, CursorTypes
  <2> QED  BY <1>1, <1>7, <2>1 DEF TypeOK, ReadNoHeader
<1>8. CASE Advance(c)
  <2>1. deq' \in Nat /\ delivered' \in Seq(Msgs)
    BY <1>8, CursorTypes
  <2> QED  BY <1>1, <1>8, <2>1 DEF TypeOK, Advance
<1>9. CASE Announce(c) \/ Recheck(c) \/ Timeout(c) \/ Relock(c) \/ Unpark(c)
  BY <1>1, <1>2, <1>9 DEF TypeOK, Announce, Recheck, Timeout, Relock, Unpark
<1>10. \/ \E l : Look(c, l) \/ LookOver(c, l)
       \/ LoadCursors(c) \/ ClaimWins(c) \/ ReadHeader(c) \/ Copy(c) \/ ReadNoHeader(c) \/ Advance(c)
       \/ Announce(c) \/ Recheck(c) \/ Timeout(c) \/ Relock(c) \/ Unpark(c)
  <2> HIDE DEF Look, LookOver
  <2> QED  BY DEF GetCall, GetStep, Fresh, MarkerFound, MarkerTaken, MarkerMissing, FreshAgain,
                  ClaimLoses, Revalidate, GetEmpty, GetPark
<1> QED  BY <1>3, <1>4, <1>5, <1>6, <1>7, <1>8, <1>9, <1>10

LEMMA CloseTypes ==
    ASSUME FInv, KickConsumer \/ Close \/ CloseStep
    PROVE  TypeOK'
BY DEF FInv, TypeOK, KickConsumer, Close, CloseStep, CloseKick, CloseBroadcast, WakeAll, config, cursors,
       memory, counters, parking, producer, consumer, history

-----------------------------------------------------------------------------
(* The invariant *)

LEMMA FInvStarts == Init => FInv
<1> SUFFICES ASSUME Init  PROVE FInv
  OBVIOUS
<1>1. /\ mode \in Modes /\ enq = 0 /\ deq = 0
      /\ policy \in IF mode = SPSC THEN {Discard, Overwrite} ELSE {Discard}
      /\ commit = [o \in Offsets |-> Junk] /\ image = [o \in Offsets |-> NoImage]
      /\ consumer_waiting = 0 /\ kick = {}
      /\ pc = [t \in Threads |-> "idle"] /\ view = [c \in Consumers |-> <<>>]
      /\ status = [m \in Msgs |-> "new"]
  BY DEF Init
<1>2. \A t \in Producers \cup Consumers : pc[t] = "idle"
  BY <1>1 DEF Threads
<1>3. TypeOK
  BY Sizes DEF Init, TypeOK, NoImage
<1>4. PcInv
  <2>1. Waiters = {}
    BY <1>2 DEF Waiters
  <2>2. <<>> \in Seq(Mem)
    OBVIOUS
  <2>3. pc \in [Threads -> PutPcs \cup GetPcs]
    BY <1>1 DEF PutPcs
  <2>4. /\ mode \in {SPSC, MPSC, MPMC} /\ policy \in {Discard, Overwrite}
        /\ policy = Overwrite => mode = SPSC
    BY <1>1, ModeAssumption
  <2> QED  BY <1>1, <1>2, <2>1, <2>2, <2>3, <2>4, FS_EmptySet DEF PcInv, PutPcs, GetPcs
<1>5. \A q \in Nat : ~Stored(q) /\ Off(q) \in Offsets
  BY <1>1, OffType DEF Stored, NoImage
<1>6. \A p \in Producers : ~Own(p) /\ ~Fills(p)
  BY <1>2 DEF Own, Fills
<1>7. RingInv
  <2>1. Off(0) = 0
    <3>1. 0 \in 0 .. Capacity - 1 /\ 0 = Capacity * 0 + 0 /\ 0 \in Nat
      BY Sizes
    <3> QED  BY <3>1, Sizes, ModOf DEF Off
  <2>2. deq .. enq - 1 = {}
    BY <1>1
  <2>3. MemInv
    BY <1>1, <2>2 DEF MemInv, NoImage
  <2>4. ChainInv
    BY <1>1, <2>1, <2>2, Sizes DEF ChainInv
  <2> QED  BY <1>6, <2>3, <2>4 DEF RingInv, OwnInv
<1>8. PutInv
  BY <1>2, <1>6 DEF PutInv, PutOk
<1>9. GetInv
  BY <1>2 DEF GetInv, GetOk, OneLease, Reads, Past
<1>10. MsgInv
  BY <1>1, <1>2, <1>5, <1>6 DEF MsgInv, Holds, Brings, Putting
<1> QED  BY <1>3, <1>4, <1>7, <1>8, <1>9, <1>10 DEF FInv, Sound

LEMMA FInvKept ==
    ASSUME FInv, Next, ~MistakesJunk
    PROVE  FInv'
<1>1. ASSUME NEW p \in Producers, (\E m \in Msgs : PutCall(p, m)) \/ PutStep(p)
      PROVE  FInv'
  <2>1. TypeOK'
    BY <1>1, PutTypes
  <2>2. ASSUME NEW m \in Msgs, PutCall(p, m)  PROVE Sound' /\ MsgInv'
    BY <2>2, PutCallSafe
  <2>3. CASE LoadEnq(p)
    BY <2>1, <2>3, LoadEnqSafe DEF FInv
  <2>4. CASE SpaceOk(p)
    BY <2>1, <2>4, SpaceOkSafe DEF FInv
  <2>5. CASE SpaceNone(p)
    BY <2>1, <2>5, SpaceNoneSafe DEF FInv
  <2>6. CASE EvictLoad(p)
    BY <2>1, <2>6, EvictLoadSafe DEF FInv
  <2>7. CASE EvictMark(p)
    BY <2>1, <2>7, EvictMarkSafe DEF FInv
  <2>8. CASE EvictCas(p)
    BY <2>1, <2>8, EvictCasSafe DEF FInv
  <2>9. CASE Reserve(p)
    BY <2>1, <2>9, ReserveSafe DEF FInv
  <2>10. CASE Invalidate(p)
    BY <2>1, <2>10, InvalidateSafe DEF FInv
  <2>11. CASE Fill(p)
    BY <2>1, <2>11, FillSafe DEF FInv
  <2>12. CASE Publish(p)
    BY <2>1, <2>12, PublishSafe DEF FInv
  <2>13. CASE PutKick(p)
    BY <2>1, <2>13, PutKickSafe DEF FInv
  <2>14. CASE PutBroadcast(p)
    BY <2>1, <2>14, PutBroadcastSafe DEF FInv
  <2>15. CASE \E m \in Msgs : PutCall(p, m)
    BY <2>1, <2>2, <2>15 DEF FInv
  <2> QED  BY <1>1, <2>3, <2>4, <2>5, <2>6, <2>7, <2>8, <2>9, <2>10, <2>11, <2>12, <2>13, <2>14,
              <2>15 DEF PutStep
<1>2. ASSUME NEW c \in Consumers, GetCall(c) \/ GetStep(c) \/ Timeout(c)
      PROVE  FInv'
  <2>1. Sound' /\ MsgInv'
    <3>1. CASE GetCall(c)
      BY <3>1, LookOutside DEF GetCall, At
    <3>2. CASE LoadCursors(c)
      BY <3>2, LoadCursorsSafe
    <3>3. CASE Fresh(c) \/ FreshAgain(c)
      BY <3>3, FreshSafe
    <3>4. CASE MarkerFound(c) \/ MarkerTaken(c) \/ MarkerMissing(c)
      BY <3>4, MarkerSafe
    <3>5. CASE ClaimWins(c)
      BY <3>5, ClaimWinsSafe
    <3>6. CASE ClaimLoses(c)
      BY <3>6, ClaimLosesSafe
    <3>7. CASE ReadHeader(c)
      BY <3>7, ReadHeaderSafe
    <3>8. CASE ReadNoHeader(c)
      BY <3>8, ReadNoHeaderSafe
    <3>9. CASE Copy(c)
      BY <3>9, CopySafe
    <3>10. CASE Revalidate(c)
      BY <3>10, RevalidateSafe
    <3>11. CASE Advance(c)
      BY <3>11, AdvanceSafe
    <3>12. CASE GetEmpty(c) \/ GetPark(c)
      BY <3>12, LookOutside DEF GetEmpty, GetPark, At
    <3>13. CASE Announce(c) \/ Recheck(c) \/ Timeout(c) \/ Relock(c) \/ Unpark(c)
      BY <3>13, WaitSafe
    <3> QED  BY <1>2, <3>1, <3>2, <3>3, <3>4, <3>5, <3>6, <3>7, <3>8, <3>9, <3>10, <3>11, <3>12,
                <3>13 DEF GetStep
  <2>2. TypeOK'
    BY <1>2, <2>1, GetTypes DEF Sound
  <2> QED  BY <2>1, <2>2 DEF FInv
<1>3. CASE KickConsumer \/ Close \/ CloseStep
  BY <1>3, CloseSafe, CloseTypes DEF FInv
<1> QED  BY <1>1, <1>2, <1>3 DEF Next

LEMMA FInvStutters ==
    ASSUME FInv, UNCHANGED vars
    PROVE  FInv'
<1>1. UNCHANGED <<config, cursors, memory, pc, producer, consumer, kick, consumer_waiting, status>>
  BY DEF vars, parking, history
<1>2. Sound'
  BY <1>1, Still
<1>3. MsgInv'
  BY <1>1, MsgKept DEF memory, producer
<1>4. TypeOK'
  BY DEF FInv, TypeOK, vars, config, cursors, memory, counters, parking, producer, consumer, history
<1> QED  BY <1>2, <1>3, <1>4 DEF FInv

LEMMA FInvAlways == SafetySpec /\ NothingMistaken => []FInv
<1>1. Init => FInv
  BY FInvStarts
<1>2. FInv /\ [Next]_vars /\ [~MistakesJunk]_vars => FInv'
  BY FInvKept, FInvStutters
<1> QED  BY <1>1, <1>2, PTL DEF SafetySpec, NothingMistaken

-----------------------------------------------------------------------------
(* What follows from it *)

LEMMA LiveIs ==
    ASSUME FInv
    PROVE  Live = {q \in deq .. enq - 1 : Starts(q)}
<1>1. \A p \in Producers : p \in Filling <=> Fills(p)
  BY DEF Filling, Fills
<1>2. \A p \in Filling : pos[p] \in deq .. enq - 1
  BY <1>1 DEF FInv, Sound, RingInv, OwnInv, Own, Fills, Filling
<1> QED  BY <1>1, <1>2 DEF Live, Starts, Stored, Filled, Filling

LEMMA EndOfIs ==
    ASSUME FInv, NEW q \in Live
    PROVE  \E n \in Nat : Entry(q, n) /\ EndOf(q) = q + n
<1>1. q \in deq .. enq - 1 /\ q \in Nat /\ TypeOK
  BY LiveIs DEF FInv, TypeOK
<1>2. CASE \E p \in Filling : pos[p] = q
  <2> DEFINE p == CHOOSE r \in Filling : pos[r] = q
  <2>1. p \in Filling /\ pos[p] = q
    BY <1>2
  <2>2. EndOf(q) = q + Need(p)
    BY <1>2 DEF EndOf
  <2> HIDE DEF p
  <2>3. p \in Producers /\ Fills(p)
    BY <2>1 DEF Filling, Fills
  <2> QED  BY <1>1, <2>1, <2>2, <2>3, NeedType DEF Entry
<1>3. CASE ~\E p \in Filling : pos[p] = q
  <2>1. EndOf(q) = q + image[Off(q)].total_len /\ Stored(q)
    BY <1>3 DEF EndOf, Live, Stored
  <2> QED  BY <1>1, <2>1, OffType, ImageType DEF Entry
<1> QED  BY <1>2, <1>3

LEMMA RingChainHere == FInv => RingChain
<1> SUFFICES ASSUME FInv  PROVE RingChain
  OBVIOUS
<1>1. TypeOK /\ RingInv /\ deq \in Nat /\ enq \in Nat
  BY DEF FInv, Sound, TypeOK
<1>2. /\ deq <= enq /\ enq <= deq + Capacity
      /\ MinPad <= Capacity - Off(enq)
      /\ deq = enq \/ deq \in Live
  BY <1>1, LiveIs DEF RingInv, ChainInv
<1>3. ASSUME NEW q \in Live
      PROVE  /\ EndOf(q) = enq \/ EndOf(q) \in Live
             /\ Off(q) + EndOf(q) - q <= Capacity
             /\ \A r \in Live : q < r => EndOf(q) <= r
  <2>1. PICK n \in Nat : Entry(q, n) /\ EndOf(q) = q + n
    BY EndOfIs
  <2>2. q \in deq .. enq - 1 /\ q \in Nat /\ \A r \in Live : r \in Nat /\ Starts(r)
    BY <1>1, LiveIs
  <2>3. /\ n # 0 /\ q + n <= enq /\ Off(q) + n <= Capacity
        /\ q + n = enq \/ Starts(q + n)
    BY <1>1, <2>1, <2>2 DEF RingInv, ChainInv
  <2>4. EndOf(q) = enq \/ EndOf(q) \in Live
    BY <1>1, <2>1, <2>2, <2>3, LiveIs
  <2>5. Off(q) \in Nat
    BY <2>2, OffType
  <2>6. Off(q) + EndOf(q) - q <= Capacity
    BY <2>1, <2>2, <2>3, <2>5, Sizes
  <2>7. \A r \in Live : q < r => EndOf(q) <= r
    BY <1>1, <2>1, <2>2, EntriesApart
  <2> QED  BY <2>4, <2>6, <2>7
<1> QED  BY <1>2, <1>3 DEF RingChain

LEMMA ProtocolSoundHere == FInv => ProtocolSound
<1> SUFFICES ASSUME FInv  PROVE ProtocolSound
  OBVIOUS
<1>1. MarkersTruthful
  BY DEF MarkersTruthful, FInv, Sound, RingInv, MemInv, Intact, Stored
<1>2. LeaseHoldsCursor
  <2> SUFFICES ASSUME NEW c \in Consumers, mode = MPMC, pc[c] \in {"header", "copy", "advance"}
               PROVE  /\ at[c] = deq
                      /\ deq < enq /\ commit[Off(deq)] = deq + 2
                      /\ image[Off(deq)].pos = deq
                      /\ \A b \in Consumers \ {c} :
                            pc[b] \in {"header", "copy", "advance"} => at[b] # at[c]
    BY DEF LeaseHoldsCursor
  <2>1. GetOk(c) /\ Past(c) /\ Reads(c) /\ \A b \in Consumers \ {c} : ~Past(b)
    BY DEF FInv, Sound, GetInv, OneLease, Past, Reads
  <2> QED  BY <2>1 DEF GetOk, Past, Intact, Stored
<1> QED  BY <1>1, <1>2 DEF ProtocolSound, FInv

LEMMA RecordsSafeHere == FInv => RecordsSafe
<1> SUFFICES ASSUME FInv  PROVE RecordsSafe
  OBVIOUS
<1>1. CopiesIntact
  BY DEF CopiesIntact, FInv, Sound, GetInv, GetOk, Past, Copied
<1>2. \A p \in Producers : p \in Filling <=> Fills(p)
  BY DEF Filling, Fills
<1>3. UnreadAt = {q \in deq .. enq - 1 : Stored(q) /\ ~image[Off(q)].pad}
  <2>1. \A p \in Filling : ~Stored(pos[p])
    BY <1>2 DEF Filling, FInv, Sound, RingInv, OwnInv, Own, Fills
  <2> QED  BY <1>2, <2>1, LiveIs DEF UnreadAt, Starts, Filled, Filling
<1>4. \A q \in deq .. enq - 1 : q \in Nat
  BY DEF FInv, TypeOK
<1>5. \A m : m \in Unread <=> (\E q \in Nat : Holds(q, m)) \/ (\E p \in Producers : Brings(p, m))
  BY <1>2, <1>3, <1>4 DEF Unread, Holds, Brings, Filling
<1>6. \A m : m \in Unread => m \in Msgs
  <2>1. \A q \in Nat : \A m : Holds(q, m) => m \in Msgs
    BY OffType DEF Holds, Stored, FInv, Sound, RingInv, MemInv
  <2>2. \A p \in Producers : \A m : Brings(p, m) => m \in Msgs
    BY DEF Brings, Fills, FInv, Sound, PutInv, PutOk
  <2> QED  BY <1>5, <2>1, <2>2
<1>7. \A m \in Msgs : m \in Unread <=> status[m] = "queued"
  BY <1>5 DEF FInv, MsgInv
<1> QED  BY <1>1, <1>6, <1>7 DEF RecordsSafe, NothingLost

(* The cursors always delimit whole records: whatever producers and        *)
(* consumers do in between, and whatever the capacity, what was reserved   *)
(* is a chain of entries from deq to enq that never straddles the end of   *)
(* memory and is given out once (lf_reserve, lf_advance_deq,               *)
(* lf_overwrite_make_space).  So it is as long as no consumer mistakes     *)
(* junk for a marker, which the code makes improbable and not impossible.  *)
THEOREM ChainHolds == SafetySpec /\ NothingMistaken => []RingChain
BY FInvAlways, RingChainHere, PTL

(* Markers tell the truth and the multi-consumer lease excludes everybody  *)
(* else, so that moving deq after the copy cannot fail (lf_wait_commit,    *)
(* the claim in hpu_ring_get), as long as no consumer mistakes junk for a  *)
(* marker.  A claim behind the last freshness check that meets payload     *)
(* equal to the marker is such a mistake, and does break the lease.        *)
THEOREM ProtocolHolds == SafetySpec /\ NothingMistaken => []ProtocolSound
BY FInvAlways, ProtocolSoundHere, PTL

(* Accepted records stay in the ring until they are got or counted as      *)
(* overwritten, and get returns the record at its cursor from its first    *)
(* word to its last, also when a producer overwrites the oldest record     *)
(* during the copy (hpu_ring_put, hpu_ring_get), as long as no consumer    *)
(* mistakes junk for a marker.                                             *)
THEOREM RecordsHold == SafetySpec /\ NothingMistaken => []RecordsSafe
BY FInvAlways, RecordsSafeHere, PTL

-----------------------------------------------------------------------------
(* Ranks: the i-th position of a set of positions *)

(* Every rank below the size of S is taken. *)
Ranked(S) ==
    \A i \in 1 .. Cardinality(S) : \E p \in S : Cardinality(Before(S, p)) = i - 1

(* A set of positions. *)
Positions(S) == S \subseteq Nat /\ IsFiniteSet(S) /\ Ranked(S)

(* How many positions come before one is a number. *)
LEMMA RankIsNat ==
    ASSUME NEW S, IsFiniteSet(S), NEW p
    PROVE  /\ IsFiniteSet(Before(S, p))
           /\ Cardinality(Before(S, p)) \in Nat
           /\ Cardinality(S) \in Nat
  <1>1. Before(S, p) \in SUBSET S
    BY DEF Before
  <1>2. IsFiniteSet(Before(S, p))
    BY <1>1, FS_Subset
  <1> QED
    BY <1>2, FS_CardinalityType

(* A position after all others comes last and leaves the others in place.  *)
LEMMA AppendRank ==
    ASSUME NEW S, Positions(S), NEW t \in Nat, \A q \in S : q < t
    PROVE  LET T == S \cup {t}
           IN  /\ Positions(T)
               /\ Cardinality(T) = Cardinality(S) + 1
               /\ \A i \in 1 .. Cardinality(S) : Nth(T, i) = Nth(S, i) /\ Nth(S, i) \in S
               /\ Nth(T, Cardinality(S) + 1) = t
  <1> DEFINE T == S \cup {t}
             n == Cardinality(S)
  <1>1. S \subseteq Nat /\ IsFiniteSet(S) /\ Ranked(S) /\ n \in Nat
    BY FS_CardinalityType DEF Positions
  <1>2. t \notin S
    BY <1>1
  <1>3. IsFiniteSet(T) /\ Cardinality(T) = n + 1 /\ T \subseteq Nat
    BY <1>1, <1>2, FS_AddElement
  <1>4. Before(T, t) = S
    <2>1. ~(t < t)
      OBVIOUS
    <2> QED
      BY <2>1 DEF Before
  <1>5. \A p \in S : Before(T, p) = Before(S, p)
    BY <1>1 DEF Before
  <1> HIDE DEF T
  <1>6. \A i \in 1 .. n : {p \in T : Cardinality(Before(T, p)) = i - 1}
                            = {p \in S : Cardinality(Before(S, p)) = i - 1}
    <2> TAKE i \in 1 .. n
    <2>1. Cardinality(Before(T, t)) # i - 1
      BY <1>1, <1>4
    <2> QED
      BY <1>5, <2>1 DEF T
  <1>7. ASSUME NEW i \in 1 .. n
        PROVE  Nth(T, i) = Nth(S, i) /\ Nth(S, i) \in S
    <2>1. Nth(T, i) = CHOOSE p : p \in {r \in T : Cardinality(Before(T, r)) = i - 1}
      BY Zenon DEF Nth
    <2>2. Nth(S, i) = CHOOSE p : p \in {r \in S : Cardinality(Before(S, r)) = i - 1}
      BY Zenon DEF Nth
    <2>3. \E p \in S : Cardinality(Before(S, p)) = i - 1
      BY <1>1, <1>7 DEF Ranked
    <2>4. Nth(S, i) \in S
      BY <2>3, Zenon DEF Nth
    <2>5. Nth(T, i) = Nth(S, i)
      BY <1>6, <2>1, <2>2
    <2> QED
      BY <2>4, <2>5
  <1>8. Nth(T, n + 1) = t
    <2>1. \A p \in T : Cardinality(Before(T, p)) = n => p = t
      <3> SUFFICES ASSUME NEW p \in S, Cardinality(Before(S, p)) = n
                   PROVE  FALSE
        BY <1>5 DEF T
      <3>1. Before(S, p) \in SUBSET S /\ p \notin Before(S, p)
        BY <1>1 DEF Before
      <3>2. Before(S, p) = S
        BY <1>1, <3>1, FS_Subset
      <3> QED
        BY <3>1, <3>2
    <2>2. t \in T /\ Cardinality(Before(T, t)) = n
      BY <1>4 DEF T
    <2>3. (n + 1) - 1 = n
      BY <1>1
    <2> QED
      BY <2>1, <2>2, <2>3, Zenon DEF Nth
  <1>9. Ranked(T)
    <2> SUFFICES ASSUME NEW i \in 1 .. n + 1
                 PROVE  \E p \in T : Cardinality(Before(T, p)) = i - 1
      BY <1>3 DEF Ranked
    <2>1. CASE i = n + 1
      BY <1>1, <1>4, <2>1 DEF T
    <2>2. CASE i \in 1 .. n
      <3>1. \E p \in S : Cardinality(Before(S, p)) = i - 1
        BY <1>1, <2>2 DEF Ranked
      <3> QED
        BY <1>5, <3>1 DEF T
    <2> QED
      BY <1>1, <2>1, <2>2
  <1> QED
    BY <1>3, <1>7, <1>8, <1>9 DEF Positions, T

(* Removing the first position moves every other one place forward. *)
LEMMA RemoveRank ==
    ASSUME NEW S, Positions(S), NEW h \in S, \A q \in S : h <= q
    PROVE  LET T == S \ {h}
           IN  /\ Positions(T)
               /\ Cardinality(S) \in Nat \ {0}
               /\ Cardinality(T) = Cardinality(S) - 1
               /\ Nth(S, 1) = h
               /\ \A i \in 1 .. Cardinality(T) : Nth(T, i) = Nth(S, i + 1)
  <1> DEFINE T == S \ {h}
             n == Cardinality(S)
  <1>1. S \subseteq Nat /\ IsFiniteSet(S) /\ Ranked(S) /\ n \in Nat
    BY FS_CardinalityType DEF Positions
  <1>2. n # 0
    BY <1>1, FS_EmptySet
  <1>3. IsFiniteSet(T) /\ Cardinality(T) = n - 1 /\ T \subseteq Nat
    BY <1>1, FS_RemoveElement
  <1>4. Before(S, h) = {} /\ Cardinality(Before(S, h)) = 0
    <2>1. \A q \in S : ~(q < h)
      BY <1>1
    <2>2. Before(S, h) = {}
      BY <2>1 DEF Before
    <2> QED
      BY <2>2, FS_EmptySet
  <1>5. ASSUME NEW p \in T
        PROVE  /\ Cardinality(Before(S, p)) \in Nat
               /\ Cardinality(Before(S, p)) # 0
               /\ Cardinality(Before(T, p)) = Cardinality(Before(S, p)) - 1
    <2>1. h \in Before(S, p) /\ Before(T, p) = Before(S, p) \ {h}
      <3>1. p \in Nat /\ h \in Nat /\ p # h /\ h <= p
        BY <1>1
      <3>2. h < p
        BY <3>1
      <3> QED
        BY <3>2 DEF Before
    <2>2. IsFiniteSet(Before(S, p)) /\ Cardinality(Before(S, p)) \in Nat
      BY <1>1, RankIsNat
    <2>3. Cardinality(Before(S, p)) # 0
      BY <2>1, <2>2, FS_EmptySet
    <2> QED
      BY <2>1, <2>2, <2>3, FS_RemoveElement
  <1> HIDE DEF T
  <1>6. Nth(S, 1) = h
    <2>1. \A p \in S : Cardinality(Before(S, p)) = 0 => p = h
      BY <1>5 DEF T
    <2>2. 1 - 1 = 0
      OBVIOUS
    <2> QED
      BY <1>4, <2>1, <2>2, Zenon DEF Nth
  <1>7. ASSUME NEW i \in 1 .. n - 1
        PROVE  Nth(T, i) = Nth(S, i + 1)
    <2>1. \A p \in T : Cardinality(Before(T, p)) = i - 1 <=> Cardinality(Before(S, p)) = (i + 1) - 1
      BY <1>1, <1>5
    <2>2. Cardinality(Before(S, h)) # (i + 1) - 1
      BY <1>4
    <2>3. {r \in T : Cardinality(Before(T, r)) = i - 1}
            = {r \in S : Cardinality(Before(S, r)) = (i + 1) - 1}
      BY <2>1, <2>2 DEF T
    <2>4. Nth(T, i) = CHOOSE p : p \in {r \in T : Cardinality(Before(T, r)) = i - 1}
      BY Zenon DEF Nth
    <2>5. Nth(S, i + 1) = CHOOSE p : p \in {r \in S : Cardinality(Before(S, r)) = (i + 1) - 1}
      BY Zenon DEF Nth
    <2> QED
      BY <2>3, <2>4, <2>5
  <1>8. Ranked(T)
    <2> SUFFICES ASSUME NEW i \in 1 .. n - 1
                 PROVE  \E p \in T : Cardinality(Before(T, p)) = i - 1
      BY <1>3 DEF Ranked
    <2>1. i + 1 \in 1 .. n /\ (i + 1) - 1 = i
      BY <1>1
    <2>2. PICK p \in S : Cardinality(Before(S, p)) = i
      BY <1>1, <2>1 DEF Ranked
    <2>3. p \in T
      BY <1>4, <2>2 DEF T
    <2> QED
      BY <1>5, <2>2, <2>3
  <1> QED
    BY <1>1, <1>2, <1>3, <1>6, <1>7, <1>8 DEF Positions, T

(* Appending, element by element. *)
LEMMA AppendIs ==
    ASSUME NEW S, NEW s \in Seq(S), NEW e \in S, NEW n \in Nat, n = Len(s)
    PROVE  Append(s, e) = [i \in 1 .. n + 1 |-> IF i <= n THEN s[i] ELSE e]
  <1>1. /\ Append(s, e) \in Seq(S) /\ Len(Append(s, e)) = n + 1
        /\ \A i \in 1 .. n + 1 : Append(s, e)[i] = IF i <= n THEN s[i] ELSE e
    OBVIOUS
  <1>2. Append(s, e) = [i \in 1 .. Len(Append(s, e)) |-> Append(s, e)[i]]
    <2>1. Append(s, e) \in [1 .. Len(Append(s, e)) -> S]
      BY <1>1, LenProperties
    <2> QED
      BY <2>1
  <1> QED
    BY <1>1, <1>2

(* Removing, element by element. *)
LEMMA TailIs ==
    ASSUME NEW S, NEW s \in Seq(S), NEW n \in Nat \ {0}, n = Len(s)
    PROVE  s # <<>> /\ Tail(s) = [i \in 1 .. n - 1 |-> s[i + 1]]
  <1>1. s # <<>>
    OBVIOUS
  <1>2. /\ Tail(s) \in Seq(S) /\ Len(Tail(s)) = n - 1
        /\ \A i \in 1 .. n - 1 : Tail(s)[i] = s[i + 1]
    BY <1>1
  <1>3. Tail(s) = [i \in 1 .. Len(Tail(s)) |-> Tail(s)[i]]
    <2>1. Tail(s) \in [1 .. Len(Tail(s)) -> S]
      BY <1>2, LenProperties
    <2> QED
      BY <2>1
  <1> QED
    BY <1>1, <1>2, <1>3

-----------------------------------------------------------------------------
(* The queue of the contract *)

(* The record and the pad at a position: in memory, or in the hands of the *)
(* producer that fills it in.                                              *)
RecordAt(q, m) == Holds(q, m) \/ \E p \in Producers : Brings(p, m) /\ pos[p] = q

PadAt(q, n) ==
    \/ q \in deq .. enq - 1 /\ Stored(q) /\ image[Off(q)].pad /\ n = image[Off(q)].total_len
    \/ \E p \in Producers : Fills(p) /\ padding[p] /\ pos[p] = q /\ n = Need(p)

(* A single producer that overwrites nothing loses no reservation. *)
Fixed == mode = SPSC /\ policy = Discard

(* A pad ends at the boundary and is not the whole memory; it is shorter   *)
(* than a record, unless that record's length was kept from a reservation  *)
(* that was lost.                                                          *)
PadsEnd ==
    \A q, n : PadAt(q, n) =>
        /\ Off(q) # 0 /\ Off(q) + n = Capacity
        /\ Fixed => 2 * n < Capacity

Seeks(p) == pc[p] \in {"space", "evict", "evict_mark", "evict_cas", "reserve"}

(* How long a range a producer asks for. *)
Length(p) ==
    /\ pc[p] # "idle" => total[p] <= Capacity
    /\ Seeks(p) => pos[p] <= enq
    /\ (Seeks(p) \/ Own(p)) /\ padding[p] => Need(p) < total[p]
    /\ Fixed /\ (pc[p] = "load_enq" \/ ((Seeks(p) \/ Own(p)) /\ padding[p])) =>
          total[p] = RecordLen[cur[p]]
    /\ Fixed /\ Seeks(p) /\ ~padding[p] =>
          total[p] = RecordLen[cur[p]] \/ Off(pos[p]) + RecordLen[cur[p]] + MinPad > Capacity

QueueInv == Ranked(WaitingAt) /\ PadsEnd /\ \A p \in Producers : Length(p)

(* The queue reads as it should: its positions are those of records.       *)
WaitingIs ==
    /\ \A q : q \in WaitingAt <=> \E m \in Msgs : RecordAt(q, m)
    /\ \A q, m : RecordAt(q, m) => m \in Msgs /\ MsgAt[q] = m

LEMMA WaitingHere == FInv => WaitingIs
<1> SUFFICES ASSUME FInv  PROVE WaitingIs
  OBVIOUS
<1>1. \A p \in Producers : p \in Filling <=> Fills(p)
  BY DEF Filling, Fills
<1>2. UnreadAt = {q \in deq .. enq - 1 : Stored(q) /\ ~image[Off(q)].pad}
  <2>1. \A p \in Filling : ~Stored(pos[p])
    BY <1>1 DEF Filling, FInv, Sound, RingInv, OwnInv, Own, Fills
  <2> QED  BY <1>1, <2>1, LiveIs DEF UnreadAt, Starts, Filled, Filling
<1>3. \A q : q \in UnreadAt <=> \E m : Holds(q, m)
  BY <1>2 DEF Holds
<1>4. \A q : q \in WaitingAt <=> \E m : RecordAt(q, m)
  <2>1. \A q : (\E p \in Filling : ~padding[p] /\ pos[p] = q)
                 <=> \E p \in Producers : \E m : Brings(p, m) /\ pos[p] = q
    BY <1>1 DEF Brings, Filling
  <2> QED  BY <1>3, <2>1 DEF WaitingAt, RecordAt
<1>5. \A q, m : RecordAt(q, m) => m \in Msgs
  <2>1. \A q, m : Holds(q, m) => m \in Msgs
    <3>1. \A q : q \in deq .. enq - 1 => q \in Nat
      BY DEF FInv, TypeOK
    <3> QED  BY <3>1, OffType DEF Holds, Stored, FInv, Sound, RingInv, MemInv
  <2>2. \A p \in Producers : \A m : Brings(p, m) => m \in Msgs
    BY DEF Brings, Fills, FInv, Sound, PutInv, PutOk
  <2> QED  BY <2>1, <2>2 DEF RecordAt
<1>6. ASSUME NEW q, NEW m, RecordAt(q, m)  PROVE MsgAt[q] = m
  <2>0. q \in WaitingAt
    BY <1>4, <1>6
  <2>1. CASE \E p \in Filling : pos[p] = q
    <3> DEFINE p == CHOOSE r \in Filling : pos[r] = q
    <3>1. p \in Filling /\ pos[p] = q
      BY <2>1
    <3>2. MsgAt[q] = cur[p]
      BY <2>0, <2>1 DEF MsgAt
    <3> HIDE DEF p
    <3>3. p \in Producers /\ Own(p) /\ ~Stored(q)
      BY <1>1, <3>1 DEF Filling, FInv, Sound, RingInv, OwnInv, Own, Fills
    <3>4. \A r \in Producers : Fills(r) /\ pos[r] = q => r = p
      BY <3>1, <3>3 DEF FInv, Sound, RingInv, OwnInv, Own, Fills
    <3> QED  BY <1>6, <3>2, <3>3, <3>4 DEF RecordAt, Holds, Brings
  <2>2. CASE ~\E p \in Filling : pos[p] = q
    <3>1. MsgAt[q] = image[Off(q)].msg
      BY <2>0, <2>2 DEF MsgAt
    <3>2. \A p \in Producers : ~(Brings(p, m) /\ pos[p] = q)
      BY <1>1, <2>2 DEF Brings
    <3> QED  BY <1>6, <3>1, <3>2 DEF RecordAt, Holds
  <2> QED  BY <2>1, <2>2
<1>7. \A q : q \in WaitingAt <=> \E m \in Msgs : RecordAt(q, m)
  BY <1>4, <1>5
<1>8. \A q, m : RecordAt(q, m) => m \in Msgs /\ MsgAt[q] = m
  BY <1>5, <1>6
<1> QED  BY <1>7, <1>8 DEF WaitingIs

(* The positions of the queue are positions, and the queue is a sequence.  *)
LEMMA QueueFacts ==
    ASSUME FInv, WaitingIs, QueueInv
    PROVE  /\ Positions(WaitingAt)
           /\ Cardinality(WaitingAt) \in Nat
           /\ \A i \in 1 .. Cardinality(WaitingAt) : Nth(WaitingAt, i) \in WaitingAt
           /\ Waiting \in Seq(Msgs)
           /\ Len(Waiting) = Cardinality(WaitingAt)
           /\ \A q \in WaitingAt : q \in Nat /\ deq <= q /\ q < enq /\ MsgAt[q] \in Msgs
<1>1. deq \in Nat /\ enq \in Nat
  BY DEF FInv, TypeOK
<1>2. WaitingAt \subseteq deq .. enq - 1
  <2> SUFFICES ASSUME NEW q, NEW m, RecordAt(q, m)  PROVE q \in deq .. enq - 1
    BY DEF WaitingIs
  <2> QED  BY DEF RecordAt, Holds, Brings, Fills, Own, FInv, Sound, RingInv, OwnInv
<1>3. \A q \in WaitingAt : q \in Nat /\ deq <= q /\ q < enq /\ MsgAt[q] \in Msgs
  <2>1. \A q \in WaitingAt : MsgAt[q] \in Msgs
    BY DEF WaitingIs
  <2> QED  BY <1>1, <1>2, <2>1
<1>4. Positions(WaitingAt)
  <2>1. IsFiniteSet(deq .. enq - 1)
    BY <1>1, FS_Interval
  <2>2. IsFiniteSet(WaitingAt)
    BY <1>2, <2>1, FS_Subset
  <2> QED  BY <1>3, <2>2 DEF Positions, QueueInv
<1>5. Cardinality(WaitingAt) \in Nat
  BY <1>4, FS_CardinalityType DEF Positions
<1>6. ASSUME NEW i \in 1 .. Cardinality(WaitingAt)
      PROVE  Nth(WaitingAt, i) \in WaitingAt
  <2>1. \E p \in WaitingAt : Cardinality(Before(WaitingAt, p)) = i - 1
    BY <1>6 DEF QueueInv, Ranked
  <2> QED  BY <2>1, Zenon DEF Nth
<1>7. Waiting \in [1 .. Cardinality(WaitingAt) -> Msgs]
  BY <1>3, <1>6 DEF Waiting
<1>8. Waiting \in Seq(Msgs) /\ Len(Waiting) = Cardinality(WaitingAt)
  BY <1>5, <1>7
<1> QED  BY <1>3, <1>4, <1>5, <1>6, <1>8

(* The same records at the same positions are the same queue.              *)
LEMMA QueueSame ==
    ASSUME FInv, WaitingIs, WaitingIs', QueueInv,
           \A q, m : RecordAt(q, m)' <=> RecordAt(q, m)
    PROVE  Waiting' = Waiting /\ WaitingAt' = WaitingAt
<1>1. WaitingAt' = WaitingAt
  BY DEF WaitingIs
<1>2. \A q \in WaitingAt : MsgAt'[q] = MsgAt[q]
  BY DEF WaitingIs
<1>3. \A i \in 1 .. Cardinality(WaitingAt) : Nth(WaitingAt, i) \in WaitingAt
  BY QueueFacts
<1>4. Waiting' = [i \in 1 .. Cardinality(WaitingAt) |-> MsgAt'[Nth(WaitingAt, i)]]
  BY <1>1, Zenon DEF Waiting
<1> QED  BY <1>1, <1>2, <1>3, <1>4 DEF Waiting

(* A record reserved at enq is the last of the queue.                      *)
LEMMA QueueAppended ==
    ASSUME FInv, WaitingIs, WaitingIs', QueueInv, NEW m \in Msgs,
           \A q, n : RecordAt(q, n)' <=> RecordAt(q, n) \/ (q = enq /\ n = m)
    PROVE  Waiting' = Append(Waiting, m) /\ Ranked(WaitingAt)'
<1> DEFINE n == Cardinality(WaitingAt)
           T == WaitingAt \cup {enq}
<1>1. /\ Positions(WaitingAt) /\ n \in Nat
      /\ \A i \in 1 .. n : Nth(WaitingAt, i) \in WaitingAt
      /\ Waiting \in Seq(Msgs) /\ Len(Waiting) = n
      /\ \A q \in WaitingAt : q < enq
  BY QueueFacts
<1>2. enq \in Nat
  BY DEF FInv, TypeOK
<1>3. /\ Positions(T)
      /\ Cardinality(T) = n + 1
      /\ \A i \in 1 .. n : Nth(T, i) = Nth(WaitingAt, i)
      /\ Nth(T, n + 1) = enq
  BY <1>1, <1>2, AppendRank
<1>4. WaitingAt' = T /\ MsgAt'[enq] = m /\ \A q \in WaitingAt : MsgAt'[q] = MsgAt[q]
  BY DEF WaitingIs
<1>5. Waiting' = [i \in 1 .. Cardinality(T) |-> MsgAt'[Nth(T, i)]]
  BY <1>4, Zenon DEF Waiting
<1>6. \A i \in 1 .. n : Waiting[i] = MsgAt[Nth(WaitingAt, i)]
  BY DEF Waiting
<1> HIDE DEF T, n
<1>7. Waiting' = [i \in 1 .. n + 1 |-> IF i <= n THEN Waiting[i] ELSE m]
  <2>1. \A i \in 1 .. n : MsgAt'[Nth(T, i)] = Waiting[i]
    BY <1>1, <1>3, <1>4, <1>6
  <2>2. MsgAt'[Nth(T, n + 1)] = m
    BY <1>3, <1>4
  <2>3. \A i \in 1 .. n + 1 : MsgAt'[Nth(T, i)] = IF i <= n THEN Waiting[i] ELSE m
    BY <1>1, <2>1, <2>2
  <2> QED  BY <1>3, <1>5, <2>3
<1>8. Append(Waiting, m) = [i \in 1 .. n + 1 |-> IF i <= n THEN Waiting[i] ELSE m]
  BY <1>1, AppendIs
<1> QED  BY <1>3, <1>4, <1>7, <1>8 DEF Positions

(* The record at deq is the first of the queue, and the rest follows when  *)
(* it is gone.                                                             *)
LEMMA QueueRemoved ==
    ASSUME FInv, WaitingIs, WaitingIs', QueueInv, NEW m, RecordAt(deq, m),
           \A q, n : RecordAt(q, n)' <=> RecordAt(q, n) /\ q # deq
    PROVE  /\ Waiting # <<>>
           /\ Head(Waiting) = m
           /\ Waiting' = Tail(Waiting)
           /\ Ranked(WaitingAt)'
<1> DEFINE n == Cardinality(WaitingAt)
           T == WaitingAt \ {deq}
<1>1. /\ Positions(WaitingAt) /\ n \in Nat
      /\ Waiting \in Seq(Msgs) /\ Len(Waiting) = n
      /\ \A q \in WaitingAt : deq <= q
  BY QueueFacts
<1>2. deq \in WaitingAt /\ MsgAt[deq] = m
  BY DEF WaitingIs
<1>3. /\ Positions(T)
      /\ n # 0 /\ Cardinality(T) = n - 1
      /\ Nth(WaitingAt, 1) = deq
      /\ \A i \in 1 .. n - 1 : Nth(T, i) = Nth(WaitingAt, i + 1)
  BY <1>1, <1>2, RemoveRank
<1>4. WaitingAt' = T /\ \A q \in T : MsgAt'[q] = MsgAt[q]
  BY DEF WaitingIs
<1>5. Waiting' = [i \in 1 .. Cardinality(T) |-> MsgAt'[Nth(T, i)]]
  BY <1>4, Zenon DEF Waiting
<1>6. \A i \in 1 .. n : Waiting[i] = MsgAt[Nth(WaitingAt, i)]
  BY DEF Waiting
<1>7. \A i \in 1 .. n - 1 : Nth(T, i) \in T
  <2> SUFFICES ASSUME NEW i \in 1 .. Cardinality(T)  PROVE Nth(T, i) \in T
    BY <1>3
  <2>1. \E p \in T : Cardinality(Before(T, p)) = i - 1
    BY <1>3 DEF Positions, Ranked
  <2> QED  BY <2>1, Zenon DEF Nth
<1> HIDE DEF T, n
<1>8. Waiting' = [i \in 1 .. n - 1 |-> Waiting[i + 1]]
  <2>1. \A i \in 1 .. n - 1 : MsgAt'[Nth(T, i)] = Waiting[i + 1]
    BY <1>1, <1>3, <1>4, <1>6, <1>7
  <2> QED  BY <1>3, <1>5, <2>1
<1>9. Waiting # <<>> /\ Tail(Waiting) = [i \in 1 .. n - 1 |-> Waiting[i + 1]]
  BY <1>1, <1>3, TailIs
<1>10. Head(Waiting) = m
  BY <1>1, <1>2, <1>3, <1>6
<1> QED  BY <1>3, <1>4, <1>8, <1>9, <1>10 DEF Positions

(* What does not touch entries leaves the records and pads in place.       *)
LEMMA RecordsSame ==
    ASSUME RangesSame, UNCHANGED <<cursors, image>>
    PROVE  /\ \A q, m : RecordAt(q, m)' <=> RecordAt(q, m)
           /\ \A q, n : PadAt(q, n)' <=> PadAt(q, n)
<1>1. \A q, m : Holds(q, m)' <=> Holds(q, m)
  BY HoldsSame
<1>2. \A p \in Producers : /\ Fills(p)' <=> Fills(p)
                           /\ Fills(p) => /\ pos'[p] = pos[p] /\ padding'[p] = padding[p]
                                          /\ cur'[p] = cur[p] /\ Need(p)' = Need(p)
  BY DEF RangesSame, Need
<1>3. \A p \in Producers : \A m : Brings(p, m)' <=> Brings(p, m)
  BY <1>2 DEF Brings
<1>4. \A p \in Producers : \A q, m : (Brings(p, m) /\ pos[p] = q)' <=> Brings(p, m) /\ pos[p] = q
  BY <1>2, <1>3 DEF Brings
<1>5. \A q, m : RecordAt(q, m)' <=> RecordAt(q, m)
  <2> TAKE q, m
  <2>1. RecordAt(q, m)' <=> Holds(q, m)' \/ \E p \in Producers : (Brings(p, m) /\ pos[p] = q)'
    BY DEF RecordAt
  <2> QED  BY <1>1, <1>4, <2>1 DEF RecordAt
<1>6. \A q, n : PadAt(q, n)' <=> PadAt(q, n)
  <2> TAKE q, n
  <2>1. image' = image /\ deq' = deq /\ enq' = enq
    BY DEF cursors
  <2>2. \A p \in Producers : Fills(p)' /\ padding'[p] /\ pos'[p] = q /\ n = Need(p)'
                               <=> Fills(p) /\ padding[p] /\ pos[p] = q /\ n = Need(p)
    BY <1>2
  <2>3. PadAt(q, n)' <=> \/ q \in deq .. enq - 1 /\ Stored(q) /\ image[Off(q)].pad /\ n = image[Off(q)].total_len
                         \/ \E p \in Producers : Fills(p)' /\ padding'[p] /\ pos'[p] = q /\ n = Need(p)'
    BY <2>1 DEF PadAt, Stored
  <2> QED  BY <2>2, <2>3 DEF PadAt
<1> QED  BY <1>5, <1>6

(* A step of the contract, or none of its business.                        *)
Steps == Contract!Next \/ RefuseExtended
ContractStep == [Steps]_(Contract!vars)
Done == Ranked(WaitingAt)' /\ PadsEnd' /\ ContractStep
Ready == FInv /\ WaitingIs /\ WaitingIs' /\ QueueInv

LEMMA PadsKept ==
    ASSUME PadsEnd, UNCHANGED config, \A q, n : PadAt(q, n)' => PadAt(q, n)
    PROVE  PadsEnd'
<1>1. Fixed' <=> Fixed
  BY DEF Fixed, config
<1> QED  BY <1>1 DEF PadsEnd

LEMMA Invisible ==
    ASSUME Ready, RangesSame, UNCHANGED <<cursors, image, config, counters, closed, delivered>>
    PROVE  Done
<1>1. Waiting' = Waiting /\ WaitingAt' = WaitingAt
  BY RecordsSame, QueueSame DEF Ready
<1>2. PadsEnd'
  BY RecordsSame, PadsKept DEF Ready, QueueInv
<1>3. Ranked(WaitingAt)'
  BY <1>1 DEF Ready, QueueInv, Ranked
<1> QED  BY <1>1, <1>2, <1>3 DEF Done, ContractStep, Contract!vars, config, counters

(* Closing is a Close. *)
LEMMA CloseKeeps ==
    ASSUME Ready, Close
    PROVE  Done
<1>1. UNCHANGED <<cursors, image, config, counters, delivered, pc, producer>> /\ closed' = TRUE
  BY DEF Close, history, memory, closed
<1>2. RangesSame
  BY <1>1 DEF RangesSame, Fills, Own, producer
<1>3. Waiting' = Waiting /\ WaitingAt' = WaitingAt
  BY <1>1, <1>2, RecordsSame, QueueSame DEF Ready
<1>4. PadsEnd' /\ Ranked(WaitingAt)'
  BY <1>1, <1>2, <1>3, RecordsSame, PadsKept DEF Ready, QueueInv, Ranked
<1>5. Contract!Close
  BY <1>1, <1>3 DEF Contract!Close, config, counters
<1> QED  BY <1>4, <1>5 DEF Done, ContractStep, Steps, Contract!Next

-----------------------------------------------------------------------------
(* Steps that the contract does not see, and those it does *)

(* A producer outside its range goes on, or ends a turn. *)
LEMMA RangesElse ==
    ASSUME FInv, NEW p \in Producers, NEW l, Goto(p, l), ~Fills(p),
           l \notin {"invalidate", "fill", "publish"},
           \A r \in Producers \ {p} : /\ pos'[r] = pos[r] /\ total'[r] = total[r]
                                      /\ padding'[r] = padding[r] /\ cur'[r] = cur[r]
    PROVE  RangesSame
<1>1. pc \in [Threads -> PutPcs \cup GetPcs] /\ Producers \subseteq Threads
  BY DEF FInv, Sound, PcInv, Threads
<1>2. pc'[p] = l /\ \A r \in Producers \ {p} : pc'[r] = pc[r]
  BY <1>1 DEF Goto
<1> QED  BY <1>2 DEF RangesSame, Own, Fills

(* The locals of the other producers at the end of a turn. *)
LEMMA TurnOthers ==
    ASSUME TypeOK, NEW p \in Producers, TurnEnds(p), PutReturn(p) \/ UNCHANGED <<cur, total>>
    PROVE  \A r \in Producers \ {p} : /\ pos'[r] = pos[r] /\ total'[r] = total[r]
                                      /\ padding'[r] = padding[r] /\ cur'[r] = cur[r]
BY DEF TypeOK, TurnEnds, PutReturn

LEMMA PutCallKeeps ==
    ASSUME Ready, NEW p \in Producers, NEW m \in Msgs, PutCall(p, m)
    PROVE  Done
<1>1. /\ pc[p] = "idle" /\ closed' = closed
      /\ UNCHANGED <<cursors, image, config, overwritten, delivered, pos, padding>>
  BY DEF PutCall, At, memory, closed
<1>2. CASE ~closed
  <2>1. /\ cur' = [cur EXCEPT ![p] = m] /\ total' = [total EXCEPT ![p] = RecordLen[m]]
        /\ Goto(p, "load_enq") /\ dropped' = dropped
    BY <1>2 DEF PutCall
  <2>2. RangesSame
    BY <1>1, <2>1, RangesElse DEF Fills, Ready, FInv, TypeOK
  <2> QED  BY <1>1, <2>1, <2>2, Invisible DEF counters
<1>3. CASE closed
  <2>1. dropped' = dropped + 1 /\ UNCHANGED <<pc, cur, total>>
    BY <1>3 DEF PutCall, Refused
  <2>2. RangesSame
    BY <1>1, <2>1 DEF RangesSame, Fills, Own
  <2>3. Waiting' = Waiting /\ WaitingAt' = WaitingAt
    BY <1>1, <2>2, RecordsSame, QueueSame DEF Ready
  <2>4. PadsEnd' /\ Ranked(WaitingAt)'
    BY <1>1, <2>2, <2>3, RecordsSame, PadsKept DEF Ready, QueueInv, Ranked
  <2>5. Contract!Refuse
    BY <1>1, <1>3, <2>1, <2>3 DEF Contract!Refuse, config
  <2> QED  BY <2>4, <2>5 DEF Done, ContractStep, Steps, Contract!Next
<1> QED  BY <1>2, <1>3

(* The steps of put that no reader of the queue sees. *)
LEMMA PutKeeps ==
    ASSUME Ready, NEW p \in Producers,
           \/ LoadEnq(p) \/ SpaceOk(p) \/ EvictLoad(p) \/ EvictMark(p)
           \/ Invalidate(p) \/ Publish(p) \/ PutKick(p) \/ PutBroadcast(p)
    PROVE  Done
<1>0. FInv /\ TypeOK
  BY DEF Ready, FInv
<1>1. UNCHANGED <<cursors, image, config, counters, closed, delivered>>
  BY DEF LoadEnq, SpaceOk, EvictLoad, EvictMark, Invalidate, Publish, PutKick, PutBroadcast,
         memory, history, closed
<1>2. CASE LoadEnq(p)
  <2>1. ~Fills(p) /\ Goto(p, "space")
    BY <1>2 DEF LoadEnq, At, Fills
  <2>2. \A r \in Producers \ {p} : /\ pos'[r] = pos[r] /\ total'[r] = total[r]
                                   /\ padding'[r] = padding[r] /\ cur'[r] = cur[r]
    BY <1>0, <1>2 DEF LoadEnq, TypeOK
  <2>3. RangesSame
    BY <1>0, <2>1, <2>2, RangesElse
  <2> QED  BY <1>1, <2>3, Invisible
<1>3. CASE SpaceOk(p) \/ EvictMark(p)
  <2>1. ~Fills(p) /\ (Goto(p, "reserve") \/ Goto(p, "evict_cas"))
    BY <1>3 DEF SpaceOk, EvictMark, At, Fills
  <2>2. UNCHANGED <<pos, total, padding, cur>>
    BY <1>3 DEF SpaceOk, EvictMark, producer
  <2>3. RangesSame
    BY <1>0, <2>1, <2>2, RangesElse
  <2> QED  BY <1>1, <2>3, Invisible
<1>4. CASE EvictLoad(p)
  <2>1. ~Fills(p)
    BY <1>4 DEF EvictLoad, At, Fills
  <2>2. \/ Goto(p, "reserve") /\ UNCHANGED <<pos, total, padding, cur>>
        \/ Goto(p, "evict_mark") /\ UNCHANGED <<pos, total, padding, cur>>
        \/ Goto(p, "load_enq") /\ TurnEnds(p) /\ UNCHANGED <<cur, total>>
    BY <1>4 DEF EvictLoad, PutAgain, producer
  <2>3. RangesSame
    BY <1>0, <2>1, <2>2, RangesElse, TurnOthers
  <2> QED  BY <1>1, <2>3, Invisible
<1>5. CASE Invalidate(p)
  <2>1. pc[p] = "invalidate" /\ Goto(p, "fill") /\ UNCHANGED <<pos, total, padding, cur>>
    BY <1>5 DEF Invalidate, At, producer
  <2>2. pc'[p] = "fill" /\ \A r \in Producers \ {p} : pc'[r] = pc[r]
    BY <1>0, <2>1 DEF FInv, Sound, PcInv, Threads, Goto
  <2>3. RangesSame
    BY <2>1, <2>2 DEF RangesSame, Own, Fills
  <2> QED  BY <1>1, <2>3, Invisible
<1>6. CASE Publish(p)
  <2>1. ~Fills(p)
    BY <1>6 DEF Publish, At, Fills
  <2>2. \/ Goto(p, "kick") /\ UNCHANGED <<pos, total, padding, cur>>
        \/ Goto(p, "load_enq") /\ TurnEnds(p) /\ UNCHANGED <<cur, total>>
    BY <1>6 DEF Publish, PutAgain, producer
  <2>3. RangesSame
    BY <1>0, <2>1, <2>2, RangesElse, TurnOthers
  <2> QED  BY <1>1, <2>3, Invisible
<1>7. CASE PutKick(p)
  <2>1. ~Fills(p)
    BY <1>7 DEF PutKick, At, Fills
  <2>2. \/ Goto(p, "broadcast") /\ UNCHANGED <<pos, total, padding, cur>>
        \/ Goto(p, "idle") /\ PutReturn(p) /\ TurnEnds(p)
    BY <1>7 DEF PutKick, PutReturn, producer
  <2>3. RangesSame
    BY <1>0, <2>1, <2>2, RangesElse, TurnOthers
  <2> QED  BY <1>1, <2>3, Invisible
<1>8. CASE PutBroadcast(p)
  <2>1. /\ pc[p] = "broadcast" /\ PutReturn(p) /\ TurnEnds(p)
        /\ pc' = [u \in Threads |-> IF u = p THEN "idle" ELSE IF u \in kick THEN "relock" ELSE pc[u]]
    BY <1>8 DEF PutBroadcast, Broadcast, PutReturn, At
  <2>2. \A r \in Producers : r \in Threads /\ r \notin kick
    BY <1>0, ThreadAssumption DEF Threads, TypeOK
  <2>3. pc'[p] = "idle" /\ \A r \in Producers \ {p} : pc'[r] = pc[r]
    BY <2>1, <2>2
  <2>4. \A r \in Producers \ {p} : /\ pos'[r] = pos[r] /\ total'[r] = total[r]
                                   /\ padding'[r] = padding[r] /\ cur'[r] = cur[r]
    BY <1>0, <2>1, TurnOthers
  <2>5. RangesSame
    BY <2>1, <2>3, <2>4 DEF RangesSame, Own, Fills
  <2> QED  BY <1>1, <2>5, Invisible
<1> QED  BY <1>2, <1>3, <1>4, <1>5, <1>6, <1>7, <1>8

(* Producers stay where they are while consumers move. *)
LEMMA GetterMoves ==
    ASSUME FInv, NEW c \in Consumers, NEW l, Goto(c, l), UNCHANGED producer
    PROVE  RangesSame /\ \A p \in Producers : pc'[p] = pc[p]
<1>1. \A p \in Producers : p \in Threads /\ p # c
  BY ThreadAssumption DEF Threads
<1>2. \A p \in Producers : pc'[p] = pc[p]
  BY <1>1 DEF Goto, FInv, Sound, PcInv
<1> QED  BY <1>2 DEF RangesSame, Own, Fills, producer

LEMMA WakesKeep ==
    ASSUME Ready, KickConsumer \/ CloseStep
    PROVE  Done
<1>1. UNCHANGED <<cursors, image, config, counters, closed, delivered, producer>>
  BY DEF KickConsumer, CloseStep, CloseKick, CloseBroadcast, history, memory, closed
<1>2. \A p \in Producers : pc'[p] = pc[p]
  <2>1. \A r \in Producers : r \in Threads /\ r \notin kick
    BY ThreadAssumption DEF Threads, Ready, FInv, TypeOK
  <2> QED  BY <2>1 DEF KickConsumer, CloseStep, CloseKick, CloseBroadcast, WakeAll
<1>3. RangesSame
  BY <1>1, <1>2 DEF RangesSame, Own, Fills, producer
<1> QED  BY <1>1, <1>3, Invisible

(* The steps of get that no reader of the queue sees. *)
LEMMA GetKeeps ==
    ASSUME Ready, NEW c \in Consumers,
           \/ GetCall(c) \/ LoadCursors(c) \/ Fresh(c) \/ MarkerFound(c) \/ MarkerTaken(c)
           \/ MarkerMissing(c) \/ FreshAgain(c) \/ ClaimWins(c) \/ ClaimLoses(c)
           \/ ReadHeader(c) \/ ReadNoHeader(c) \/ Copy(c) \/ Revalidate(c)
           \/ GetEmpty(c) \/ GetPark(c) \/ Announce(c) \/ Recheck(c) \/ Timeout(c)
           \/ Relock(c) \/ Unpark(c)
    PROVE  Done
<1>1. UNCHANGED <<enq, image, config, counters, closed, delivered, producer>> /\ \E l : Goto(c, l)
  BY DEF GetCall, LoadCursors, Fresh, MarkerFound, MarkerTaken, MarkerMissing, FreshAgain, ClaimWins,
         ClaimLoses, ReadHeader, ReadNoHeader, Copy, Revalidate, GetEmpty, GetPark, Announce,
         Recheck, Timeout, Relock, Unpark, Look, LookOver, TurnOver, history, memory, closed, cursors
<1>2. deq' = deq
  <2>1. CASE ReadNoHeader(c)
    BY <2>1, ReadNoHeaderSafe DEF Ready
  <2>2. CASE ~ReadNoHeader(c)
    BY <2>2 DEF GetCall, LoadCursors, Fresh, MarkerFound, MarkerTaken, MarkerMissing, FreshAgain,
         ClaimWins, ClaimLoses, ReadHeader, Copy, Revalidate, GetEmpty, GetPark, Announce,
         Recheck, Timeout, Relock, Unpark, Look, LookOver, cursors
  <2> QED  BY <2>1, <2>2
<1>3. RangesSame
  BY <1>1, GetterMoves DEF Ready
<1> QED  BY <1>1, <1>2, <1>3, Invisible DEF cursors

(* Nothing changes but, perhaps, the pads. *)
LEMMA Unseen ==
    ASSUME Ready, PadsEnd', UNCHANGED <<config, counters, closed, delivered>>,
           \A q, m : RecordAt(q, m)' <=> RecordAt(q, m)
    PROVE  Done
<1>1. Waiting' = Waiting /\ WaitingAt' = WaitingAt
  BY QueueSame DEF Ready
<1>2. Ranked(WaitingAt)'
  BY <1>1 DEF Ready, QueueInv, Ranked
<1> QED  BY <1>1, <1>2 DEF Done, ContractStep, Contract!vars, config, counters

(* Reserving puts a record at the end of the queue, or a pad behind it. *)
LEMMA RangeSeen ==
    ASSUME FInv, NEW p \in Producers, pc[p] = "reserve", pos[p] = enq, enq' = pos[p] + Need(p),
           Goto(p, "invalidate"), UNCHANGED <<deq, image, producer>>
    PROVE  /\ \A q, m : RecordAt(q, m)' <=> RecordAt(q, m) \/ (q = enq /\ ~padding[p] /\ m = cur[p])
           /\ \A q, n : PadAt(q, n)' => PadAt(q, n) \/ (q = enq /\ padding[p] /\ n = Need(p))
<1>1. TypeOK /\ RingInv /\ deq \in Nat /\ enq \in Nat /\ enq <= enq' /\ enq' \in Nat
  <2>1. TypeOK /\ Need(p) \in Nat /\ enq \in Nat
    BY NeedType DEF FInv, TypeOK
  <2> QED  BY <2>1 DEF FInv, Sound, TypeOK
<1>2. /\ pos' = pos /\ total' = total /\ padding' = padding /\ cur' = cur
      /\ pc'[p] = "invalidate" /\ \A r \in Producers \ {p} : pc'[r] = pc[r]
  BY DEF producer, FInv, Sound, PcInv, Threads, Goto
<1>3. \A q : q \in deq .. enq' - 1 /\ Stored(q) <=> q \in deq .. enq - 1 /\ Stored(q)
  <2>1. \A q \in Nat : enq <= q => ~Stored(q)
    BY <1>1, NothingAhead DEF Starts
  <2> QED  BY <1>1, <2>1
<1>4. \A r \in Producers : (Fills(r)' <=> Fills(r) \/ r = p) /\ Need(r)' = Need(r)
  BY <1>2 DEF Fills, Need
<1>5. \A q, m : RecordAt(q, m)' <=> RecordAt(q, m) \/ (q = enq /\ ~padding[p] /\ m = cur[p])
  <2> TAKE q, m
  <2>1. Holds(q, m)' <=> Holds(q, m)
    <3>1. Holds(q, m)' <=> /\ q \in deq .. enq' - 1 /\ Stored(q)
                           /\ ~image[Off(q)].pad /\ image[Off(q)].msg = m
      BY DEF Holds, Stored
    <3> QED  BY <1>3, <3>1 DEF Holds
  <2>2. RecordAt(q, m)' <=>
           Holds(q, m)' \/ \E r \in Producers : Fills(r)' /\ ~padding[r] /\ cur[r] = m /\ pos[r] = q
    BY <1>2 DEF RecordAt, Brings
  <2> QED  BY <1>4, <2>1, <2>2 DEF RecordAt, Brings
<1>6. \A q, n : PadAt(q, n)' => PadAt(q, n) \/ (q = enq /\ padding[p] /\ n = Need(p))
  <2> TAKE q, n
  <2>1. PadAt(q, n)' =>
           \/ q \in deq .. enq' - 1 /\ Stored(q) /\ image[Off(q)].pad /\ n = image[Off(q)].total_len
           \/ \E r \in Producers : Fills(r)' /\ padding[r] /\ pos[r] = q /\ n = Need(r)'
    BY <1>2 DEF PadAt, Stored
  <2> QED  BY <1>3, <1>4, <2>1 DEF PadAt
<1> QED  BY <1>5, <1>6

LEMMA ReserveKeeps ==
    ASSUME Ready, NEW p \in Producers, Reserve(p)
    PROVE  Done
<1>1. /\ pc[p] = "reserve" /\ FInv /\ PutOk(p) /\ closed' = closed
      /\ UNCHANGED <<config, deq, image, counters, delivered>>
  BY DEF Reserve, At, Ready, FInv, Sound, PutInv, memory, closed
<1>2. CASE /\ ~lf_enq_contended \/ enq = pos[p]
           /\ enq' = pos[p] + Need(p)
           /\ Goto(p, "invalidate")
           /\ UNCHANGED producer
  <2>1. pos[p] = enq
    BY <1>1, <1>2 DEF lf_enq_contended, PutOk
  <2>2. /\ \A q, m : RecordAt(q, m)' <=> RecordAt(q, m) \/ (q = enq /\ ~padding[p] /\ m = cur[p])
        /\ \A q, n : PadAt(q, n)' => PadAt(q, n) \/ (q = enq /\ padding[p] /\ n = Need(p))
    BY <1>1, <1>2, <2>1, RangeSeen
  <2>3. Fixed' <=> Fixed
    BY <1>1 DEF Fixed, config
  <2>4. CASE padding[p]
    <3>1. Length(p) /\ Seeks(p)
      BY <1>1 DEF Ready, QueueInv, Seeks
    <3>2. /\ Need(p) = Capacity - Off(enq) /\ Need(p) < total[p] /\ total[p] <= Capacity
          /\ Fixed => total[p] = RecordLen[cur[p]]
      BY <1>1, <2>1, <2>4, <3>1 DEF Length, Need
    <3>3. /\ Off(enq) \in Nat /\ total[p] \in Nat /\ cur[p] \in Msgs
          /\ RecordLen[cur[p]] \in Nat /\ 2 * RecordLen[cur[p]] <= Capacity
      <4>1. enq \in Nat /\ total[p] \in Nat /\ cur[p] \in Msgs
        BY <1>1 DEF FInv, TypeOK, PutOk
      <4> QED  BY <4>1, OffType, Sizes, SizeAssumption
    <3>4. Off(enq) # 0 /\ Off(enq) + Need(p) = Capacity /\ (Fixed => 2 * Need(p) < Capacity)
      BY <3>2, <3>3, Sizes
    <3>5. PadsEnd'
      <4>1. PadsEnd
        BY DEF Ready, QueueInv
      <4> QED  BY <2>2, <2>3, <3>4, <4>1 DEF PadsEnd
    <3> QED  BY <1>1, <2>2, <2>4, <3>5, Unseen
  <2>5. CASE ~padding[p]
    <3>1. PadsEnd'
      BY <1>1, <2>2, <2>5, PadsKept DEF Ready, QueueInv
    <3>2. cur[p] \in Msgs
      BY <1>1 DEF PutOk
    <3>3. \A q, n : RecordAt(q, n)' <=> RecordAt(q, n) \/ (q = enq /\ n = cur[p])
      BY <2>2, <2>5
    <3>4. Waiting' = Append(Waiting, cur[p]) /\ Ranked(WaitingAt)'
      BY <3>2, <3>3, QueueAppended DEF Ready
    <3>5. Contract!Enqueue(cur[p])
      BY <1>1, <3>4 DEF Contract!Enqueue, config, counters
    <3> QED  BY <3>1, <3>2, <3>4, <3>5 DEF Done, ContractStep, Steps, Contract!Next
  <2> QED  BY <2>4, <2>5
<1>3. CASE PutAgain(p) /\ enq' = enq
  <2>1. RangesSame
    <3>1. Goto(p, "load_enq") /\ TurnEnds(p) /\ UNCHANGED <<cur, total>> /\ ~Fills(p)
      BY <1>1, <1>3 DEF PutAgain, Fills
    <3> QED  BY <1>1, <3>1, RangesElse, TurnOthers DEF FInv
  <2> QED  BY <1>1, <1>3, <2>1, Invisible DEF cursors
<1> QED  BY <1>2, <1>3 DEF Reserve

(* What was in the hands of the producer is in memory now. *)
LEMMA FillKeeps ==
    ASSUME Ready, NEW p \in Producers, Fill(p)
    PROVE  Done
<1> DEFINE q0 == pos[p]
           m0 == cur[p]
<1>1. /\ pc[p] = "fill" /\ Goto(p, "publish") /\ closed' = closed
      /\ UNCHANGED <<config, cursors, counters, delivered, producer>>
      /\ FInv /\ TypeOK /\ RingInv /\ PutOk(p)
  BY DEF Fill, At, history, closed, Ready, FInv, Sound, PutInv
<1>2. /\ pos' = pos /\ total' = total /\ padding' = padding /\ cur' = cur /\ deq' = deq /\ enq' = enq
      /\ pc'[p] = "publish" /\ \A r \in Producers \ {p} : pc'[r] = pc[r]
  BY <1>1 DEF producer, cursors, FInv, Sound, PcInv, Threads, Goto
<1>3. Sized(p) /\ cur[p] \in Msgs /\ RecordLen[cur[p]] <= total[p] /\ Fills(p)
  BY <1>1 DEF PutOk, Own, Fills
<1>4. /\ image'[Off(pos[p])] = [pos |-> pos[p], total_len |-> Need(p), pad |-> padding[p],
                                msg |-> IF padding[p] THEN NoMsg ELSE cur[p]]
      /\ ~Stored(pos[p]) /\ pos[p] \in deq .. enq - 1
      /\ \A q \in deq .. enq - 1 : Starts(q) /\ q # pos[p] => image'[Off(q)] = image[Off(q)]
      /\ \A q \in deq .. enq - 1 : Stored(q)' <=> Stored(q) \/ q = pos[p]
  BY <1>1, <1>3, FillMem
<1>5. \A r \in Producers : (Fills(r)' <=> Fills(r) /\ r # p) /\ Need(r)' = Need(r)
  BY <1>2 DEF Fills, Need
<1>6. \A q, m : Holds(q, m)' <=> Holds(q, m) \/ (q = q0 /\ ~padding[p] /\ m = m0)
  <2> SUFFICES ASSUME NEW q \in deq .. enq - 1, NEW m
               PROVE  Holds(q, m)' <=> Holds(q, m) \/ (q = q0 /\ ~padding[p] /\ m = m0)
    BY <1>2, <1>4 DEF Holds
  <2>1. Holds(q, m)' <=> Stored(q)' /\ ~image'[Off(q)].pad /\ image'[Off(q)].msg = m
    BY <1>2 DEF Holds
  <2>2. CASE q = q0
    BY <1>4, <2>1, <2>2 DEF Holds
  <2>3. CASE q # q0
    BY <1>4, <2>1, <2>3 DEF Holds, Starts
  <2> QED  BY <2>2, <2>3
<1>7. \A q, m : RecordAt(q, m)' <=> RecordAt(q, m)
  <2> TAKE q, m
  <2>1. RecordAt(q, m)' <=>
           Holds(q, m)' \/ \E r \in Producers : Fills(r)' /\ ~padding[r] /\ cur[r] = m /\ pos[r] = q
    BY <1>2 DEF RecordAt, Brings
  <2> QED  BY <1>3, <1>5, <1>6, <2>1 DEF RecordAt, Brings
<1>8. \A q, n : PadAt(q, n)' => PadAt(q, n)
  <2> SUFFICES ASSUME NEW q, NEW n, PadAt(q, n)'  PROVE PadAt(q, n)
    OBVIOUS
  <2>1. \/ /\ q \in deq .. enq - 1 /\ Stored(q)' /\ image'[Off(q)].pad
           /\ n = image'[Off(q)].total_len
        \/ \E r \in Producers : Fills(r)' /\ padding[r] /\ pos[r] = q /\ n = Need(r)'
    BY <1>2 DEF PadAt
  <2>2. CASE \E r \in Producers : Fills(r)' /\ padding[r] /\ pos[r] = q /\ n = Need(r)'
    BY <1>5, <2>2 DEF PadAt
  <2>3. CASE /\ q \in deq .. enq - 1 /\ Stored(q)' /\ image'[Off(q)].pad
             /\ n = image'[Off(q)].total_len
    <3>1. CASE q = q0
      <4>1. padding[p] /\ n = Need(p)
        BY <1>4, <2>3, <3>1
      <4> QED  BY <1>3, <3>1, <4>1 DEF PadAt
    <3>2. CASE q # q0
      <4>1. Stored(q) /\ image'[Off(q)] = image[Off(q)]
        BY <1>4, <2>3, <3>2 DEF Starts
      <4> QED  BY <2>3, <4>1 DEF PadAt
    <3> QED  BY <3>1, <3>2
  <2> QED  BY <2>1, <2>2, <2>3
<1>9. PadsEnd'
  BY <1>1, <1>8, PadsKept DEF Ready, QueueInv
<1> QED  BY <1>1, <1>7, <1>9, Unseen

(* deq passes the entry it stands at: a pad, or the first of the queue. *)
LEMMA EntryTaken ==
    ASSUME FInv, NEW n, Stored(deq), Entry(deq, n), deq < enq, deq' = deq + n,
           UNCHANGED <<enq, image>>, RangesSame, \A p \in Producers : Own(p) => pos[p] # deq
    PROVE  /\ \A q, k : PadAt(q, k)' => PadAt(q, k)
           /\ image[Off(deq)].pad => \A q, m : RecordAt(q, m)' <=> RecordAt(q, m)
           /\ ~image[Off(deq)].pad =>
                 /\ RecordAt(deq, image[Off(deq)].msg)
                 /\ \A q, m : RecordAt(q, m)' <=> RecordAt(q, m) /\ q # deq
<1>1. TypeOK /\ RingInv /\ deq \in Nat /\ enq \in Nat
  BY DEF FInv, Sound, TypeOK
<1>2. n \in Nat
  BY <1>1, EntryType
<1>3. /\ n # 0 /\ deq + n <= enq
      /\ \A r \in deq + 1 .. deq + n - 1 : ~Starts(r)
  BY <1>1, <1>2 DEF RingInv, ChainInv
<1>4. \A q : q \in deq' .. enq' - 1 /\ Stored(q)' <=> q \in deq .. enq - 1 /\ q # deq /\ Stored(q)
  <2> SUFFICES ASSUME NEW q, q \in deq .. enq - 1 \/ q \in deq' .. enq - 1
               PROVE  q \in deq' .. enq - 1 /\ Stored(q)' <=> q \in deq .. enq - 1 /\ q # deq /\ Stored(q)
    OBVIOUS
  <2>1. Stored(q)' <=> Stored(q)
    BY DEF Stored
  <2>2. Stored(q) => q \notin deq + 1 .. deq + n - 1
    BY <1>3 DEF Starts
  <2> QED  BY <1>1, <1>2, <1>3, <2>1, <2>2
<1>5. \A q, m : Holds(q, m)' <=> Holds(q, m) /\ q # deq
  <2>1. \A q, m : Holds(q, m)' <=> /\ q \in deq' .. enq' - 1 /\ Stored(q)'
                                   /\ ~image[Off(q)].pad /\ image[Off(q)].msg = m
    BY DEF Holds
  <2> QED  BY <1>4, <2>1 DEF Holds
<1>6. \A p \in Producers : /\ Fills(p)' <=> Fills(p)
                           /\ Fills(p) => /\ pos'[p] = pos[p] /\ padding'[p] = padding[p]
                                          /\ cur'[p] = cur[p] /\ Need(p)' = Need(p)
                                          /\ pos[p] # deq
  BY DEF RangesSame, Need, Fills, Own
<1>7. \A q, m : RecordAt(q, m)' <=> RecordAt(q, m) /\ q # deq
  <2> TAKE q, m
  <2>1. RecordAt(q, m)' <=>
           Holds(q, m)' \/ \E r \in Producers : Fills(r)' /\ ~padding'[r] /\ cur'[r] = m /\ pos'[r] = q
    BY DEF RecordAt, Brings
  <2>2. (\E r \in Producers : Fills(r)' /\ ~padding'[r] /\ cur'[r] = m /\ pos'[r] = q)
           <=> (\E r \in Producers : Brings(r, m) /\ pos[r] = q)
    BY <1>6 DEF Brings
  <2>3. (\E r \in Producers : Brings(r, m) /\ pos[r] = q) => q # deq
    BY <1>6 DEF Brings
  <2> QED  BY <1>5, <2>1, <2>2, <2>3 DEF RecordAt
<1>8. \A q, k : PadAt(q, k)' => PadAt(q, k)
  <2> TAKE q, k
  <2>1. PadAt(q, k)' =>
           \/ /\ q \in deq' .. enq' - 1 /\ Stored(q)' /\ image[Off(q)].pad
              /\ k = image[Off(q)].total_len
           \/ \E r \in Producers : Fills(r)' /\ padding'[r] /\ pos'[r] = q /\ k = Need(r)'
    BY DEF PadAt
  <2> QED  BY <1>4, <1>6, <2>1 DEF PadAt
<1>9. CASE image[Off(deq)].pad
  <2>1. \A q, m : RecordAt(q, m) => q # deq
    BY <1>6, <1>9 DEF RecordAt, Holds, Brings
  <2> QED  BY <1>7, <1>8, <1>9, <2>1
<1>10. CASE ~image[Off(deq)].pad
  <2>1. RecordAt(deq, image[Off(deq)].msg)
    <3>1. deq \in deq .. enq - 1
      BY <1>1
    <3> QED  BY <1>10, <3>1 DEF RecordAt, Holds
  <2> QED  BY <1>7, <1>8, <1>10, <2>1
<1> QED  BY <1>9, <1>10

LEMMA EvictCasKeeps ==
    ASSUME Ready, NEW p \in Producers, EvictCas(p)
    PROVE  Done
<1> DEFINE old == image[Off(victim[p])]
<1>1. /\ pc[p] = "evict_cas" /\ Goto(p, "evict") /\ closed' = closed
      /\ deq' = IF deq = victim[p] THEN victim[p] + old.total_len ELSE deq
      /\ IF deq = victim[p] /\ ~old.pad THEN overwritten' = overwritten + 1
                                        ELSE overwritten' = overwritten
      /\ UNCHANGED <<config, enq, image, dropped, delivered, producer>>
      /\ FInv /\ TypeOK /\ PcInv /\ RingInv /\ PutOk(p) /\ victim[p] \in Nat
  BY DEF EvictCas, At, memory, closed, Ready, FInv, Sound, PutInv, TypeOK
<1>2. UNCHANGED <<pos, total, padding, cur>> /\ ~Fills(p)
  BY <1>1 DEF producer, Fills
<1>3. RangesSame
  BY <1>1, <1>2, RangesElse
<1>4. mode = SPSC /\ policy = Overwrite /\ \A r \in Producers : ~Own(r)
  BY <1>1 DEF PutOk, PcInv, Own
<1>5. CASE deq # victim[p]
  BY <1>1, <1>3, <1>5, Invisible DEF cursors, counters
<1>6. CASE deq = victim[p]
  <2>1. deq \in Nat /\ enq \in Nat /\ Need(p) \in Nat /\ Off(pos[p]) \in Nat /\ pos[p] \in Nat
    BY <1>1, NeedType, OffType DEF TypeOK
  <2>2. deq < enq
    <3>1. pos[p] = enq /\ pos[p] + Need(p) > deq + Capacity /\ Off(pos[p]) + Need(p) <= Capacity
      BY <1>1, <1>4, <1>6 DEF PutOk, Sized
    <3> QED  BY <2>1, <3>1, Sizes
  <2>3. Stored(deq) /\ Entry(deq, old.total_len)
    BY <1>1, <1>4, <1>6, <2>1, <2>2 DEF RingInv, ChainInv, Starts, Filled, Entry, Own, Fills
  <2>4. deq' = deq + old.total_len /\ old = image[Off(deq)]
    BY <1>1, <1>6
  <2>5. /\ \A q, k : PadAt(q, k)' => PadAt(q, k)
        /\ image[Off(deq)].pad => \A q, m : RecordAt(q, m)' <=> RecordAt(q, m)
        /\ ~image[Off(deq)].pad =>
              /\ RecordAt(deq, image[Off(deq)].msg)
              /\ \A q, m : RecordAt(q, m)' <=> RecordAt(q, m) /\ q # deq
    <3> HIDE DEF old
    <3> QED  BY <1>1, <1>3, <1>4, <2>2, <2>3, <2>4, EntryTaken
  <2>6. PadsEnd'
    BY <1>1, <2>5, PadsKept DEF Ready, QueueInv
  <2>7. CASE image[Off(deq)].pad
    <3>1. counters' = counters
      BY <1>1, <2>4, <2>7 DEF counters
    <3> QED  BY <1>1, <2>5, <2>6, <2>7, <3>1, Unseen
  <2>8. CASE ~image[Off(deq)].pad
    <3>1. Waiting # <<>> /\ Waiting' = Tail(Waiting) /\ Ranked(WaitingAt)'
      BY <2>5, <2>8, QueueRemoved DEF Ready
    <3>2. overwritten' = overwritten + 1
      BY <1>1, <1>6, <2>4, <2>8
    <3>3. Contract!Evict
      BY <1>1, <1>4, <3>1, <3>2 DEF Contract!Evict, config
    <3> QED  BY <2>6, <3>1, <3>3 DEF Done, ContractStep, Steps, Contract!Next
  <2> QED  BY <2>7, <2>8
<1> QED  BY <1>5, <1>6

LEMMA AdvanceKeeps ==
    ASSUME Ready, NEW c \in Consumers, Advance(c)
    PROVE  Done
<1> DEFINE h == view[c][1]
           wins == ~lf_deq_contended \/ deq = at[c]
           returns == ~h.pad /\ (wins \/ mode = MPMC)
<1>1. /\ pc[c] = "advance" /\ closed' = closed
      /\ deq' = IF wins THEN at[c] + h.total_len ELSE deq
      /\ delivered' = IF returns THEN Append(delivered, h.msg) ELSE delivered
      /\ TurnOver(c, IF returns THEN "idle" ELSE "cursors")
      /\ UNCHANGED <<config, enq, image, counters, producer>>
      /\ FInv /\ GetOk(c) /\ Past(c)
  BY DEF Advance, At, memory, closed, Ready, FInv, Sound, GetInv, Past
<1>2. RangesSame
  <2>1. \E l : Goto(c, l)
    BY <1>1 DEF TurnOver
  <2> QED  BY <1>1, <2>1, GetterMoves
<1>3. mode = MPMC => wins
  BY <1>1 DEF GetOk
<1>4. CASE ~wins
  <2>1. deq' = deq /\ delivered' = delivered
    BY <1>1, <1>3, <1>4
  <2> HIDE DEF h, wins, returns
  <2> QED  BY <1>1, <1>2, <2>1, Invisible DEF cursors
<1>5. CASE wins
  <2>1. /\ at[c] = deq /\ deq < enq /\ Stored(deq) /\ h = image[Off(deq)] /\ Entry(deq, h.total_len)
        /\ \A p \in Producers : Own(p) => pos[p] # deq
    BY <1>1, <1>5, AdvanceAtDeq
  <2>2. /\ deq' = deq + h.total_len
        /\ delivered' = IF h.pad THEN delivered ELSE Append(delivered, h.msg)
    BY <1>1, <1>5, <2>1
  <2> HIDE DEF h, wins, returns
  <2>3. /\ \A q, k : PadAt(q, k)' => PadAt(q, k)
        /\ h.pad => \A q, m : RecordAt(q, m)' <=> RecordAt(q, m)
        /\ ~h.pad => /\ RecordAt(deq, h.msg)
                     /\ \A q, m : RecordAt(q, m)' <=> RecordAt(q, m) /\ q # deq
    BY <1>1, <1>2, <2>1, <2>2, EntryTaken
  <2>4. PadsEnd'
    BY <1>1, <2>3, PadsKept DEF Ready, QueueInv
  <2>5. CASE h.pad
    BY <1>1, <2>2, <2>3, <2>4, <2>5, Unseen
  <2>6. CASE ~h.pad
    <3>1. Waiting # <<>> /\ Head(Waiting) = h.msg /\ Waiting' = Tail(Waiting) /\ Ranked(WaitingAt)'
      BY <2>3, <2>6, QueueRemoved DEF Ready
    <3>2. Contract!Dequeue
      BY <1>1, <2>2, <2>6, <3>1 DEF Contract!Dequeue, config, counters
    <3> QED  BY <2>4, <3>1, <3>2 DEF Done, ContractStep, Steps, Contract!Next
  <2> QED  BY <2>5, <2>6
<1> QED  BY <1>4, <1>5

(* Without a record in the ring, room is lacking only for a length that    *)
(* was kept, or behind a pad of such a length.                             *)
LEMMA NoRoom ==
    ASSUME FInv, WaitingIs, QueueInv, policy = Discard, WaitingAt = {},
           NEW p \in Producers, pc[p] = "space", ~lf_space_ok(p)
    PROVE  lf_enq_contended /\ (total[p] > RecordLen[cur[p]] \/ LongPad)
<1>1. /\ TypeOK /\ RingInv /\ PutOk(p) /\ Length(p) /\ Seeks(p) /\ Sized(p)
      /\ deq \in Nat /\ enq \in Nat /\ pos[p] \in Nat /\ total[p] \in Nat /\ Need(p) \in Nat
      /\ Off(pos[p]) \in Nat /\ Off(pos[p]) < Capacity
      /\ cur[p] \in Msgs /\ RecordLen[cur[p]] <= total[p]
      /\ enq <= deq + Capacity /\ deq <= enq
  <2>1. TypeOK /\ PutOk(p) /\ Length(p) /\ Seeks(p) /\ pos[p] \in Nat /\ Need(p) \in Nat
    BY NeedType DEF FInv, Sound, PutInv, QueueInv, Seeks
  <2> QED  BY <2>1, OffType DEF PutOk, FInv, Sound, RingInv, ChainInv, TypeOK
<1>2. /\ pos[p] + Need(p) > deq + Capacity
      /\ pos[p] <= enq
      /\ padding[p] => Need(p) = Capacity - Off(pos[p]) /\ Need(p) < total[p]
      /\ ~padding[p] => Need(p) = total[p]
      /\ total[p] <= Capacity /\ Off(pos[p]) + Need(p) <= Capacity
  BY <1>1, Sizes DEF lf_space_ok, Length, Need, Sized
<1>3. /\ RecordLen[cur[p]] \in Nat /\ 2 * RecordLen[cur[p]] <= Capacity /\ 2 * MinPad <= Capacity
      /\ Capacity \in Nat /\ MinPad \in Nat
  BY <1>1, Sizes, SizeAssumption
<1>4. deq < enq
  BY <1>1, <1>2, <1>3
<1>5. \A q \in deq .. enq - 1 : \A n : Entry(q, n) => PadAt(q, n)
  <2>1. \A q, m : ~RecordAt(q, m)
    BY DEF WaitingIs
  <2> SUFFICES ASSUME NEW q \in deq .. enq - 1, NEW n, Entry(q, n)  PROVE PadAt(q, n)
    OBVIOUS
  <2>2. CASE Stored(q) /\ n = image[Off(q)].total_len
    BY <2>1, <2>2 DEF RecordAt, Holds, PadAt
  <2>3. CASE \E r \in Producers : Fills(r) /\ pos[r] = q /\ n = Need(r)
    BY <2>1, <2>3 DEF RecordAt, Brings, PadAt
  <2> QED  BY <2>2, <2>3 DEF Entry
<1>6. deq \in Live /\ deq \notin WaitingAt
  BY <1>1, <1>4, LiveIs DEF RingInv, ChainInv
<1>7. PICK n \in Nat : Entry(deq, n) /\ EndOf(deq) = deq + n
  BY <1>6, EndOfIs
<1>8. deq \in deq .. enq - 1
  BY <1>1, <1>4
<1>9. Off(deq) + n = Capacity /\ (Fixed => 2 * n < Capacity)
  BY <1>5, <1>7, <1>8 DEF QueueInv, PadsEnd
<1>10. deq + n <= enq /\ (deq + n = enq \/ Starts(deq + n))
  BY <1>1, <1>7, <1>8 DEF RingInv, ChainInv
<1>11. Off(deq + n) = 0
  BY <1>1, <1>9, OffWrap
<1>12. enq = deq + n
  <2> SUFFICES ASSUME Starts(deq + n), deq + n # enq  PROVE FALSE
    BY <1>10
  <2>1. deq + n \in Nat /\ deq + n \in deq .. enq - 1
    BY <1>1, <1>10
  <2>2. PICK k \in Nat : Entry(deq + n, k)
    BY <1>1, <2>1, StartsEntry
  <2>3. PadAt(deq + n, k)
    BY <1>5, <2>1, <2>2
  <2> QED  BY <1>11, <2>3 DEF QueueInv, PadsEnd
<1>13. lf_enq_contended
  <2> SUFFICES ASSUME mode = SPSC  PROVE FALSE
    BY DEF lf_enq_contended
  <2>1. pos[p] = enq /\ Fixed
    BY <1>1 DEF PutOk, Fixed
  <2>2. ~padding[p]
    BY <1>1, <1>2, <1>3, <1>11, <1>12, <2>1
  <2>3. total[p] = RecordLen[cur[p]] \/ RecordLen[cur[p]] + MinPad > Capacity
    BY <1>1, <1>3, <1>11, <1>12, <2>1, <2>2 DEF Length
  <2> QED  BY <1>1, <1>2, <1>3, <1>9, <1>12, <2>1, <2>2, <2>3
<1>14. ASSUME ~(total[p] > RecordLen[cur[p]])  PROVE LongPad
  <2>1. total[p] = RecordLen[cur[p]]
    BY <1>1, <1>3, <1>14
  <2>2. Need(p) <= total[p]
    BY <1>1, <1>2
  <2>3. 2 * n > Capacity
    BY <1>1, <1>2, <1>3, <1>12, <2>1, <2>2
  <2>4. EndOf(deq) - deq = n
    BY <1>1, <1>7
  <2> QED  BY <1>6, <2>3, <2>4 DEF LongPad
<1> QED  BY <1>13, <1>14

LEMMA SpaceNoneKeeps ==
    ASSUME Ready, NEW p \in Producers, SpaceNone(p)
    PROVE  Done
<1>1. /\ pc[p] = "space" /\ ~lf_space_ok(p) /\ closed' = closed /\ FInv /\ ~Fills(p)
      /\ UNCHANGED <<config, cursors, image, overwritten, delivered>>
  BY DEF SpaceNone, At, memory, closed, Ready, Fills
<1>2. CASE policy = Overwrite
  <2>1. Goto(p, "evict") /\ UNCHANGED <<dropped, pos, total, padding, cur>>
    BY <1>2 DEF SpaceNone, producer
  <2>2. RangesSame
    BY <1>1, <2>1, RangesElse
  <2> QED  BY <1>1, <2>1, <2>2, Invisible DEF counters
<1>3. CASE policy # Overwrite
  <2>1. policy = Discard
    BY <1>1, <1>3 DEF FInv, TypeOK
  <2>2. Goto(p, "idle") /\ PutReturn(p) /\ TurnEnds(p) /\ dropped' = dropped + 1
    BY <1>3 DEF SpaceNone, PutReturn, Refused
  <2>3. RangesSame
    BY <1>1, <2>2, RangesElse, TurnOthers DEF FInv
  <2>4. Waiting' = Waiting /\ WaitingAt' = WaitingAt
    BY <1>1, <2>3, RecordsSame, QueueSame DEF Ready
  <2>5. PadsEnd' /\ Ranked(WaitingAt)'
    BY <1>1, <2>3, <2>4, RecordsSame, PadsKept DEF Ready, QueueInv, Ranked
  <2>6. CASE Waiting # <<>>
    <3>1. Contract!Refuse
      BY <1>1, <2>1, <2>2, <2>4, <2>6 DEF Contract!Refuse, config
    <3> QED  BY <2>5, <3>1 DEF Done, ContractStep, Steps, Contract!Next
  <2>7. CASE Waiting = <<>>
    <3>1. WaitingAt = {}
      <4>1. IsFiniteSet(WaitingAt) /\ Cardinality(WaitingAt) = 0
        BY <2>7, QueueFacts DEF Ready, Positions
      <4> QED  BY <4>1, FS_EmptySet
    <3>2. lf_enq_contended /\ (total[p] > RecordLen[cur[p]] \/ LongPad)
      BY <1>1, <2>1, <3>1, NoRoom DEF Ready
    <3>3. RefuseExtended
      BY <2>1, <2>4, <2>7, <3>2, Zenon DEF RefuseExtended
    <3> QED  BY <2>5, <3>3 DEF Done, ContractStep, Steps
  <2> QED  BY <2>6, <2>7
<1> QED  BY <1>2, <1>3

-----------------------------------------------------------------------------
(* How long a range a producer asks for *)

(* A producer keeps its locals while it seeks, and while it has a range.   *)
LEMMA LengthGoes ==
    ASSUME TypeOK, NEW p \in Producers, Length(p), UNCHANGED <<config, total, padding, cur, pos>>,
           enq' \in Nat, enq <= enq', pc'[p] = "idle" \/ pc[p] # "idle",
           Seeks(p)' => Seeks(p), Own(p)' => Seeks(p) \/ Own(p),
           pc'[p] = "load_enq" => pc[p] = "load_enq"
    PROVE  Length(p)'
<1>1. /\ pos' = pos /\ total' = total /\ padding' = padding /\ cur' = cur
      /\ (Fixed' <=> Fixed) /\ Need(p)' = Need(p)
  BY DEF config, Fixed, Need
<1>2. Seeks(p)' => pos[p] <= enq'
  BY DEF Length, TypeOK
<1> QED  BY <1>1, <1>2 DEF Length

LEMMA LengthOther ==
    ASSUME TypeOK, NEW r \in Producers, Length(r), UNCHANGED config, enq' \in Nat, enq <= enq',
           pc'[r] = pc[r], pos'[r] = pos[r], total'[r] = total[r], padding'[r] = padding[r],
           cur'[r] = cur[r]
    PROVE  Length(r)'
<1>1. (Fixed' <=> Fixed) /\ Need(r)' = Need(r) /\ (Seeks(r)' <=> Seeks(r)) /\ (Own(r)' <=> Own(r))
  BY DEF config, Fixed, Need, Seeks, Own
<1>2. Seeks(r)' => pos[r] <= enq'
  BY <1>1 DEF Length, TypeOK
<1> QED  BY <1>1, <1>2 DEF Length

(* A turn of put ends: the length is kept, and is the record's own unless  *)
(* a reservation was lost.                                                 *)
LEMMA LengthAgain ==
    ASSUME NEW p \in Producers, Length(p), UNCHANGED <<config, cur, total>>, pc[p] # "idle",
           pc'[p] = "load_enq", ~Fixed \/ (Own(p) /\ padding[p])
    PROVE  Length(p)'
<1>1. /\ total' = total /\ cur' = cur /\ (Fixed' <=> Fixed) /\ ~Seeks(p)' /\ ~Own(p)'
  BY DEF config, Fixed, Seeks, Own
<1>2. total[p] <= Capacity /\ (Fixed => total[p] = RecordLen[cur[p]])
  BY DEF Length
<1> QED  BY <1>1, <1>2 DEF Length

LEMMA LengthGone ==
    ASSUME NEW p \in Producers, pc'[p] = "idle"
    PROVE  Length(p)'
BY DEF Length, Seeks, Own

LEMMA LoadedLength ==
    ASSUME FInv, NEW p \in Producers, Length(p), LoadEnq(p), pc'[p] = "space"
    PROVE  Length(p)'
<1> DEFINE gap == Capacity - Off(enq)
           pad == gap < total[p]
<1>1. /\ pc[p] = "load_enq"
      /\ pos' = [pos EXCEPT ![p] = enq] /\ padding' = [padding EXCEPT ![p] = pad]
      /\ total' = [total EXCEPT ![p] = IF ~pad /\ gap < total[p] + MinPad THEN gap ELSE total[p]]
      /\ cur' = cur /\ enq' = enq /\ mode' = mode /\ policy' = policy
      /\ TypeOK /\ PutOk(p)
  BY DEF LoadEnq, At, cursors, config, FInv, Sound, PutInv
<1>2. /\ enq \in Nat /\ total[p] \in Nat /\ Off(enq) \in Nat /\ Off(enq) < Capacity /\ gap \in Nat
      /\ cur[p] \in Msgs /\ RecordLen[cur[p]] \in Nat
  <2>1. enq \in Nat /\ total[p] \in Nat /\ cur[p] \in Msgs
    BY <1>1 DEF TypeOK, PutOk
  <2> QED  BY <2>1, OffType, Sizes
<1>3. /\ pos'[p] = enq /\ padding'[p] = pad /\ (Fixed' <=> Fixed)
      /\ total'[p] = IF ~pad /\ gap < total[p] + MinPad THEN gap ELSE total[p]
  BY <1>1 DEF TypeOK, Fixed
<1>4. total[p] <= Capacity /\ (Fixed => total[p] = RecordLen[cur[p]])
  BY <1>1 DEF Length
<1>5. pad => Need(p)' = gap
  BY <1>3 DEF Need
<1>6. ~Own(p)' /\ Seeks(p)'
  BY DEF Own, Seeks
<1>7. total'[p] <= Capacity
  BY <1>2, <1>3, <1>4, Sizes
<1>8. pad => Need(p)' < total'[p] /\ total'[p] = total[p]
  BY <1>2, <1>3, <1>5
<1>9. Fixed /\ ~pad => \/ total'[p] = RecordLen[cur[p]]
                       \/ Off(enq) + RecordLen[cur[p]] + MinPad > Capacity
  BY <1>2, <1>3, <1>4, Sizes
<1> HIDE DEF pad, gap
<1> QED  BY <1>1, <1>2, <1>3, <1>4, <1>6, <1>7, <1>8, <1>9 DEF Length

LEMMA PutLength ==
    ASSUME FInv, FInv', NEW p \in Producers, (\E m \in Msgs : PutCall(p, m)) \/ PutStep(p),
           \A r \in Producers : Length(r)
    PROVE  \A r \in Producers : Length(r)'
<1> USE DEF config, cursors, producer, At
<1>1. /\ TypeOK /\ enq \in Nat /\ enq' \in Nat /\ deq \in Nat /\ PutOk(p) /\ Length(p)
      /\ pos[p] \in Nat /\ Need(p) \in Nat
      /\ pc \in [Threads -> PutPcs \cup GetPcs] /\ Producers \subseteq Threads
  BY NeedType, Sizes DEF FInv, TypeOK, Sound, PcInv, PutInv, Threads
<1>2. UNCHANGED config /\ enq <= enq'
  <2>1. UNCHANGED config
    BY DEF PutCall, PutStep, LoadEnq, SpaceOk, SpaceNone, EvictLoad, EvictMark, EvictCas, Reserve,
           Invalidate, Fill, Publish, PutKick, PutBroadcast
  <2>2. CASE Reserve(p)
    <3>1. enq' = enq \/ (enq' = pos[p] + Need(p) /\ pos[p] = enq)
      BY <1>1, <2>2 DEF Reserve, PutOk, lf_enq_contended
    <3> QED  BY <1>1, <2>1, <3>1
  <2>3. CASE ~Reserve(p)
    <3>1. enq' = enq
      BY <2>3 DEF PutCall, PutStep, LoadEnq, SpaceOk, SpaceNone, EvictLoad, EvictMark, EvictCas,
           Invalidate, Fill, Publish, PutKick, PutBroadcast
    <3> QED  BY <1>1, <2>1, <3>1
  <2> QED  BY <2>2, <2>3
<1>3. \A r \in Producers \ {p} :
         /\ pc'[r] = pc[r] /\ pos'[r] = pos[r] /\ total'[r] = total[r]
         /\ padding'[r] = padding[r] /\ cur'[r] = cur[r]
  <2>1. \A r \in Producers \ {p} : r \notin kick
    BY <1>1, ThreadAssumption DEF TypeOK
  <2>2. CASE PutBroadcast(p)
    <3>1. /\ pc' = [u \in Threads |-> IF u = p THEN "idle" ELSE IF u \in kick THEN "relock" ELSE pc[u]]
          /\ TurnEnds(p) /\ PutReturn(p)
      BY <2>2 DEF PutBroadcast, Broadcast, PutReturn
    <3> QED  BY <1>1, <2>1, <3>1, TurnOthers
  <2>3. CASE ~PutBroadcast(p)
    <3>1. \E l : Goto(p, l) \/ pc' = pc
      BY <2>3 DEF PutCall, PutStep, LoadEnq, SpaceOk, SpaceNone, EvictLoad, EvictMark, EvictCas,
           Reserve, Invalidate, Fill, Publish, PutKick, PutAgain
    <3>2. \A r \in Producers \ {p} : pc'[r] = pc[r]
      BY <1>1, <3>1 DEF Goto
    <3>3. \A r \in Producers \ {p} : /\ pos'[r] = pos[r] /\ total'[r] = total[r]
                                     /\ padding'[r] = padding[r] /\ cur'[r] = cur[r]
      <4>1. CASE \E m \in Msgs : PutCall(p, m)
        BY <1>1, <4>1 DEF PutCall, TypeOK
      <4>2. CASE LoadEnq(p)
        BY <1>1, <4>2 DEF LoadEnq, TypeOK
      <4>3. CASE SpaceOk(p) \/ EvictMark(p) \/ EvictCas(p) \/ Invalidate(p) \/ Fill(p)
        BY <4>3 DEF SpaceOk, EvictMark, EvictCas, Invalidate, Fill
      <4>4. CASE SpaceNone(p) \/ EvictLoad(p) \/ Reserve(p) \/ Publish(p) \/ PutKick(p)
        <5>1. \/ UNCHANGED <<pos, total, padding, cur>>
              \/ TurnEnds(p) /\ (PutReturn(p) \/ UNCHANGED <<cur, total>>)
          BY <4>4 DEF SpaceNone, EvictLoad, Reserve, Publish, PutKick, PutAgain, PutReturn
        <5> QED  BY <1>1, <5>1, TurnOthers
      <4> QED  BY <2>3, <4>1, <4>2, <4>3, <4>4 DEF PutStep
    <3> QED  BY <3>2, <3>3
  <2> QED  BY <2>2, <2>3
<1>4. \A l : Goto(p, l) => pc'[p] = l
  BY <1>1 DEF Goto
<1>5. Length(p)'
  <2>1. CASE \E m \in Msgs : PutCall(p, m)
    <3> PICK m \in Msgs : PutCall(p, m)
      BY <2>1
    <3>1. CASE ~closed
      <4>1. pc'[p] = "load_enq" /\ cur'[p] = m /\ total'[p] = RecordLen[m]
        BY <1>1, <1>4, <3>1 DEF PutCall, TypeOK
      <4>2. RecordLen[m] <= Capacity
        BY <1>1, Sizes, SizeAssumption
      <4> QED  BY <4>1, <4>2 DEF Length, Seeks, Own
    <3>2. CASE closed
      <4>1. pc'[p] = "idle"
        BY <3>2 DEF PutCall
      <4> QED  BY <4>1, LengthGone
    <3> QED  BY <3>1, <3>2
  <2>2. CASE LoadEnq(p)
    <3>1. pc'[p] = "space"
      BY <1>4, <2>2 DEF LoadEnq
    <3> QED  BY <1>1, <2>2, <3>1, LoadedLength
  <2>3. CASE SpaceOk(p) \/ EvictMark(p) \/ EvictCas(p) \/ Invalidate(p) \/ Fill(p)
    <3>1. UNCHANGED <<pos, total, padding, cur>>
      BY <2>3 DEF SpaceOk, EvictMark, EvictCas, Invalidate, Fill
    <3>2. \/ pc[p] = "space" /\ pc'[p] = "reserve"
          \/ pc[p] = "evict_mark" /\ pc'[p] = "evict_cas"
          \/ pc[p] = "evict_cas" /\ pc'[p] = "evict"
          \/ pc[p] = "invalidate" /\ pc'[p] = "fill"
          \/ pc[p] = "fill" /\ pc'[p] = "publish"
      <4>1. SpaceOk(p) => pc[p] = "space" /\ pc'[p] = "reserve"
        BY <1>4 DEF SpaceOk
      <4>2. EvictMark(p) => pc[p] = "evict_mark" /\ pc'[p] = "evict_cas"
        BY <1>4 DEF EvictMark
      <4>3. EvictCas(p) => pc[p] = "evict_cas" /\ pc'[p] = "evict"
        BY <1>4 DEF EvictCas
      <4>4. Invalidate(p) => pc[p] = "invalidate" /\ pc'[p] = "fill"
        BY <1>4 DEF Invalidate
      <4>5. Fill(p) => pc[p] = "fill" /\ pc'[p] = "publish"
        BY <1>4 DEF Fill
      <4> QED  BY <2>3, <4>1, <4>2, <4>3, <4>4, <4>5
    <3>3. /\ Seeks(p)' => Seeks(p)
          /\ Own(p)' => Seeks(p) \/ Own(p)
          /\ pc[p] # "idle" /\ pc'[p] # "load_enq"
      BY <3>2 DEF Seeks, Own
    <3> QED  BY <1>1, <1>2, <3>1, <3>3, LengthGoes
  <2>4. CASE SpaceNone(p)
    <3>1. CASE policy = Overwrite
      <4>1. pc[p] = "space" /\ pc'[p] = "evict" /\ UNCHANGED <<pos, total, padding, cur>>
        BY <1>4, <2>4, <3>1 DEF SpaceNone
      <4>2. Seeks(p) /\ ~Own(p)'
        BY <4>1 DEF Seeks, Own
      <4> QED  BY <1>1, <1>2, <4>1, <4>2, LengthGoes
    <3>2. CASE policy # Overwrite
      <4>1. pc'[p] = "idle"
        BY <1>4, <2>4, <3>2 DEF SpaceNone
      <4> QED  BY <4>1, LengthGone
    <3> QED  BY <3>1, <3>2
  <2>5. CASE EvictLoad(p)
    <3>1. pc[p] = "evict" /\ ~Fixed /\ Seeks(p)
      BY <1>1, <2>5, ModeAssumption DEF EvictLoad, PutOk, Fixed, Seeks
    <3>2. CASE PutAgain(p)
      <4>1. pc'[p] = "load_enq" /\ UNCHANGED <<cur, total>>
        BY <1>4, <3>2 DEF PutAgain
      <4> QED  BY <1>1, <1>2, <3>1, <4>1, LengthAgain
    <3>3. CASE ~PutAgain(p)
      <4>1. (pc'[p] = "reserve" \/ pc'[p] = "evict_mark") /\ UNCHANGED <<pos, total, padding, cur>>
        BY <1>4, <2>5, <3>3 DEF EvictLoad
      <4>2. ~Own(p)'
        BY <4>1 DEF Own
      <4> QED  BY <1>1, <1>2, <3>1, <4>1, <4>2, LengthGoes
    <3> QED  BY <3>2, <3>3
  <2>6. CASE Reserve(p)
    <3>1. pc[p] = "reserve" /\ Seeks(p)
      BY <2>6 DEF Reserve, Seeks
    <3>2. CASE Goto(p, "invalidate") /\ UNCHANGED producer
      <4>1. pc'[p] = "invalidate" /\ ~Seeks(p)' /\ UNCHANGED <<pos, total, padding, cur>>
        BY <1>4, <3>2 DEF Seeks
      <4> QED  BY <1>1, <1>2, <3>1, <4>1, LengthGoes
    <3>3. CASE lf_enq_contended /\ PutAgain(p)
      <4>1. pc'[p] = "load_enq" /\ UNCHANGED <<cur, total>> /\ ~Fixed
        BY <1>4, <3>3 DEF PutAgain, Fixed, lf_enq_contended
      <4> QED  BY <1>1, <1>2, <3>1, <4>1, LengthAgain
    <3> QED  BY <2>6, <3>2, <3>3 DEF Reserve
  <2>7. CASE Publish(p)
    <3>1. pc[p] = "publish" /\ Own(p)
      BY <2>7 DEF Publish, Own
    <3>2. CASE padding[p] /\ PutAgain(p)
      <4>1. pc'[p] = "load_enq" /\ UNCHANGED <<cur, total>>
        BY <1>4, <3>2 DEF PutAgain
      <4> QED  BY <1>1, <1>2, <3>1, <3>2, <4>1, LengthAgain
    <3>3. CASE Goto(p, "kick") /\ UNCHANGED producer
      <4>1. pc'[p] = "kick" /\ ~Seeks(p)' /\ UNCHANGED <<pos, total, padding, cur>>
        BY <1>4, <3>3 DEF Seeks
      <4> QED  BY <1>1, <1>2, <3>1, <4>1, LengthGoes
    <3> QED  BY <2>7, <3>2, <3>3 DEF Publish
  <2>8. CASE PutKick(p)
    <3>1. CASE Goto(p, "broadcast") /\ UNCHANGED producer
      <4>1. pc[p] = "kick" /\ pc'[p] = "broadcast" /\ UNCHANGED <<pos, total, padding, cur>>
        BY <1>4, <2>8, <3>1 DEF PutKick
      <4>2. ~Seeks(p)' /\ ~Own(p)'
        BY <4>1 DEF Seeks, Own
      <4> QED  BY <1>1, <1>2, <4>1, <4>2, LengthGoes
    <3>2. CASE Goto(p, "idle")
      <4>1. pc'[p] = "idle"
        BY <1>4, <3>2
      <4> QED  BY <4>1, LengthGone
    <3> QED  BY <2>8, <3>1, <3>2 DEF PutKick
  <2>9. CASE PutBroadcast(p)
    <3>1. pc'[p] = "idle"
      BY <1>1, <2>9 DEF PutBroadcast, Broadcast
    <3> QED  BY <3>1, LengthGone
  <2> QED  BY <2>1, <2>2, <2>3, <2>4, <2>5, <2>6, <2>7, <2>8, <2>9 DEF PutStep
<1>6. \A r \in Producers \ {p} : Length(r)'
  BY <1>1, <1>2, <1>3, LengthOther
<1> QED  BY <1>5, <1>6

LEMMA LengthKept ==
    ASSUME FInv, FInv', [Next]_vars, \A r \in Producers : Length(r)
    PROVE  \A r \in Producers : Length(r)'
<1>1. ASSUME NEW p \in Producers, (\E m \in Msgs : PutCall(p, m)) \/ PutStep(p)
      PROVE  \A r \in Producers : Length(r)'
  BY <1>1, PutLength
<1>2. TypeOK /\ enq \in Nat
  BY DEF FInv, TypeOK
<1>3. ASSUME UNCHANGED <<config, enq, producer>>, \A r \in Producers : pc'[r] = pc[r]
      PROVE  \A r \in Producers : Length(r)'
  <2>1. enq' \in Nat /\ enq <= enq'
    BY <1>2, <1>3
  <2>2. UNCHANGED <<pos, total, padding, cur>>
    BY <1>3 DEF producer
  <2> QED  BY <1>2, <1>3, <2>1, <2>2, LengthOther
<1>4. ASSUME NEW c \in Consumers, GetCall(c) \/ GetStep(c) \/ Timeout(c)
      PROVE  \A r \in Producers : Length(r)'
  <2>1. UNCHANGED <<config, enq, producer>> /\ \E l : Goto(c, l)
    BY <1>4 DEF GetCall, GetStep, LoadCursors, Fresh, MarkerFound, MarkerTaken, MarkerMissing,
         FreshAgain, ClaimWins, ClaimLoses, ReadHeader, ReadNoHeader, Copy, Revalidate, Advance,
         GetEmpty, GetPark, Announce, Recheck, Timeout, Relock, Unpark, Look, LookOver, TurnOver,
         cursors
  <2>2. \A r \in Producers : pc'[r] = pc[r]
    BY <2>1, GetterMoves
  <2> QED  BY <1>3, <2>1, <2>2
<1>5. CASE KickConsumer \/ Close \/ CloseStep
  <2>1. UNCHANGED <<config, enq, producer>>
    BY <1>5 DEF KickConsumer, Close, CloseStep, CloseKick, CloseBroadcast, cursors
  <2>2. \A r \in Producers : r \in Threads /\ r \notin kick
    BY <1>2, ThreadAssumption DEF Threads, TypeOK
  <2>3. \A r \in Producers : pc'[r] = pc[r]
    BY <1>5, <2>2 DEF KickConsumer, Close, CloseStep, CloseKick, CloseBroadcast, WakeAll
  <2> QED  BY <1>3, <2>1, <2>3
<1>6. CASE UNCHANGED vars
  BY <1>3, <1>6 DEF vars, cursors
<1> QED  BY <1>1, <1>4, <1>5, <1>6 DEF Next

-----------------------------------------------------------------------------
(* The refinement *)

LEMMA QueueStarts == Init => QueueInv /\ Contract!Init
<1> SUFFICES ASSUME Init  PROVE QueueInv /\ Contract!Init
  OBVIOUS
<1>1. /\ enq = 0 /\ deq = 0 /\ closer = "open" /\ dropped = 0 /\ overwritten = 0 /\ delivered = <<>>
      /\ policy \in {Discard, Overwrite} /\ deq .. enq - 1 = {}
      /\ \A p \in Producers : pc[p] = "idle"
  BY DEF Init, Threads
<1>2. FInv
  BY FInvStarts
<1>3. \A p \in Producers : ~Fills(p) /\ Length(p)
  BY <1>1 DEF Fills, Length, Seeks, Own
<1>4. \A q, m : ~RecordAt(q, m) /\ ~PadAt(q, m)
  BY <1>1, <1>3 DEF RecordAt, Holds, Brings, PadAt
<1>5. WaitingAt = {} /\ Cardinality(WaitingAt) = 0
  <2>1. WaitingAt = {}
    BY <1>2, <1>4, WaitingHere DEF WaitingIs
  <2> QED  BY <2>1, FS_EmptySet
<1>6. QueueInv
  BY <1>3, <1>4, <1>5 DEF QueueInv, Ranked, PadsEnd
<1>7. Waiting = <<>>
  BY <1>2, <1>5, <1>6, WaitingHere, QueueFacts
<1> QED  BY <1>1, <1>6, <1>7 DEF Contract!Init, closed

(* Every step of the ring is one of the contract, or none.                 *)
LEMMA QueueKept ==
    ASSUME FInv, FInv', QueueInv, [Next]_vars
    PROVE  QueueInv' /\ ContractStep
<1>1. Ready
  <2>1. FInv => WaitingIs
    BY WaitingHere
  <2>2. FInv' => WaitingIs'
    BY WaitingHere, PTL
  <2> QED  BY <2>1, <2>2 DEF Ready
<1>2. \A p \in Producers : Length(p)'
  BY LengthKept DEF QueueInv
<1> SUFFICES Done
  BY <1>2 DEF Done, QueueInv
<1>3. ASSUME NEW p \in Producers, (\E m \in Msgs : PutCall(p, m)) \/ PutStep(p)
      PROVE  Done
  BY <1>1, <1>3, PutCallKeeps, PutKeeps, SpaceNoneKeeps, EvictCasKeeps, ReserveKeeps, FillKeeps
     DEF PutStep
<1>4. ASSUME NEW c \in Consumers, GetCall(c) \/ GetStep(c) \/ Timeout(c)
      PROVE  Done
  BY <1>1, <1>4, GetKeeps, AdvanceKeeps DEF GetStep
<1>5. CASE KickConsumer \/ Close \/ CloseStep
  <2>1. CASE KickConsumer \/ CloseStep
    BY <1>1, <2>1, WakesKeep
  <2>2. CASE Close
    BY <1>1, <2>2, CloseKeeps
  <2> QED  BY <1>5, <2>1, <2>2
<1>6. CASE UNCHANGED vars
  <2>1. UNCHANGED <<cursors, image, config, counters, closed, delivered, pc, producer>>
    BY <1>6 DEF vars, memory, history, closed
  <2>2. RangesSame
    BY <2>1 DEF RangesSame, Own, Fills, producer
  <2> QED  BY <1>1, <2>1, <2>2, Invisible
<1> QED  BY <1>3, <1>4, <1>5, <1>6 DEF Next

(* The lock-free ring implements the contract of ringbuf.h, in every build *)
(* mode and under both policies: records leave in the order in which their *)
(* ranges were reserved, each once and only by get or as the oldest under  *)
(* overwrite; refusals and evictions are counted; and the one refusal by   *)
(* an open ring without a record is that of a contended put whose length,  *)
(* or whose neighbour's pad, was extended for a reservation that was lost  *)
(* (hpu_ring_put, lf_overwrite_make_space, lf_advance_deq, hpu_ring_close).*)
(* It does as long as no consumer mistakes junk for a marker.              *)
THEOREM LockfreeKeepsContract == SafetySpec /\ NothingMistaken => ImplementsContract
<1>1. Init => QueueInv /\ Contract!Init
  BY QueueStarts
<1>2. FInv /\ FInv' /\ QueueInv /\ [Next]_vars
         => QueueInv' /\ [Contract!Next \/ RefuseExtended]_(Contract!vars)
  BY QueueKept DEF ContractStep, Steps
<1>3. SafetySpec /\ NothingMistaken => []FInv
  BY FInvAlways
<1> QED  BY <1>1, <1>2, <1>3, PTL DEF SafetySpec, ImplementsContract
=============================================================================
