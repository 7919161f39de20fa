-------------------------- MODULE FileOutputProofs --------------------------
(***************************************************************************)
(* Proofs about the rolling file: for any lines, buffer and limits, and    *)
(* however many calls fail, files are moved and processes die, lines stay  *)
(* accounted for and in order, synced ones survive, and the disk stays     *)
(* within its limits.                                                      *)
(***************************************************************************)
EXTENDS FileOutput, FiniteSetTheorems, SequenceTheorems, WellFoundedInduction, TLAPS

-----------------------------------------------------------------------------
(* Where an operation is *)

Flushing == pc \in {"flush", "reopen", "retry"}

(* The line of an emit is in the buffer, in a file, or in neither yet.     *)
Early ==
    \/ pc \in {"archive", "newfile", "prune", "check", "swap", "open", "append"}
    \/ Flushing /\ after \in {"archive", "swap", "append"}
Late == Flushing /\ after \in {"return", "fsync"}

CallOK ==
    /\ now \in Nat /\ faults \in Nat /\ crashes \in Nat
    /\ pc \in {"down", "idle"} <=> op = "none"
    /\ pc \in {"archive", "newfile", "prune", "check", "swap", "open", "append"} => op = "emit"
    /\ pc = "fsync" => op \in {"emit", "sync", "periodic"}
    /\ pc = "destroy" => op = "close"
    /\ Flushing => /\ op = "emit" => after \in {"archive", "swap", "append", "return", "fsync"}
                   /\ op = "flush" => after = "return"
                   /\ op \in {"sync", "periodic"} => after = "fsync"
                   /\ op = "close" => after = "destroy"
    /\ pc = "down" => fd = NoFile
    /\ pc \in {"down", "newfile", "prune", "swap", "fsync", "destroy"} => iobuf = <<>>
    /\ Flushing /\ pc # "flush" => iobuf # <<>>
    /\ pc = "retry" => fd # NoFile
    /\ pc = "reopen" => fd = NoFile
    /\ op = "emit" /\ Late => iobuf # <<>> /\ Last(iobuf) = line
    /\ op = "emit" => line \in Lines
    /\ op = "emit" /\ pc \in {"prune", "append", "fsync"} => fd # NoFile
    /\ op = "emit" /\ pc = "flush" /\ after = "append" => fd # NoFile
    /\ pc = "archive" => iobuf = <<>>
    /\ pc = "append" /\ Size[line] > BufSize => iobuf = <<>>

(* The files: nothing after the one that is written to, nor after the one  *)
(* at the path.                                                            *)
FilesOK ==
    /\ \A f \in Inodes : synced[f] <= Len(content[f])
    /\ \A f \in Inodes :
          (fd # NoFile /\ f > fd) \/ (active # NoFile /\ f > active) => content[f] = <<>>
    /\ fd # NoFile /\ active # NoFile => fd <= active
    /\ \A f \in Inodes : \A i \in DOMAIN content[f] : content[f][i] <= line

-----------------------------------------------------------------------------
(* Lines *)

Ascending(s) == \A i, j \in DOMAIN s : i < j => s[i] < s[j]

Reported(l) == l \in lost

BufferOK ==
    /\ Ascending(iobuf)
    /\ \A i \in DOMAIN iobuf : iobuf[i] <= line /\ ~Reported(iobuf[i])
    /\ \A i \in DOMAIN iobuf : pc \notin {"reopen", "retry"} => ~Written(iobuf[i])
    /\ \A i \in DOMAIN iobuf : \A m \in Lines \ (lost \cup Range(iobuf)) :
          Written(m) => m < iobuf[i]
    /\ op = "emit" /\ Early => line \notin Range(iobuf) /\ ~Written(line)
    /\ op = "emit" => line \notin lost

Accounted(l) == Written(l) \/ l \in Range(iobuf) \cup InHand \cup lost \cup gone

LinesOK ==
    /\ lost \cup gone \cup returned \subseteq 1 .. line
    /\ \A l \in 1 .. line : Accounted(l)
    /\ op = "emit" /\ pc = "fsync" => Written(line)
    /\ failed >= Cardinality(lost)

Comes(g, i, f, j) == g < f \/ (g = f /\ i < j)

(* A line that was written before a smaller one was written again after it.*)
Again(l, m, f, j) ==
    \E k \in DOMAIN content[f] : k > j /\ content[f][k] = m /\ (j <= synced[f] => k <= synced[f])

OrderOK ==
    \A f, g \in Inodes : \A j \in DOMAIN content[f], i \in DOMAIN content[g] :
        /\ Comes(g, i, f, j) /\ content[f][j] < content[g][i]
        /\ content[f][j] \notin lost /\ content[g][i] \notin lost
        => Again(content[f][j], content[g][i], f, j)

(* With fsync for every entry. *)
Durable(l) == \E f \in Inodes : \E i \in DOMAIN content[f] : i <= synced[f] /\ content[f][i] = l

(* Nothing is pending between the lines. *)
EntryPending ==
    /\ op = "emit" => line \notin gone
    /\ fsync_sev = "entry" =>
          /\ iobuf # <<>> => op = "emit" /\ Late /\ iobuf = <<line>>
          /\ op = "emit" /\ Late /\ after = "return" => Size[line] >= Threshold

(* The line whose fsync is due is in the open file. *)
Landed == op = "emit" /\ pc = "fsync" => line \in Range(content[fd])

EntryOK ==
    /\ EntryPending
    /\ Landed
    /\ fsync_sev = "entry" => \A l \in returned : Size[l] < Threshold => Durable(l) /\ l \notin gone

-----------------------------------------------------------------------------
(* Limits *)

(* Lines since the last look at the path, the one under way included.      *)
Unchecked ==
    \/ pc \in {"archive", "check"}
    \/ Flushing /\ op = "emit" /\ after = "archive"
Swapping == pc = "swap" \/ (Flushing /\ op = "emit" /\ after = "swap")

BehindOK ==
    /\ behind \subseteq 1 .. line
    /\ Cardinality(behind) <= CheckEvery
    /\ pc = "retry" => behind = {}
    /\ behind # {} /\ fd # NoFile =>
          /\ active \notin {NoFile, fd}
          /\ pc # "prune"
          /\ Swapping \/
             Cardinality(behind) <= lines_since_check + (IF Unchecked THEN 1 ELSE 0)
    /\ fd # NoFile /\ pc # "prune" => file_id = fd

(* The line to come is not yet counted, and the file is not too large.     *)
Roomy ==
    \/ pc \in {"check", "swap", "open", "append"}
    \/ Flushing /\ op = "emit" /\ after \in {"swap", "append"}

(* Without failed calls a file is followed to the byte. *)
Followed ==
    /\ fd = NoFile => pc \in {"down", "newfile"}
    /\ pc \notin {"reopen", "retry"}
    /\ fd # NoFile => file_size = Bytes(content[fd])
    /\ fd # NoFile /\ iobuf # <<>> => Bytes(content[fd]) + Bytes(Front(iobuf)) < MaxSize
    /\ pc = "newfile" /\ active # NoFile => content[active] = <<>>
    /\ pc = "prune" => content[fd] = <<>>
    /\ Roomy => file_size + Bytes(iobuf) < MaxSize
    /\ Swapping /\ fd # NoFile => active # fd

FileSmall(f) == content[f] # <<>> => Bytes(Front(content[f])) < MaxSize

SizeOK == faults = 0 => Followed /\ \A f \in Inodes : FileSmall(f)

ArchivesOK == IsFiniteSet(archives) /\ ArchivesBounded

FileInv == /\ TypeOK /\ CallOK /\ FilesOK /\ BufferOK /\ LinesOK /\ OrderOK /\ EntryOK
           /\ BehindOK /\ SizeOK /\ ArchivesOK

-----------------------------------------------------------------------------
(* Sequences and their bytes *)

LEMMA Numbers ==
    /\ LineCount \in Nat /\ \A l \in Lines : l \in Nat /\ Size[l] \in Nat /\ Size[l] >= 1
    /\ BufSize \in Nat /\ Threshold \in Nat /\ Threshold <= BufSize
    /\ CheckEvery \in Nat /\ MaxSize \in Nat /\ TimeUnit \in Nat
    /\ CheckEvery >= 1 /\ MaxSize >= 1 /\ TimeUnit >= 1
    /\ MaxFiles \in Nat /\ MaxNow \in Nat /\ NoFile \notin Nat
BY SizeAssumption, ParameterAssumption DEF Lines

Cells(s) == UNION {{i} \X (1 .. Size[s[i]]) : i \in DOMAIN s}

LEMMA CellsFinite ==
    ASSUME NEW s \in Seq(Lines)
    PROVE  IsFiniteSet(Cells(s)) /\ Bytes(s) \in Nat /\ Bytes(s) = Cardinality(Cells(s))
<1> DEFINE row(i) == {i} \X (1 .. Size[s[i]])
           rows == {row(i) : i \in DOMAIN s}
           f == [i \in DOMAIN s |-> row(i)]
<1>1. DOMAIN s = 1 .. Len(s) /\ Len(s) \in Nat /\ \A i \in DOMAIN s : s[i] \in Lines
  OBVIOUS
<1>2. IsFiniteSet(DOMAIN s)
  BY <1>1, FS_Interval
<1>3. f \in Surjection(DOMAIN s, rows)
  BY DEF Surjection
<1>4. IsFiniteSet(rows)
  BY <1>2, <1>3, FS_Surjection
<1>5. \A r \in rows : IsFiniteSet(r)
  <2> SUFFICES ASSUME NEW i \in DOMAIN s  PROVE IsFiniteSet(row(i))
    OBVIOUS
  <2>1. Size[s[i]] \in Nat
    BY <1>1, Numbers
  <2>2. IsFiniteSet(1 .. Size[s[i]])
    BY <2>1, FS_Interval
  <2>3. IsFiniteSet({i})
    BY FS_Singleton, Zenon
  <2> QED  BY <2>2, <2>3, FS_Product
<1>6. IsFiniteSet(UNION rows)
  BY <1>4, <1>5, FS_UNION
<1> QED  BY <1>6, FS_CardinalityType DEF Cells, Bytes

LEMMA BytesEmpty == Bytes(<<>>) = 0
<1>1. Cells(<<>>) = {}
  BY DEF Cells
<1> QED  BY <1>1, FS_EmptySet DEF Bytes, Cells

LEMMA BytesOne ==
    ASSUME NEW l \in Lines
    PROVE  Bytes(<<l>>) = Size[l]
<1>1. Cells(<<l>>) = {1} \X (1 .. Size[l])
  BY DEF Cells
<1>2. Size[l] \in Nat /\ Size[l] >= 1
  BY Numbers
<1>3. IsFiniteSet({1}) /\ Cardinality({1}) = 1
  BY FS_Singleton
<1>4. IsFiniteSet(1 .. Size[l]) /\ Cardinality(1 .. Size[l]) = Size[l]
  BY <1>2, FS_Interval
<1>5. Cardinality({1} \X (1 .. Size[l])) = Cardinality({1}) * Cardinality(1 .. Size[l])
  BY <1>3, <1>4, FS_Product, Zenon
<1>6. Bytes(<<l>>) = Cardinality(Cells(<<l>>))
  BY DEF Bytes, Cells
<1>7. Bytes(<<l>>) = 1 * Size[l]
  BY <1>1, <1>3, <1>4, <1>5, <1>6
<1> QED  BY <1>2, <1>7

(* The bytes of t behind n lines: as many as of t. *)
LEMMA CellsShift ==
    ASSUME NEW t \in Seq(Lines), NEW n \in Nat
    PROVE  LET shifted == UNION {{n + i} \X (1 .. Size[t[i]]) : i \in DOMAIN t}
           IN  IsFiniteSet(shifted) /\ Cardinality(shifted) = Bytes(t)
<1> DEFINE shifted == UNION {{n + i} \X (1 .. Size[t[i]]) : i \in DOMAIN t}
           f == [p \in Cells(t) |-> <<n + p[1], p[2]>>]
<1>1. DOMAIN t = 1 .. Len(t) /\ Len(t) \in Nat
  OBVIOUS
<1>2. \A p \in Cells(t) : p[1] \in Nat /\ p[1] \in DOMAIN t /\ p = <<p[1], p[2]>> /\ p[2] \in 1 .. Size[t[p[1]]]
  BY <1>1 DEF Cells
<1>3. f \in [Cells(t) -> shifted]
  BY <1>2
<1>4. \A p, q \in Cells(t) : f[p] = f[q] => p = q
  BY <1>2
<1>5. \A m \in shifted : \E p \in Cells(t) : f[p] = m
  <2> TAKE m \in shifted
  <2>1. PICK i \in DOMAIN t : m \in {n + i} \X (1 .. Size[t[i]])
    OBVIOUS
  <2>2. PICK b \in 1 .. Size[t[i]] : m = <<n + i, b>>
    BY <2>1
  <2>3. <<i, b>> \in Cells(t)
    BY DEF Cells
  <2> QED  BY <2>2, <2>3
<1> HIDE DEF f, shifted
<1>6. f \in Bijection(Cells(t), shifted)
  BY <1>3, <1>4, <1>5 DEF Bijection, Injection, Surjection, IsInjective
<1>7. ExistsBijection(Cells(t), shifted)
  BY <1>6 DEF ExistsBijection
<1> QED  BY <1>7, CellsFinite, FS_Bijection DEF shifted

LEMMA BytesConcat ==
    ASSUME NEW s \in Seq(Lines), NEW t \in Seq(Lines)
    PROVE  Bytes(s \o t) = Bytes(s) + Bytes(t)
<1> DEFINE shifted == UNION {{Len(s) + i} \X (1 .. Size[t[i]]) : i \in DOMAIN t}
<1>1. /\ DOMAIN s = 1 .. Len(s) /\ Len(s) \in Nat /\ DOMAIN t = 1 .. Len(t) /\ Len(t) \in Nat
      /\ DOMAIN (s \o t) = 1 .. Len(s) + Len(t)
      /\ \A i \in DOMAIN s : (s \o t)[i] = s[i]
      /\ \A i \in DOMAIN t : (s \o t)[Len(s) + i] = t[i]
  OBVIOUS
<1>2. \A i \in DOMAIN (s \o t) : i \in DOMAIN s \/ \E k \in DOMAIN t : i = Len(s) + k
  <2> SUFFICES ASSUME NEW i \in DOMAIN (s \o t), i \notin DOMAIN s
               PROVE  \E k \in DOMAIN t : i = Len(s) + k
    OBVIOUS
  <2>1. i - Len(s) \in DOMAIN t /\ i = Len(s) + (i - Len(s))
    BY <1>1
  <2> QED  BY <2>1
<1>3. Cells(s \o t) = Cells(s) \cup shifted
  <2>1. Cells(s \o t) \subseteq Cells(s) \cup shifted
    BY <1>1, <1>2 DEF Cells
  <2>2. Cells(s) \subseteq Cells(s \o t)
    BY <1>1 DEF Cells
  <2>3. shifted \subseteq Cells(s \o t)
    BY <1>1 DEF Cells
  <2> QED  BY <2>1, <2>2, <2>3
<1>4. Cells(s) \cap shifted = {}
  BY <1>1 DEF Cells
<1>5. IsFiniteSet(Cells(s)) /\ Bytes(s) \in Nat /\ Bytes(s) = Cardinality(Cells(s)) /\ Bytes(t) \in Nat
  BY CellsFinite
<1>6. IsFiniteSet(shifted) /\ Cardinality(shifted) = Bytes(t)
  BY <1>1, CellsShift
<1> HIDE DEF shifted
<1>7. Cardinality(Cells(s) \cup shifted) = Bytes(s) + Bytes(t)
  <2>1. Cardinality(Cells(s) \cup shifted)
            = Cardinality(Cells(s)) + Cardinality(shifted) - Cardinality(Cells(s) \cap shifted)
    BY <1>5, <1>6, FS_Union
  <2>2. Cardinality(Cells(s) \cap shifted) = 0
    BY <1>4, FS_EmptySet
  <2> QED  BY <1>5, <1>6, <2>1, <2>2
<1>8. s \o t \in Seq(Lines)
  OBVIOUS
<1> QED  BY <1>3, <1>7, <1>8, CellsFinite

LEMMA BytesAppend ==
    ASSUME NEW s \in Seq(Lines), NEW l \in Lines
    PROVE  Bytes(Append(s, l)) = Bytes(s) + Size[l]
<1>1. Append(s, l) = s \o <<l>> /\ <<l>> \in Seq(Lines)
  OBVIOUS
<1> QED  BY <1>1, BytesConcat, BytesOne

LEMMA BytesPrefix ==
    ASSUME NEW s \in Seq(Lines), NEW n \in 0 .. Len(s), NEW k \in 0 .. n
    PROVE  Bytes(SubSeq(s, 1, k)) <= Bytes(SubSeq(s, 1, n))
<1> DEFINE a == SubSeq(s, 1, k)
           b == SubSeq(s, k + 1, n)
<1>1. Len(s) \in Nat /\ a \in Seq(Lines) /\ b \in Seq(Lines) /\ a \o b = SubSeq(s, 1, n)
  <2>1. Len(s) \in Nat /\ \A i \in 1 .. n : s[i] \in Lines
    OBVIOUS
  <2>2. a \in Seq(Lines) /\ b \in Seq(Lines)
    BY <2>1, SubSeqProperties
  <2>3. a \o b = SubSeq(s, 1, n)
    BY <2>1, ConcatAdjacentSubSeq
  <2> QED  BY <2>1, <2>2, <2>3
<1>2. Bytes(a \o b) = Bytes(a) + Bytes(b)
  BY <1>1, BytesConcat
<1>3. Bytes(a) \in Nat /\ Bytes(b) \in Nat
  BY <1>1, CellsFinite
<1>4. Bytes(a) = Bytes(SubSeq(s, 1, k)) /\ Bytes(a \o b) = Bytes(SubSeq(s, 1, n))
  BY <1>1
<1> HIDE DEF a, b
<1> QED  BY <1>2, <1>3, <1>4

-----------------------------------------------------------------------------
(* What a step may do to the files *)

Keeps == UNCHANGED <<content, synced>>
Creates == content' = Append(content, <<>>) /\ synced' = Append(synced, 0)
Writes(s) == content' = [content EXCEPT ![fd] = @ \o s] /\ UNCHANGED synced
Syncs == UNCHANGED content /\ synced' = [synced EXCEPT ![fd] = Len(content[fd])]
Cuts == content' = [f \in Inodes |-> SubSeq(content[f], 1, synced[f])] /\ UNCHANGED synced

FilesTyped ==
    /\ content \in Seq(Seq(Lines)) /\ synced \in Seq(Nat) /\ Len(synced) = Len(content)

LEMMA FileTypes ==
    ASSUME FilesTyped
    PROVE  /\ Len(content) \in Nat /\ Inodes = 1 .. Len(content) /\ NoFile \notin Inodes
           /\ \A f \in Inodes :
                 /\ f \in Nat /\ content[f] \in Seq(Lines) /\ synced[f] \in Nat
                 /\ Len(content[f]) \in Nat /\ DOMAIN content[f] = 1 .. Len(content[f])
                 /\ \A i \in DOMAIN content[f] : i \in Nat /\ content[f][i] \in Lines
<1>1. Len(content) \in Nat /\ Inodes = 1 .. Len(content) /\ NoFile \notin Inodes
  BY Numbers DEF FilesTyped, Inodes
<1>2. \A f \in Inodes : f \in Nat /\ content[f] \in Seq(Lines) /\ synced[f] \in Nat
  BY <1>1 DEF FilesTyped
<1> QED  BY <1>1, <1>2

LEMMA Written_ ==
    ASSUME FilesTyped, NEW l
    PROVE  Written(l) <=> \E f \in Inodes : \E i \in DOMAIN content[f] : content[f][i] = l
BY DEF Written, Range

LEMMA Created ==
    ASSUME FilesTyped, Creates
    PROVE  /\ FilesTyped' /\ Len(content)' = Len(content) + 1
           /\ \A f \in Inodes : f \in Inodes' /\ content'[f] = content[f] /\ synced'[f] = synced[f]
           /\ Len(content) + 1 \in Inodes' /\ Len(content) + 1 \notin Inodes
           /\ content'[Len(content) + 1] = <<>> /\ synced'[Len(content) + 1] = 0
           /\ \A f \in Inodes' : f \in Inodes \/ f = Len(content) + 1
           /\ \A l : Written(l)' <=> Written(l)
<1>1. <<>> \in Seq(Lines) /\ 0 \in Nat /\ Len(content) \in Nat
  BY FileTypes
<1>2. /\ content' \in Seq(Seq(Lines)) /\ Len(content') = Len(content) + 1
      /\ \A f \in 1 .. Len(content) : content'[f] = content[f]
      /\ content'[Len(content) + 1] = <<>>
  BY <1>1, AppendProperties DEF FilesTyped, Creates
<1>3. /\ synced' \in Seq(Nat) /\ Len(synced') = Len(content) + 1
      /\ \A f \in 1 .. Len(content) : synced'[f] = synced[f]
      /\ synced'[Len(content) + 1] = 0
  BY <1>1, AppendProperties DEF FilesTyped, Creates
<1>4. /\ Inodes = 1 .. Len(content) /\ Inodes' = 1 .. Len(content) + 1
      /\ \A f \in Inodes' : f \in Inodes \/ f = Len(content) + 1
  BY <1>1, <1>2 DEF Inodes
<1>5. Range(<<>>) = {}
  BY DEF Range
<1>6. \A l : Written(l)' <=> Written(l)
  BY <1>2, <1>4, <1>5 DEF Written
<1> QED  BY <1>1, <1>2, <1>3, <1>4, <1>6 DEF FilesTyped

LEMMA Wrote ==
    ASSUME FilesTyped, fd \in Inodes, NEW s \in Seq(Lines), Writes(s)
    PROVE  /\ FilesTyped' /\ Inodes' = Inodes /\ Len(content)' = Len(content)
           /\ content'[fd] = content[fd] \o s /\ synced' = synced
           /\ \A f \in Inodes : f # fd => content'[f] = content[f]
           /\ Len(content'[fd]) = Len(content[fd]) + Len(s)
           /\ DOMAIN content'[fd] = 1 .. Len(content[fd]) + Len(s)
           /\ \A i \in DOMAIN content[fd] : content'[fd][i] = content[fd][i]
           /\ \A i \in DOMAIN s : /\ Len(content[fd]) + i \in DOMAIN content'[fd]
                                  /\ content'[fd][Len(content[fd]) + i] = s[i]
           /\ \A i \in DOMAIN content'[fd] : i \notin DOMAIN content[fd] =>
                 i - Len(content[fd]) \in DOMAIN s /\ content'[fd][i] = s[i - Len(content[fd])]
           /\ \A l : Written(l)' <=> Written(l) \/ l \in Range(s)
<1> DEFINE c == content[fd]
           u == c \o s
<1>1. c \in Seq(Lines) /\ Len(content) \in Nat /\ Inodes = 1 .. Len(content)
  BY FileTypes
<1>2. /\ u \in Seq(Lines) /\ Len(u) = Len(c) + Len(s) /\ Len(c) \in Nat /\ Len(s) \in Nat
      /\ DOMAIN c = 1 .. Len(c) /\ DOMAIN s = 1 .. Len(s) /\ DOMAIN u = 1 .. Len(c) + Len(s)
      /\ \A i \in 1 .. Len(c) : u[i] = c[i]
      /\ \A i \in 1 .. Len(s) : u[Len(c) + i] = s[i]
      /\ \A i \in DOMAIN u : i \notin DOMAIN c => i - Len(c) \in DOMAIN s /\ u[i] = s[i - Len(c)]
  BY <1>1
<1> HIDE DEF u
<1>3. /\ content' \in Seq(Seq(Lines)) /\ Len(content') = Len(content)
      /\ content'[fd] = u /\ \A f \in Inodes : f # fd => content'[f] = content[f]
  <2>1. content' = [content EXCEPT ![fd] = u] /\ content \in Seq(Seq(Lines))
    BY DEF Writes, u, FilesTyped
  <2> QED  BY <1>1, <1>2, <2>1, ExceptSeq
<1>4. FilesTyped' /\ Inodes' = Inodes
  BY <1>1, <1>3 DEF FilesTyped, Inodes, Writes
<1>5. \A l : Written(l)' <=> Written(l) \/ l \in Range(s)
  <2>1. Range(u) = Range(c) \cup Range(s)
    <3>1. Range(u) \subseteq Range(c) \cup Range(s)
      BY <1>2 DEF Range
    <3>2. Range(c) \subseteq Range(u)
      BY <1>2 DEF Range
    <3>3. Range(s) \subseteq Range(u)
      <4> SUFFICES ASSUME NEW i \in DOMAIN s  PROVE s[i] \in Range(u)
        BY DEF Range
      <4>1. Len(c) + i \in DOMAIN u /\ u[Len(c) + i] = s[i]
        BY <1>2
      <4> QED  BY <4>1 DEF Range
    <3> QED  BY <3>1, <3>2, <3>3
  <2> QED  BY <1>3, <1>4, <2>1 DEF Written
<1>6. synced' = synced
  BY DEF Writes
<1> HIDE DEF c
<1>7. \A i \in DOMAIN s : Len(c) + i \in DOMAIN u /\ u[Len(c) + i] = s[i]
  BY <1>2
<1> QED  BY <1>2, <1>3, <1>4, <1>5, <1>6, <1>7 DEF c, u

LEMMA Cut ==
    ASSUME FilesTyped, \A f \in Inodes : synced[f] <= Len(content[f]), Cuts
    PROVE  /\ FilesTyped' /\ Inodes' = Inodes /\ Len(content)' = Len(content) /\ synced' = synced
           /\ \A f \in Inodes :
                 /\ content'[f] = SubSeq(content[f], 1, synced[f])
                 /\ DOMAIN content'[f] = 1 .. synced[f] /\ Len(content'[f]) = synced[f]
                 /\ \A i \in 1 .. synced[f] : i \in DOMAIN content[f] /\ content'[f][i] = content[f][i]
<1>1. /\ Len(content) \in Nat /\ Inodes = 1 .. Len(content)
  BY FileTypes
<1>2. ASSUME NEW f \in Inodes
      PROVE  /\ content'[f] = SubSeq(content[f], 1, synced[f])
             /\ SubSeq(content[f], 1, synced[f]) \in Seq(Lines)
             /\ DOMAIN content'[f] = 1 .. synced[f] /\ Len(content'[f]) = synced[f]
             /\ \A i \in 1 .. synced[f] : i \in DOMAIN content[f] /\ content'[f][i] = content[f][i]
  <2> DEFINE c == content[f]
             n == synced[f]
             u == SubSeq(c, 1, n)
  <2>1. c \in Seq(Lines) /\ n \in Nat /\ n <= Len(c)
    BY FileTypes
  <2>2. /\ u \in Seq(Lines) /\ Len(u) = n /\ DOMAIN u = 1 .. n
        /\ \A i \in 1 .. n : i \in DOMAIN c /\ u[i] = c[i]
    BY <2>1
  <2>3. content'[f] = u
    BY DEF Cuts
  <2> QED  BY <2>2, <2>3
<1>3. content' \in Seq(Seq(Lines)) /\ Len(content') = Len(content)
  <2>1. content' \in [1 .. Len(content) -> Seq(Lines)]
    BY <1>1, <1>2 DEF Cuts
  <2> QED  BY <1>1, <2>1
<1> QED  BY <1>1, <1>2, <1>3 DEF FilesTyped, Inodes, Cuts

-----------------------------------------------------------------------------
(* Numbers and names *)

LEMMA LeastNumber ==
    ASSUME NEW S \in SUBSET Nat, S # {}
    PROVE  \E i \in S : \A j \in S : i <= j
<1>1. PICK i \in S : \A j \in S : ~(<<j, i>> \in OpToRel(<, Nat))
  BY WFMin, NatLessThanWellFounded, Zenon
<1>2. \A j \in S : i <= j
  <2> SUFFICES ASSUME NEW j \in S  PROVE ~(j < i)
    OBVIOUS
  <2>1. <<j, i>> \in Nat \X Nat
    OBVIOUS
  <2>2. <<j, i>>[1] = j /\ <<j, i>>[2] = i
    OBVIOUS
  <2>3. <<j, i>> \in OpToRel(<, Nat) <=> (<<j, i>> \in Nat \X Nat /\ <<j, i>>[1] < <<j, i>>[2])
    BY Zenon DEF OpToRel
  <2> QED  BY <1>1, <2>1, <2>2, <2>3
<1> QED  BY <1>2

LEMMA GreatestNumber ==
    ASSUME NEW n \in Nat, NEW S \in SUBSET (0 .. n), S # {}
    PROVE  \E i \in S : \A j \in S : j <= i
<1> DEFINE R == {n - i : i \in S}
<1>1. R \in SUBSET Nat /\ R # {}
  <2>1. \A i \in S : n - i \in Nat
    OBVIOUS
  <2>2. PICK i \in S : TRUE
    OBVIOUS
  <2>3. n - i \in R
    OBVIOUS
  <2> QED  BY <2>1, <2>3
<1>2. PICK r \in R : \A q \in R : r <= q
  BY <1>1, LeastNumber
<1>3. PICK i \in S : r = n - i
  OBVIOUS
<1>4. ASSUME NEW j \in S  PROVE j <= i
  <2>1. r <= n - j
    BY <1>2
  <2> QED  BY <1>3, <2>1
<1> QED  BY <1>4

ArchiveNames == [ts : Nat, index : Nat]

(* One archive more than there are indexes below has no place there. *)
LEMMA FreeIndexExists ==
    ASSUME IsFiniteSet(archives), archives \subseteq ArchiveNames, NEW t \in Nat
    PROVE  /\ FreeIndex(t) \in Nat
           /\ [ts |-> t, index |-> FreeIndex(t)] \in ArchiveNames \ archives
<1> DEFINE n == Cardinality(archives)
           used(i) == \E a \in archives : a.ts = t /\ a.index = i
           free == {i \in 1 .. n + 1 : ~used(i)}
<1>1. n \in Nat
  BY FS_CardinalityType
<1>2. free # {}
  <2> SUFFICES ASSUME \A i \in 1 .. n + 1 : used(i)  PROVE FALSE
    OBVIOUS
  <2> DEFINE f == [i \in 1 .. n + 1 |-> CHOOSE a \in archives : a.ts = t /\ a.index = i]
  <2>2. \A i \in 1 .. n + 1 : f[i] \in archives /\ f[i].index = i
    <3> TAKE i \in 1 .. n + 1
    <3>1. \E a \in archives : a.ts = t /\ a.index = i
      OBVIOUS
    <3>2. f[i] = CHOOSE a \in archives : a.ts = t /\ a.index = i
      OBVIOUS
    <3> QED  BY <3>1, <3>2, Zenon
  <2>3. f \in Injection(1 .. n + 1, archives)
    BY <2>2 DEF Injection, IsInjective
  <2>4. IsFiniteSet(1 .. n + 1) /\ Cardinality(1 .. n + 1) = n + 1
    BY <1>1, FS_Interval
  <2> HIDE DEF f
  <2>5. Cardinality(1 .. n + 1) <= n
    BY <2>3, FS_Injection
  <2> QED  BY <1>1, <2>4, <2>5
<1>3. PICK i \in free : \A j \in free : i <= j
  <2>1. free \in SUBSET Nat
    BY <1>1
  <2> HIDE DEF free
  <2> QED  BY <1>2, <2>1, LeastNumber
<1>4. \A j \in 1 .. i - 1 : used(j)
  BY <1>1, <1>3
<1>5. FreeIndex(t) \in 1 .. n + 1 /\ ~used(FreeIndex(t))
  BY <1>3, <1>4 DEF FreeIndex
<1> QED  BY <1>1, <1>5 DEF ArchiveNames

-----------------------------------------------------------------------------
(* Types *)

LEMMA Boundary ==
    ASSUME NEW t \in Nat
    PROVE  hpu_rotate_next_boundary(t) \in Nat
<1>1. t \div TimeUnit \in Nat
  BY Numbers
<1> QED  BY <1>1, Numbers DEF hpu_rotate_next_boundary

LEMMA Opened ==
    ASSUME TypeOK, OpenPath
    PROVE  /\ FilesTyped' /\ fd' \in Inodes' /\ fd' # NoFile /\ active' = fd'
           /\ Inodes \subseteq Inodes' /\ archives' = archives /\ behind' = {}
           /\ active = NoFile => Creates /\ fd' = Len(content) + 1 /\ file_size' = 0
           /\ active # NoFile => Keeps /\ fd' = active /\ file_size' = Bytes(content[active])
           /\ file_size' \in Nat
<1>1. FilesTyped /\ Len(content) \in Nat
  BY FileTypes DEF TypeOK, FilesTyped
<1>2. CASE active = NoFile
  <2>1. Creates /\ fd' = Len(content) + 1 /\ file_size' = 0 /\ active' = fd'
        /\ archives' = archives /\ behind' = {}
    BY <1>2 DEF OpenPath, Creates
  <2> QED  BY <1>1, <1>2, <2>1, Created, Numbers
<1>3. CASE active # NoFile
  <2>1. Keeps /\ fd' = active /\ file_size' = Bytes(content[active]) /\ active' = fd'
        /\ archives' = archives /\ behind' = {}
    BY <1>3 DEF OpenPath, Keeps
  <2>2. active \in Inodes
    BY <1>3 DEF TypeOK
  <2>3. Bytes(content[active]) \in Nat
    BY <1>1, <2>2, FileTypes, CellsFinite
  <2>4. FilesTyped' /\ Inodes' = Inodes
    BY <1>1, <2>1 DEF FilesTyped, Keeps, Inodes
  <2> QED  BY <1>1, <1>3, <2>1, <2>2, <2>3, <2>4, FileTypes
<1> QED  BY <1>2, <1>3

(* The parts of TypeOK. *)
NamesTyped ==
    /\ pc \in {"down", "idle", "flush", "reopen", "retry", "archive", "newfile", "prune",
               "check", "swap", "open", "append", "fsync", "destroy"}
    /\ op \in {"none", "emit", "flush", "sync", "periodic", "close"}
    /\ after \in {"none", "archive", "swap", "append", "return", "fsync", "destroy"}

RefsTyped ==
    /\ active \in Inodes \cup {NoFile} /\ fd \in Inodes \cup {NoFile}
    /\ file_id \in Inodes \cup {NoFile}

CountersTyped ==
    /\ fsync_sev \in Severities
    /\ iobuf \in Seq(Lines) /\ file_size \in Nat /\ next_boundary \in Nat
    /\ lines_since_check \in 0 .. CheckEvery - 1
    /\ line \in 0 .. LineCount /\ stamp \in Nat

SetsTyped ==
    /\ archives \subseteq ArchiveNames /\ latest \in ArchiveNames
    /\ failed \in Nat
    /\ lost \subseteq Lines /\ gone \subseteq Lines /\ returned \subseteq Lines
    /\ behind \subseteq Lines

LEMMA TypeParts ==
    TypeOK <=> FilesTyped /\ NamesTyped /\ RefsTyped /\ CountersTyped /\ SetsTyped
BY DEF TypeOK, FilesTyped, NamesTyped, RefsTyped, CountersTyped, SetsTyped, ArchiveNames

LEMMA NamesStep ==
    ASSUME NamesTyped, CallOK, Next
    PROVE  NamesTyped'
<1> USE DEF NamesTyped
<1>1. ASSUME NEW t \in 0 .. MaxNow, Emit(t)  PROVE NamesTyped'
  BY <1>1 DEF Emit
<1>2. CASE Flush \/ Sync \/ Periodic \/ Close
  BY <1>2 DEF Flush, Sync, Periodic, Close, Operation
<1>3. CASE FlushNothing \/ FlushWrite \/ FlushRetry
  <2>1. At("flush") \/ At("retry")
    BY <1>3 DEF FlushNothing, FlushWrite, FlushRetry
  <2>2. after \in {"archive", "swap", "append", "return", "fsync", "destroy"}
    BY <2>1 DEF CallOK, Flushing, At
  <2> QED  BY <1>3, <2>2 DEF FlushNothing, FlushWrite, FlushRetry, Flushed, FlushReturns, EmitReturns, Unlock, Rest, GoTo
<1>4. CASE FlushFails \/ FlushReopen \/ FlushReopenFails \/ FlushRetryFails
  BY <1>4 DEF FlushFails, FlushReopen, FlushReopenFails, FlushRetryFails, LosePending, Unlock, Rest, GoTo
<1>5. CASE RotateStep
  BY <1>5 DEF RotateStep, Archive, NewFile, NewFileFails, Prune, EmitFails, Unlock, Rest, GoTo
<1>6. CASE EmitStep
  BY <1>6 DEF EmitStep, Check, Swap, SwapFails, IsOpen, Open, OpenFails, WriteBig, WriteBigFails, Buffer,
              Fsync, FsyncFails, MakeRoom, EmitFails, EmitReturns, Unlock, Rest, GoTo, FlushThen
<1>7. CASE Destroy \/ Start \/ Environment
  BY <1>7 DEF Destroy, Start, Environment, Crash, ExternalMove, ExternalCreate, Tick, Rest, Unlock, call
<1> QED  BY <1>1, <1>2, <1>3, <1>4, <1>5, <1>6, <1>7 DEF Next, Call, FlushStep

LEMMA CountersStep ==
    ASSUME TypeOK, CallOK, Next
    PROVE  CountersTyped'
<1> SUFFICES ASSUME CountersTyped, FilesTyped, RefsTyped
             PROVE  CountersTyped'
  BY TypeParts
<1> USE DEF CountersTyped
<1>0. <<>> \in Seq(Lines)
  OBVIOUS
<1>1. ASSUME NEW t \in 0 .. MaxNow, Emit(t)  PROVE CountersTyped'
  BY <1>1, Numbers DEF Emit, priv
<1>2. CASE Flush \/ Sync \/ Periodic \/ Close \/ FlushNothing
  BY <1>2 DEF Flush, Sync, Periodic, Close, Operation, FlushNothing, priv
<1>3. CASE FlushWrite \/ FlushRetry
  <2>1. Bytes(iobuf) \in Nat
    BY CellsFinite
  <2>2. /\ file_size' = file_size + Bytes(iobuf) /\ iobuf' = <<>>
        /\ UNCHANGED <<fsync_sev, next_boundary, lines_since_check, line, stamp>>
    BY <1>3 DEF FlushWrite, FlushRetry, Flushed
  <2>3. file_size' \in Nat
    BY <2>1, <2>2
  <2> QED  BY <1>0, <2>2, <2>3
<1>4. CASE FlushFails \/ FlushReopenFails \/ FlushRetryFails
  BY <1>0, <1>4 DEF FlushFails, FlushReopenFails, FlushRetryFails, LosePending
<1>5. CASE FlushReopen \/ NewFile \/ Swap \/ Open
  <2>1. OpenPath /\ lines_since_check' \in {lines_since_check, 0}
    BY <1>5 DEF FlushReopen, NewFile, Swap, Open, OpenActive, RefreshId
  <2> QED  BY <1>5, <2>1, Opened, Numbers DEF FlushReopen, NewFile, Swap, Open
<1>6. CASE Start
  <2>1. OpenPath /\ lines_since_check' = 0 /\ next_boundary' \in Nat
    BY <1>6, Boundary DEF Start, OpenActive, RefreshId, CallOK
  <2> QED  BY <1>0, <1>6, <2>1, Opened, Numbers DEF Start
<1>7. CASE Archive \/ NewFileFails \/ SwapFails \/ OpenFails \/ WriteBigFails \/ FsyncFails
  BY <1>7 DEF Archive, NewFileFails, SwapFails, OpenFails, WriteBigFails, FsyncFails, priv
<1>8. CASE Prune
  BY <1>8, Boundary, Numbers DEF Prune, RefreshId
<1>9. CASE Check \/ IsOpen \/ Fsync
  BY <1>9, Numbers DEF Check, IsOpen, Fsync, priv
<1>10. CASE WriteBig \/ Buffer
  <2>1. line \in Lines /\ Size[line] \in Nat
    BY <1>10, Numbers DEF WriteBig, Buffer, At, CallOK
  <2>2. Append(iobuf, line) \in Seq(Lines)
    BY <2>1
  <2>3. file_size' \in Nat /\ iobuf' \in Seq(Lines)
    <3>1. CASE WriteBig
      <4>1. file_size' = file_size + Size[line] /\ iobuf' = iobuf
        BY <3>1 DEF WriteBig
      <4> QED  BY <2>1, <4>1
    <3>2. CASE Buffer
      BY <2>2, <3>2 DEF Buffer
    <3> QED  BY <1>10, <3>1, <3>2
  <2>4. UNCHANGED <<fsync_sev, next_boundary, lines_since_check, line, stamp>>
    BY <1>10 DEF WriteBig, Buffer
  <2> QED  BY <2>3, <2>4
<1>11. CASE Crash \/ Destroy \/ ExternalMove \/ ExternalCreate \/ Tick
  BY <1>0, <1>11 DEF Crash, Destroy, ExternalMove, ExternalCreate, Tick, priv, call
<1> QED  BY <1>1, <1>2, <1>3, <1>4, <1>5, <1>6, <1>7, <1>8, <1>9, <1>10, <1>11
         DEF Next, Call, FlushStep, RotateStep, EmitStep, Environment

(* What each step does to the files. *)
LEMMA FilesStep ==
    ASSUME TypeOK, CallOK, \A f \in Inodes : synced[f] <= Len(content[f]), Next
    PROVE  FilesTyped' /\ Inodes \subseteq Inodes'
<1>1. FilesTyped /\ RefsTyped /\ iobuf \in Seq(Lines)
  BY TypeParts DEF CountersTyped
<1>2. CASE Keeps
  BY <1>1, <1>2 DEF Keeps, FilesTyped, Inodes
<1>3. CASE Creates
  BY <1>1, <1>3, Created
<1>4. ASSUME fd # NoFile, NEW s \in Seq(Lines), Writes(s)
      PROVE  FilesTyped' /\ Inodes \subseteq Inodes'
  <2>1. fd \in Inodes
    BY <1>1, <1>4 DEF RefsTyped
  <2> QED  BY <1>1, <1>4, <2>1, Wrote
<1>5. CASE fd # NoFile /\ Syncs
  <2>1. fd \in Inodes /\ Len(content[fd]) \in Nat
    BY <1>1, <1>5, FileTypes DEF RefsTyped
  <2>2. synced' \in Seq(Nat) /\ Len(synced') = Len(synced)
    BY <1>1, <1>5, <2>1, ExceptSeq DEF Syncs, FilesTyped, Inodes
  <2> QED  BY <1>1, <1>5, <2>2 DEF Syncs, FilesTyped, Inodes
<1>6. CASE Cuts
  BY <1>1, <1>6, Cut
<1>7. ASSUME NEW t \in 0 .. MaxNow, Emit(t)  PROVE Keeps
  BY <1>7 DEF Keeps, Emit, disk
<1>8. CASE Flush \/ Sync \/ Periodic \/ Close \/ FlushNothing \/ FlushReopenFails
  <2>1. Keeps
    BY <1>8 DEF Keeps, Flush, Sync, Periodic, Close, Operation, FlushNothing, FlushReopenFails, disk
  <2> QED  BY <1>2, <2>1
<1>9. CASE FlushWrite \/ FlushRetry
  <2>1. fd # NoFile /\ Writes(iobuf)
    BY <1>9 DEF CallOK, At, FlushWrite, FlushRetry, Flushed, WriteLines, Writes
  <2> QED  BY <1>1, <1>4, <2>1
<1>10. CASE FlushFails \/ FlushRetryFails
  <2>1. CASE UNCHANGED disk
    BY <1>2, <2>1 DEF disk, Keeps
  <2>2. ASSUME fd # NoFile, NEW n \in 0 .. Len(iobuf) - 1, WriteLines(SubSeq(iobuf, 1, n))
        PROVE  FilesTyped' /\ Inodes \subseteq Inodes'
    <3>1. SubSeq(iobuf, 1, n) \in Seq(Lines)
      BY <1>1
    <3>2. Writes(SubSeq(iobuf, 1, n))
      BY <2>2 DEF Writes, WriteLines
    <3> QED  BY <1>4, <2>2, <3>1, <3>2
  <2> QED  BY <1>10, <2>1, <2>2 DEF FlushFails, FlushRetryFails, WriteFails
<1>11. CASE FlushReopen \/ NewFile \/ Swap \/ Open \/ Start
  <2>1. OpenPath
    BY <1>11 DEF FlushReopen, NewFile, Swap, Open, Start, OpenActive
  <2> QED  BY <1>2, <1>3, <2>1, Opened
<1>12. CASE Archive \/ Prune \/ NewFileFails \/ SwapFails \/ OpenFails \/ WriteBigFails \/ FsyncFails
  <2>1. Keeps
    BY <1>12 DEF Keeps, Archive, Prune, NewFileFails, SwapFails, OpenFails, WriteBigFails, FsyncFails, disk
  <2> QED  BY <1>2, <2>1
<1>13. CASE Check \/ IsOpen \/ Buffer \/ Destroy \/ ExternalMove \/ Tick
  <2>1. Keeps
    BY <1>13 DEF Keeps, Check, IsOpen, Buffer, Destroy, ExternalMove, Tick, disk
  <2> QED  BY <1>2, <2>1
<1>14. CASE WriteBig
  <2>1. fd # NoFile /\ Writes(<<line>>) /\ line \in Lines
    BY <1>14 DEF CallOK, At, WriteBig, WriteLines, Writes
  <2>2. <<line>> \in Seq(Lines)
    BY <2>1
  <2> QED  BY <1>4, <2>1, <2>2
<1>15. CASE Fsync
  BY <1>2, <1>5, <1>15 DEF Fsync, Keeps, Syncs
<1>16. CASE Crash \/ ExternalCreate
  BY <1>2, <1>3, <1>6, <1>16 DEF Crash, ExternalCreate, Keeps, Creates, Cuts
<1> QED  BY <1>2, <1>7, <1>8, <1>9, <1>10, <1>11, <1>12, <1>13, <1>14, <1>15, <1>16
         DEF Next, Call, FlushStep, RotateStep, EmitStep, Environment

LEMMA RefsStep ==
    ASSUME TypeOK, CallOK, Inodes \subseteq Inodes', Next
    PROVE  RefsTyped'
<1>1. RefsTyped
  BY TypeParts
<1>2. CASE active' \in {active, NoFile} /\ fd' \in {fd, NoFile} /\ file_id' = file_id
  BY <1>1, <1>2 DEF RefsTyped
<1>3. CASE OpenPath /\ file_id' \in {file_id, fd'}
  BY <1>1, <1>3, Opened DEF RefsTyped
<1>4. ASSUME NEW t \in 0 .. MaxNow, Emit(t)  PROVE RefsTyped'
  BY <1>2, <1>4 DEF Emit, disk, priv
<1>5. CASE Flush \/ Sync \/ Periodic \/ Close \/ FlushNothing \/ FlushReopenFails
  BY <1>2, <1>5 DEF Flush, Sync, Periodic, Close, Operation, FlushNothing, FlushReopenFails, disk, priv
<1>6. CASE FlushWrite \/ FlushRetry \/ FlushFails \/ FlushRetryFails
  BY <1>2, <1>6 DEF FlushWrite, FlushRetry, Flushed, FlushFails, FlushRetryFails, WriteFails, WriteLines, disk
<1>7. CASE FlushReopen \/ NewFile \/ Swap \/ Open \/ Start
  BY <1>3, <1>7 DEF FlushReopen, NewFile, Swap, Open, Start, OpenActive, RefreshId
<1>8. CASE Archive \/ NewFileFails \/ SwapFails \/ OpenFails \/ WriteBigFails \/ FsyncFails
  BY <1>2, <1>8 DEF Archive, NewFileFails, SwapFails, OpenFails, WriteBigFails, FsyncFails, disk, priv
<1>9. CASE Prune
  BY <1>1, <1>9 DEF RefsTyped, Prune, RefreshId
<1>10. CASE Check \/ IsOpen \/ Buffer \/ WriteBig \/ Fsync \/ Destroy
  BY <1>2, <1>10 DEF Check, IsOpen, Buffer, WriteBig, WriteLines, Fsync, Destroy, disk, priv
<1>11. CASE Crash \/ ExternalMove \/ Tick
  BY <1>2, <1>11 DEF Crash, ExternalMove, Tick, disk, priv
<1>12. CASE ExternalCreate
  <2>1. Len(content) + 1 \in Inodes'
    BY <1>12, Created, TypeParts DEF ExternalCreate, Creates
  <2> QED  BY <1>1, <1>12, <2>1 DEF RefsTyped, ExternalCreate, priv
<1> QED  BY <1>4, <1>5, <1>6, <1>7, <1>8, <1>9, <1>10, <1>11, <1>12
         DEF Next, Call, FlushStep, RotateStep, EmitStep, Environment

LEMMA SetsStep ==
    ASSUME TypeOK, CallOK, IsFiniteSet(archives), Next
    PROVE  SetsTyped' /\ IsFiniteSet(archives)'
<1> DEFINE Same == UNCHANGED <<archives, latest>>
           Lists == /\ lost' \subseteq Lines /\ gone' \subseteq Lines /\ returned' \subseteq Lines
                    /\ behind' \subseteq Lines /\ failed' \in Nat
<1>1. SetsTyped /\ line \in 0 .. LineCount /\ LineCount \in Nat
  BY TypeParts, Numbers DEF CountersTyped
<1>2. ASSUME Same, Lists  PROVE SetsTyped' /\ IsFiniteSet(archives)'
  BY <1>1, <1>2 DEF SetsTyped
<1>3. ASSUME Same, UNCHANGED <<failed, lost, gone, returned, behind>>  PROVE SetsTyped' /\ IsFiniteSet(archives)'
  BY <1>1, <1>3 DEF SetsTyped
<1>4. ASSUME Same, UNCHANGED <<gone, behind>>, line \in Lines, failed' \in Nat,
             lost' \in {lost, lost \cup {line}}, returned' \in {returned, returned \cup {line}}
      PROVE  SetsTyped' /\ IsFiniteSet(archives)'
  BY <1>1, <1>4 DEF SetsTyped
<1> HIDE DEF Lists
<1>5. ASSUME NEW t \in 0 .. MaxNow, Emit(t)  PROVE SetsTyped' /\ IsFiniteSet(archives)'
  <2>1. line + 1 \in Lines
    BY <1>1, <1>5 DEF Emit, Lines
  <2>2. Same
    BY <1>5 DEF Emit, disk
  <2>3. UNCHANGED <<failed, lost, gone, returned>> /\ behind' \in {behind, behind \cup {line + 1}}
    BY <1>5 DEF Emit
  <2> QED  BY <1>1, <1>2, <2>1, <2>2, <2>3 DEF SetsTyped, Lists
<1>6. CASE Flush \/ Sync \/ Periodic \/ Close \/ FlushNothing
  BY <1>3, <1>6 DEF Flush, Sync, Periodic, Close, Operation, FlushNothing, disk, hist
<1>7. CASE FlushWrite \/ FlushRetry
  <2>1. Same /\ UNCHANGED <<failed, lost, gone, behind>>
    BY <1>7 DEF FlushWrite, FlushRetry, Flushed, WriteLines
  <2>2. returned' = returned \/ (op = "emit" /\ returned' = returned \cup {line})
    BY <1>7 DEF FlushWrite, FlushRetry, Flushed, FlushReturns, EmitReturns
  <2>3. op = "emit" => line \in Lines
    BY DEF CallOK
  <2> QED  BY <1>1, <1>2, <2>1, <2>2, <2>3 DEF SetsTyped, Lists
<1>8. CASE FlushReopenFails \/ FlushRetryFails
  <2>1. Same /\ UNCHANGED <<gone, behind, returned>>
    BY <1>8 DEF FlushReopenFails, FlushRetryFails, WriteFails, WriteLines, disk
  <2>2. /\ lost' = lost \cup Range(iobuf) \cup (IF op = "emit" THEN {line} ELSE {})
        /\ failed' = failed + Len(iobuf) + (IF op = "emit" THEN 1 ELSE 0)
    BY <1>8 DEF FlushReopenFails, FlushRetryFails, LosePending
  <2>3. op = "emit" => line \in Lines
    BY DEF CallOK
  <2>4. Range(iobuf) \subseteq Lines /\ Len(iobuf) \in Nat
    <3>1. iobuf \in Seq(Lines)
      BY TypeParts DEF CountersTyped
    <3> QED  BY <3>1 DEF Range
  <2> QED  BY <1>1, <1>2, <2>1, <2>2, <2>3, <2>4 DEF SetsTyped, Lists
<1>9. CASE FlushFails \/ Check \/ IsOpen \/ Destroy \/ Tick
  BY <1>3, <1>9 DEF FlushFails, WriteFails, WriteLines, Check, IsOpen, Destroy, Tick, disk, hist
<1>10. CASE FlushReopen \/ NewFile \/ Swap \/ Open \/ Start
  <2>1. OpenPath /\ UNCHANGED <<latest, failed, lost, gone, returned>>
    BY <1>10 DEF FlushReopen, NewFile, Swap, Open, Start, OpenActive
  <2>2. archives' = archives /\ behind' = {}
    BY <2>1, Opened
  <2> QED  BY <1>1, <1>2, <2>1, <2>2 DEF SetsTyped, Lists
<1>11. CASE Archive
  <2>1. CASE Same
    BY <1>3, <1>11, <2>1 DEF Archive
  <2>2. CASE archives' = archives \cup {ArchiveName(stamp)} /\ latest' = ArchiveName(stamp)
    <3>1. ArchiveName(stamp) \in ArchiveNames
      <4>1. stamp \in Nat /\ archives \subseteq ArchiveNames
        BY <1>1, TypeParts DEF SetsTyped, CountersTyped
      <4>2. FreeIndex(stamp) \in Nat /\ FreeIndex(0) \in Nat
        BY <4>1, FreeIndexExists
      <4> QED  BY <4>1, <4>2 DEF ArchiveName, ArchiveNames
    <3>2. IsFiniteSet(archives \cup {ArchiveName(stamp)})
      BY FS_AddElement
    <3>3. UNCHANGED <<failed, lost, gone, returned, behind>>
      BY <1>11 DEF Archive
    <3> QED  BY <1>1, <2>2, <3>1, <3>2, <3>3 DEF SetsTyped
  <2> QED  BY <1>11, <2>1, <2>2 DEF Archive
<1>12. CASE NewFileFails \/ SwapFails \/ OpenFails \/ WriteBigFails \/ (FsyncFails /\ op = "emit")
  <2>1. Same /\ UNCHANGED <<gone, behind, returned>>
    BY <1>12 DEF NewFileFails, SwapFails, OpenFails, WriteBigFails, FsyncFails, disk
  <2>2. EmitFails
    BY <1>12 DEF NewFileFails, SwapFails, OpenFails, WriteBigFails, FsyncFails
  <2>3. line \in Lines
    BY <1>12 DEF CallOK, At, NewFileFails, SwapFails, OpenFails, WriteBigFails, FsyncFails
  <2> QED  BY <1>1, <1>2, <2>1, <2>2, <2>3 DEF EmitFails, SetsTyped, Lists
<1>13. CASE FsyncFails /\ op # "emit"
  BY <1>3, <1>13 DEF FsyncFails, disk
<1>14. CASE Prune
  <2>1. archives' \subseteq archives /\ UNCHANGED <<latest, failed, lost, gone, returned, behind>>
    BY <1>14 DEF Prune, PruneArchives
  <2>2. IsFiniteSet(archives')
    BY <2>1, FS_Subset
  <2> QED  BY <1>1, <2>1, <2>2 DEF SetsTyped
<1>15. CASE WriteBig \/ Buffer \/ Fsync
  <2>1. Same /\ UNCHANGED <<failed, lost, gone, behind>>
    BY <1>15 DEF WriteBig, Buffer, Fsync, WriteLines, disk
  <2>2. returned' = returned \/ (op = "emit" /\ returned' = returned \cup {line})
    BY <1>15 DEF WriteBig, Buffer, Fsync, EmitReturns, CallOK, At
  <2>3. op = "emit" => line \in Lines
    BY DEF CallOK
  <2> QED  BY <1>1, <1>2, <2>1, <2>2, <2>3 DEF SetsTyped, Lists
<1>16. CASE Crash
  <2>1. Same /\ UNCHANGED <<failed, lost, returned, behind>> /\ gone' \subseteq 1 .. line
    BY <1>16 DEF Crash
  <2> QED  BY <1>1, <1>2, <2>1 DEF SetsTyped, Lists, Lines
<1>17. CASE ExternalMove
  <2>1. Same /\ UNCHANGED <<failed, lost, gone, returned>> /\ behind' = {}
    BY <1>17 DEF ExternalMove
  <2> QED  BY <1>1, <1>2, <2>1 DEF SetsTyped, Lists
<1>18. CASE ExternalCreate
  BY <1>3, <1>18 DEF ExternalCreate, hist
<1> QED  BY <1>5, <1>6, <1>7, <1>8, <1>9, <1>10, <1>11, <1>12, <1>13, <1>14, <1>15, <1>16, <1>17, <1>18
         DEF Next, Call, FlushStep, RotateStep, EmitStep, Environment

LEMMA CallStep ==
    ASSUME TypeOK, CallOK, Next
    PROVE  CallOK'
<1>1. /\ line \in Nat /\ iobuf \in Seq(Lines) /\ \A l \in Lines : Size[l] \in Nat
      /\ Bytes(iobuf) \in Nat /\ BufSize \in Nat /\ NamesTyped /\ RefsTyped
  BY TypeParts, Numbers, CellsFinite DEF CountersTyped
<1> USE DEF CallOK, Flushing, Late, At
<1>2. ASSUME NEW t \in 0 .. MaxNow, Emit(t)  PROVE CallOK'
  BY <1>1, <1>2, Numbers DEF Emit, Lines, env, priv
<1>3. ASSUME pc = "append"
      PROVE  /\ Append(iobuf, line) # <<>> /\ Last(Append(iobuf, line)) = line
  BY <1>1, <1>3 DEF Last
<1>4. CASE Flush \/ Sync \/ Periodic \/ Close
  BY <1>4, <1>1 DEF Flush, Sync, Periodic, Close, Operation, priv, env
<1>5. CASE FlushNothing
  BY <1>5, <1>1 DEF FlushNothing, NamesTyped, Unlock, Rest, GoTo, priv, env
<1>6. CASE FlushWrite \/ FlushRetry
  BY <1>6, <1>1 DEF FlushWrite, FlushRetry, Flushed, Ok, FlushReturns, EmitReturns, NamesTyped, Unlock, Rest, GoTo, env
<1>7. CASE FlushFails
  BY <1>7, <1>1 DEF FlushFails, WriteFails, Ok, Fault, GoTo, env
<1>8. CASE FlushReopen
  BY <1>8, <1>1, Opened DEF FlushReopen, Ok, GoTo, OpenActive
<1>9. CASE FlushReopenFails \/ FlushRetryFails
  BY <1>9, <1>1 DEF FlushReopenFails, FlushRetryFails, LosePending, WriteFails, Ok, Fault, Unlock, Rest, GoTo, env, NamesTyped
<1>10. CASE Archive
  BY <1>10, <1>1 DEF Archive, Ok, Fault, GoTo, env
<1>11. CASE NewFile
  BY <1>11, <1>1, Opened DEF NewFile, Ok, GoTo
<1>12. CASE NewFileFails \/ SwapFails \/ OpenFails \/ WriteBigFails
  BY <1>12, <1>1 DEF NewFileFails, SwapFails, OpenFails, WriteBigFails, EmitFails, Fault, Unlock, Rest, env, priv
<1>13. CASE Prune
  BY <1>13, <1>1 DEF Prune, PruneArchives, Ok, Fault, GoTo, env
<1>14. CASE Check
  BY <1>14, <1>1 DEF Check, FlushThen, GoTo, env, disk
<1>15. CASE Swap
  BY <1>15, <1>1, Opened DEF Swap, Ok, GoTo, OpenActive
<1>16. CASE IsOpen
  BY <1>16, <1>1 DEF IsOpen, MakeRoom, FlushThen, GoTo, env, priv
<1>17. CASE Open
  BY <1>17, <1>1, Opened DEF Open, Ok, MakeRoom, FlushThen, GoTo, OpenActive
<1>18. CASE WriteBig
  BY <1>18, <1>1 DEF WriteBig, Ok, EmitReturns, Unlock, Rest, env
<1>19. CASE Buffer
  BY <1>19, <1>1, <1>3 DEF Buffer, FlushThen, EmitReturns, Unlock, Rest, env
<1>20. CASE Fsync \/ FsyncFails
  BY <1>20, <1>1 DEF Fsync, FsyncFails, Ok, Fault, EmitReturns, EmitFails, Unlock, Rest, env, priv
<1>21. CASE Destroy \/ Crash
  BY <1>21, <1>1 DEF Destroy, Crash, Rest, env
<1>22. CASE Start
  BY <1>22, <1>1, Opened DEF Start, Unlock, Rest, OpenActive
<1>23. CASE ExternalMove \/ ExternalCreate \/ Tick
  BY <1>23, <1>1 DEF ExternalMove, ExternalCreate, Tick, call, priv
<1> QED  BY <1>2, <1>4, <1>5, <1>6, <1>7, <1>8, <1>9, <1>10, <1>11, <1>12, <1>13, <1>14, <1>15, <1>16, <1>17, <1>18, <1>19, <1>20, <1>21, <1>22, <1>23
         DEF Next, Call, FlushStep, RotateStep, EmitStep, Environment

-----------------------------------------------------------------------------
(* Every step is of one of five kinds. *)

(* What goes to a file: the pending lines, some of them, or a large one.   *)
Chunk(s) ==
    \/ /\ At("flush") \/ At("retry")
       /\ iobuf # <<>> /\ s = iobuf
       /\ iobuf' = <<>> /\ lost' = lost
    \/ /\ At("flush") \/ At("retry")
       /\ iobuf # <<>> /\ \E n \in 0 .. Len(iobuf) - 1 : s = SubSeq(iobuf, 1, n)
       /\ IF At("flush") THEN iobuf' = iobuf /\ lost' = lost /\ pc' = "reopen"
                         ELSE iobuf' = <<>> /\ Range(iobuf) \subseteq lost'
    \/ At("append") /\ s = <<line>> /\ iobuf = <<>> /\ iobuf' = <<>> /\ lost' = lost

Stays == fd' \in {fd, NoFile} /\ active' \in {active, NoFile}

Kind ==
    \/ Keeps /\ Stays
    \/ OpenPath /\ line' = line
    \/ Creates /\ fd' = fd /\ active = NoFile /\ active' = Len(content) + 1 /\ line' = line
    \/ /\ fd \in Inodes /\ Stays /\ line' = line
       /\ \E s \in Seq(Lines) : Writes(s) /\ Chunk(s)
    \/ fd \in Inodes /\ Syncs /\ Stays /\ line' = line
    \/ Cuts /\ fd' = NoFile /\ active' = active /\ line' = line

LEMMA StepKinds ==
    ASSUME TypeOK, CallOK, Next
    PROVE  Kind /\ line \in Nat /\ line' \in {line, line + 1} /\ lost \subseteq lost'
<1> USE DEF At
<1>1. line \in Nat /\ RefsTyped /\ iobuf \in Seq(Lines)
  BY TypeParts DEF CountersTyped
<1>2. line' \in {line, line + 1}
  <2>1. ASSUME NEW t \in 0 .. MaxNow, Emit(t)  PROVE line' = line + 1
    BY <2>1 DEF Emit
  <2>2. CASE Flush \/ Sync \/ Periodic \/ Close \/ FlushStep
    BY <2>2 DEF Flush, Sync, Periodic, Close, Operation, FlushStep, FlushNothing, FlushWrite, FlushFails,
                FlushReopen, FlushReopenFails, FlushRetry, FlushRetryFails, Flushed
  <2>3. CASE RotateStep \/ EmitStep
    BY <2>3 DEF RotateStep, Archive, NewFile, NewFileFails, Prune, EmitStep, Check, Swap, SwapFails, IsOpen,
                Open, OpenFails, WriteBig, WriteBigFails, Buffer, Fsync, FsyncFails
  <2>4. CASE Destroy \/ Start \/ Environment
    BY <2>4 DEF Destroy, Start, Environment, Crash, ExternalMove, ExternalCreate, Tick, call
  <2> QED  BY <2>1, <2>2, <2>3, <2>4 DEF Next, Call
<1>3. lost \subseteq lost'
  <2>1. ASSUME NEW t \in 0 .. MaxNow, Emit(t)  PROVE lost' = lost
    BY <2>1 DEF Emit
  <2>2. CASE Flush \/ Sync \/ Periodic \/ Close \/ FlushStep
    BY <2>2 DEF Flush, Sync, Periodic, Close, Operation, FlushStep, FlushNothing, FlushWrite, FlushFails,
                FlushReopen, FlushReopenFails, FlushRetry, FlushRetryFails, Flushed, LosePending, hist
  <2>3. CASE RotateStep \/ EmitStep
    BY <2>3 DEF RotateStep, Archive, NewFile, NewFileFails, Prune, EmitStep, Check, Swap, SwapFails, IsOpen,
                Open, OpenFails, WriteBig, WriteBigFails, Buffer, Fsync, FsyncFails, EmitFails, hist
  <2>4. CASE Destroy \/ Start \/ Environment
    BY <2>4 DEF Destroy, Start, Environment, Crash, ExternalMove, ExternalCreate, Tick, hist
  <2> QED  BY <2>1, <2>2, <2>3, <2>4 DEF Next, Call
<1>4. Kind
  <2> SUFFICES ASSUME ~(Keeps /\ Stays)  PROVE Kind
    BY DEF Kind
  <2>1. ASSUME NEW t \in 0 .. MaxNow, Emit(t)  PROVE FALSE
    BY <2>1 DEF Emit, Keeps, Stays, disk, priv
  <2>2. CASE Flush \/ Sync \/ Periodic \/ Close \/ FlushNothing \/ FlushReopenFails
    BY <2>2 DEF Flush, Sync, Periodic, Close, Operation, FlushNothing, FlushReopenFails, Keeps, Stays, disk, priv
  <2>3. CASE Archive \/ Prune \/ NewFileFails \/ SwapFails \/ OpenFails \/ WriteBigFails \/ FsyncFails
    BY <2>3 DEF Archive, Prune, NewFileFails, SwapFails, OpenFails, WriteBigFails, FsyncFails, Keeps, Stays, disk, priv
  <2>4. CASE Check \/ IsOpen \/ Buffer \/ Destroy \/ ExternalMove \/ Tick
    BY <2>4 DEF Check, IsOpen, Buffer, Destroy, ExternalMove, Tick, Keeps, Stays, disk, priv
  <2>5. CASE FlushReopen \/ NewFile \/ Swap \/ Open \/ Start
    BY <2>5 DEF Kind, FlushReopen, NewFile, Swap, Open, Start, OpenActive
  <2>6. CASE FlushWrite \/ FlushRetry
    <3>1. fd \in Inodes /\ iobuf # <<>> /\ (At("flush") \/ At("retry"))
      BY <1>1, <2>6 DEF RefsTyped, CallOK, Flushing, FlushWrite, FlushRetry
    <3>2. Writes(iobuf) /\ Stays /\ line' = line /\ iobuf' = <<>> /\ lost' = lost
      BY <2>6 DEF FlushWrite, FlushRetry, Flushed, WriteLines, Writes, Stays
    <3>3. Chunk(iobuf)
      BY <3>1, <3>2 DEF Chunk
    <3> QED  BY <1>1, <3>1, <3>2, <3>3 DEF Kind
  <2>7. CASE FlushFails \/ FlushRetryFails
    <3>1. PICK n \in 0 .. Len(iobuf) - 1 : fd # NoFile /\ WriteLines(SubSeq(iobuf, 1, n))
      BY <2>7 DEF FlushFails, FlushRetryFails, WriteFails, disk, Keeps, Stays
    <3>2. SubSeq(iobuf, 1, n) \in Seq(Lines) /\ Writes(SubSeq(iobuf, 1, n)) /\ active' = active
      BY <1>1, <3>1 DEF WriteLines, Writes
    <3>3. fd \in Inodes
      BY <1>1, <3>1 DEF RefsTyped
    <3>4. Stays /\ line' = line
      BY <2>7, <3>2 DEF FlushFails, FlushRetryFails, Stays
    <3>5. /\ At("flush") \/ At("retry")
          /\ iobuf # <<>>
          /\ IF At("flush") THEN iobuf' = iobuf /\ lost' = lost /\ pc' = "reopen"
                            ELSE iobuf' = <<>> /\ Range(iobuf) \subseteq lost'
      BY <2>7 DEF FlushFails, FlushRetryFails, LosePending, CallOK, Flushing, GoTo, hist
    <3>6. Chunk(SubSeq(iobuf, 1, n))
      BY <3>1, <3>5 DEF Chunk
    <3> QED  BY <3>2, <3>3, <3>4, <3>6 DEF Kind
  <2>8. CASE WriteBig
    <3>1. fd \in Inodes /\ line \in Lines /\ iobuf = <<>>
      BY <1>1, <2>8 DEF WriteBig, RefsTyped, CallOK
    <3>2. <<line>> \in Seq(Lines) /\ Writes(<<line>>) /\ Stays /\ line' = line /\ Chunk(<<line>>)
      BY <2>8, <3>1 DEF WriteBig, WriteLines, Writes, Stays, Chunk
    <3> QED  BY <3>1, <3>2 DEF Kind
  <2>9. CASE Fsync
    BY <1>1, <2>9 DEF Kind, Fsync, RefsTyped, Syncs, Keeps, Stays, priv
  <2>10. CASE Crash \/ ExternalCreate
    BY <2>10 DEF Kind, Crash, ExternalCreate, Keeps, Stays, Creates, Cuts, priv, call
  <2> QED  BY <2>1, <2>2, <2>3, <2>4, <2>5, <2>6, <2>7, <2>8, <2>9, <2>10
           DEF Next, Call, FlushStep, RotateStep, EmitStep, Environment
<1> QED  BY <1>1, <1>2, <1>3, <1>4

-----------------------------------------------------------------------------
(* The files *)

(* What is written next is ascending, and not younger than the last line.  *)
LEMMA ChunkAscends ==
    ASSUME TypeOK, CallOK, BufferOK, NEW s \in Seq(Lines), Chunk(s)
    PROVE  Ascending(s) /\ \A i \in DOMAIN s : s[i] <= line
<1>1. iobuf \in Seq(Lines) /\ line \in Nat
  BY TypeParts DEF CountersTyped
<1>2. CASE s = iobuf
  BY <1>2 DEF BufferOK
<1>3. ASSUME NEW n \in 0 .. Len(iobuf) - 1, s = SubSeq(iobuf, 1, n)
      PROVE  Ascending(s) /\ \A i \in DOMAIN s : s[i] <= line
  <2>1. DOMAIN s = 1 .. n /\ \A i \in 1 .. n : i \in DOMAIN iobuf /\ s[i] = iobuf[i]
    BY <1>1, <1>3
  <2> QED  BY <2>1 DEF BufferOK, Ascending
<1>4. CASE s = <<line>>
  <2>1. DOMAIN s = {1} /\ s[1] = line
    BY <1>4
  <2> QED  BY <1>1, <2>1 DEF Ascending
<1> QED  BY <1>2, <1>3, <1>4 DEF Chunk

LEMMA FilesOKStep ==
    ASSUME TypeOK, CallOK, FilesOK, BufferOK, Kind, line \in Nat, line' \in {line, line + 1}
    PROVE  FilesOK'
<1>1. FilesTyped /\ RefsTyped
  BY TypeParts
<1>2. /\ Inodes = 1 .. Len(content) /\ Len(content) \in Nat /\ NoFile \notin Inodes
      /\ \A f \in Inodes : /\ f \in Nat /\ synced[f] \in Nat /\ Len(content[f]) \in Nat
                           /\ DOMAIN content[f] = 1 .. Len(content[f])
                           /\ \A i \in DOMAIN content[f] : content[f][i] \in Nat
  BY <1>1, FileTypes, Numbers
<1>3. CASE Keeps /\ Stays
  BY <1>1, <1>2, <1>3 DEF FilesOK, Keeps, Stays, Inodes, RefsTyped
<1>4. CASE Creates /\ active' = Len(content) + 1 /\ fd' \in {fd, active'} /\ line' = line
  <2>1. /\ Inodes' = 1 .. Len(content) + 1
        /\ \A f \in Inodes' : f \in Inodes \/ f = Len(content) + 1
        /\ \A f \in Inodes : content'[f] = content[f] /\ synced'[f] = synced[f]
        /\ content'[Len(content) + 1] = <<>> /\ synced'[Len(content) + 1] = 0
        /\ DOMAIN content'[Len(content) + 1] = {} /\ Len(content'[Len(content) + 1]) = 0
    BY <1>1, <1>4, Created DEF Inodes
  <2>2. fd' \in Inodes' \cup {NoFile}
    BY <1>1, <1>2, <1>4, <2>1 DEF RefsTyped
  <2>3. \A f \in Inodes' : synced'[f] <= Len(content'[f])
    BY <1>2, <2>1 DEF FilesOK
  <2>4. \A f \in Inodes' : (fd' # NoFile /\ f > fd') \/ (active' # NoFile /\ f > active') => content'[f] = <<>>
    BY <1>1, <1>2, <1>4, <2>1 DEF FilesOK, RefsTyped
  <2>5. fd' # NoFile /\ active' # NoFile => fd' <= active'
    BY <1>2, <1>4, <2>1, <2>2
  <2>6. \A f \in Inodes' : \A i \in DOMAIN content'[f] : content'[f][i] <= line'
    BY <1>4, <2>1 DEF FilesOK
  <2> QED  BY <2>3, <2>4, <2>5, <2>6 DEF FilesOK
<1>5. CASE OpenPath /\ line' = line
  <2>1. CASE active = NoFile
    BY <1>4, <1>5, <2>1, Opened
  <2>2. CASE active # NoFile
    BY <1>1, <1>2, <1>5, <2>2, Opened DEF FilesOK, Keeps, Inodes, RefsTyped
  <2> QED  BY <2>1, <2>2
<1>6. ASSUME fd \in Inodes, Stays, line' = line, NEW s \in Seq(Lines), Writes(s), Chunk(s)
      PROVE  FilesOK'
  <2>1. /\ Inodes' = Inodes /\ synced' = synced
        /\ \A f \in Inodes : f # fd => content'[f] = content[f]
        /\ Len(content'[fd]) = Len(content[fd]) + Len(s)
        /\ \A i \in DOMAIN content[fd] : content'[fd][i] = content[fd][i]
        /\ \A i \in DOMAIN content'[fd] : i \notin DOMAIN content[fd] =>
              i - Len(content[fd]) \in DOMAIN s /\ content'[fd][i] = s[i - Len(content[fd])]
        /\ Len(s) \in Nat
    BY <1>1, <1>6, Wrote
  <2>2. \A i \in DOMAIN s : s[i] <= line
    BY <1>6, ChunkAscends
  <2>3. \A f \in Inodes' : synced'[f] <= Len(content'[f])
    BY <1>2, <1>6, <2>1 DEF FilesOK
  <2>4. \A f \in Inodes' : (fd' # NoFile /\ f > fd') \/ (active' # NoFile /\ f > active') => content'[f] = <<>>
    <3>1. \A f \in Inodes : (f > fd) \/ (active # NoFile /\ f > active) => f # fd /\ content[f] = <<>>
      BY <1>1, <1>2, <1>6 DEF FilesOK, RefsTyped
    <3> QED  BY <1>1, <1>2, <1>6, <2>1, <3>1 DEF Stays
  <2>5. fd' # NoFile /\ active' # NoFile => fd' <= active'
    BY <1>6 DEF FilesOK, Stays
  <2>6. \A f \in Inodes' : \A i \in DOMAIN content'[f] : content'[f][i] <= line'
    <3>1. \A f \in Inodes : \A i \in DOMAIN content[f] : content[f][i] <= line
      BY DEF FilesOK
    <3>2. \A i \in DOMAIN content'[fd] : content'[fd][i] <= line
      BY <1>6, <2>1, <2>2, <3>1
    <3> QED  BY <1>6, <2>1, <3>1, <3>2
  <2> QED  BY <2>3, <2>4, <2>5, <2>6 DEF FilesOK
<1>7. CASE fd \in Inodes /\ Syncs /\ Stays /\ line' = line
  <2>1. /\ Inodes' = Inodes /\ content' = content /\ synced'[fd] = Len(content[fd])
        /\ \A f \in Inodes : f # fd => synced'[f] = synced[f]
    BY <1>1, <1>2, <1>7 DEF Syncs, Inodes, FilesTyped
  <2>2. \A f \in Inodes' : synced'[f] <= Len(content'[f])
    BY <1>2, <1>7, <2>1 DEF FilesOK
  <2> QED  BY <1>7, <2>1, <2>2 DEF FilesOK, Stays
<1>8. CASE Cuts /\ fd' = NoFile /\ active' = active /\ line' = line
  <2>1. /\ Inodes' = Inodes /\ synced' = synced
        /\ \A f \in Inodes :
              /\ content'[f] = SubSeq(content[f], 1, synced[f])
              /\ DOMAIN content'[f] = 1 .. synced[f] /\ Len(content'[f]) = synced[f]
              /\ \A i \in 1 .. synced[f] : i \in DOMAIN content[f] /\ content'[f][i] = content[f][i]
    BY <1>1, <1>8, Cut DEF FilesOK
  <2>2. \A f \in Inodes' : synced'[f] <= Len(content'[f])
    BY <1>2, <2>1
  <2>3. \A f \in Inodes : content[f] = <<>> => content'[f] = <<>>
    <3> SUFFICES ASSUME NEW f \in Inodes, content[f] = <<>>  PROVE content'[f] = <<>>
      OBVIOUS
    <3>1. synced[f] = 0
      BY <1>2 DEF FilesOK
    <3> QED  BY <2>1, <3>1
  <2>4. \A f \in Inodes' : \A i \in DOMAIN content'[f] : content'[f][i] <= line'
    BY <1>8, <2>1 DEF FilesOK
  <2> QED  BY <1>8, <2>1, <2>2, <2>3, <2>4 DEF FilesOK
<1> QED  BY <1>3, <1>4, <1>5, <1>6, <1>7, <1>8 DEF Kind

-----------------------------------------------------------------------------
(* The order of the lines *)

(* A line in a file that is older than one written before it is reported,  *)
(* or it is pending and the older one is, too, and comes after it.         *)
LEMMA ChunkFollows ==
    ASSUME TypeOK, CallOK, FilesOK, BufferOK, NEW s \in Seq(Lines), Chunk(s),
           NEW j \in DOMAIN s, NEW g \in Inodes, NEW i \in DOMAIN content[g],
           s[j] < content[g][i], s[j] \notin lost', content[g][i] \notin lost'
    PROVE  \E k \in DOMAIN s : k > j /\ s[k] = content[g][i]
<1> DEFINE m == content[g][i]
<1>1. iobuf \in Seq(Lines) /\ line \in Nat /\ FilesTyped /\ m \in Lines /\ m \in Nat /\ m <= line
  BY TypeParts, FileTypes, Numbers DEF CountersTyped, FilesOK
<1>2. Written(m)
  BY <1>1, Written_
<1>3. /\ DOMAIN s = 1 .. Len(s) /\ Len(s) \in Nat /\ s[j] \in Lines /\ s[j] \in Nat
      /\ DOMAIN iobuf = 1 .. Len(iobuf) /\ \A k \in DOMAIN iobuf : iobuf[k] \in Nat
  BY <1>1, Numbers
<1> HIDE DEF m
<1>4. m = content[g][i]
  BY DEF m
<1>5. CASE At("append") /\ s = <<line>>
  <2>1. s[j] = line
    BY <1>3, <1>5
  <2> QED  BY <1>1, <1>3, <1>4, <2>1
<1>6. ASSUME At("flush") \/ At("retry"), j \in DOMAIN iobuf, s[j] = iobuf[j], lost' = lost,
             At("retry") => s = iobuf
      PROVE  \E k \in DOMAIN s : k > j /\ s[k] = m
  <2>1. m \in Range(iobuf)
    <3> SUFFICES ASSUME m \notin Range(iobuf)  PROVE FALSE
      OBVIOUS
    <3>1. m \in Lines \ (lost \cup Range(iobuf))
      BY <1>1, <1>4, <1>6
    <3>2. m < iobuf[j]
      BY <1>2, <1>6, <3>1 DEF BufferOK
    <3> QED  BY <1>1, <1>3, <1>4, <1>6, <3>2
  <2>2. PICK k \in DOMAIN iobuf : iobuf[k] = m
    BY <2>1 DEF Range
  <2>3. At("retry") /\ s = iobuf
    BY <1>2, <1>6, <2>2 DEF BufferOK, At
  <2>4. k > j
    <3> SUFFICES ASSUME k <= j  PROVE FALSE
      BY <1>3, <2>2
    <3>1. k = j \/ k < j
      BY <1>3, <1>6
    <3>2. iobuf[k] <= iobuf[j]
      BY <1>3, <1>6, <3>1 DEF BufferOK, Ascending
    <3> QED  BY <1>1, <1>3, <1>4, <1>6, <2>2, <3>2
  <2> QED  BY <2>2, <2>3, <2>4
<1>7. CASE (At("flush") \/ At("retry")) /\ s = iobuf /\ lost' = lost
  BY <1>4, <1>6, <1>7
<1>8. ASSUME At("flush") \/ At("retry"), NEW n \in 0 .. Len(iobuf) - 1, s = SubSeq(iobuf, 1, n),
             IF At("flush") THEN lost' = lost ELSE Range(iobuf) \subseteq lost'
      PROVE  \E k \in DOMAIN s : k > j /\ s[k] = m
  <2>1. j \in DOMAIN iobuf /\ s[j] = iobuf[j]
    BY <1>1, <1>8
  <2>2. s[j] \in Range(iobuf)
    BY <2>1 DEF Range
  <2>3. At("flush") /\ lost' = lost /\ ~At("retry")
    BY <1>8, <2>2 DEF At
  <2> QED  BY <1>6, <2>1, <2>3
<1> QED  BY <1>4, <1>5, <1>7, <1>8 DEF Chunk

LEMMA OrderOKStep ==
    ASSUME TypeOK, CallOK, FilesOK, BufferOK, OrderOK, Kind, lost \subseteq lost'
    PROVE  OrderOK'
<1>1. FilesTyped /\ RefsTyped
  BY TypeParts
<1>2. /\ Inodes = 1 .. Len(content) /\ Len(content) \in Nat /\ NoFile \notin Inodes
      /\ \A f \in Inodes : /\ f \in Nat /\ synced[f] \in Nat /\ Len(content[f]) \in Nat
                           /\ synced[f] <= Len(content[f])
                           /\ DOMAIN content[f] = 1 .. Len(content[f])
                           /\ \A i \in DOMAIN content[f] : content[f][i] \in Nat
  BY <1>1, FileTypes, Numbers DEF FilesOK
<1> SUFFICES ASSUME NEW f \in Inodes', NEW g \in Inodes',
                    NEW j \in DOMAIN content'[f], NEW i \in DOMAIN content'[g],
                    Comes(g, i, f, j), content'[f][j] < content'[g][i],
                    content'[f][j] \notin lost', content'[g][i] \notin lost'
             PROVE  Again(content[f][j], content[g][i], f, j)'
  BY DEF OrderOK, Comes
(* Nothing new in these two places: as before. *)
<1>3. ASSUME f \in Inodes, g \in Inodes, j \in DOMAIN content[f], i \in DOMAIN content[g],
             content'[f][j] = content[f][j], content'[g][i] = content[g][i]
      PROVE  Again(content[f][j], content[g][i], f, j)
  BY <1>3 DEF OrderOK
<1>4. CASE Keeps
  <2>1. Inodes' = Inodes /\ content' = content /\ synced' = synced
    BY <1>4 DEF Keeps, Inodes
  <2> QED  BY <1>3, <2>1 DEF Again
<1>5. CASE Creates
  <2>1. /\ \A h \in Inodes' : h \in Inodes \/ h = Len(content) + 1
        /\ \A h \in Inodes : content'[h] = content[h] /\ synced'[h] = synced[h]
        /\ DOMAIN content'[Len(content) + 1] = {}
    BY <1>1, <1>5, Created
  <2>2. f \in Inodes /\ g \in Inodes
    BY <2>1
  <2> QED  BY <1>3, <2>1, <2>2 DEF Again
<1>6. ASSUME fd \in Inodes, NEW s \in Seq(Lines), Writes(s), Chunk(s)
      PROVE  Again(content[f][j], content[g][i], f, j)'
  <2> DEFINE n == Len(content[fd])
  <2>1. /\ Inodes' = Inodes /\ synced' = synced
        /\ \A h \in Inodes : h # fd => content'[h] = content[h]
        /\ \A k \in DOMAIN content[fd] : k \in DOMAIN content'[fd] /\ content'[fd][k] = content[fd][k]
        /\ \A k \in DOMAIN s : n + k \in DOMAIN content'[fd] /\ content'[fd][n + k] = s[k]
        /\ \A k \in DOMAIN content'[fd] : k \notin DOMAIN content[fd] =>
              k - n \in DOMAIN s /\ content'[fd][k] = s[k - n]
        /\ DOMAIN content'[fd] = 1 .. n + Len(s) /\ Len(s) \in Nat /\ DOMAIN s = 1 .. Len(s) /\ n \in Nat
    <3>1. Len(s) \in Nat /\ DOMAIN s = 1 .. Len(s) /\ n \in Nat /\ DOMAIN content[fd] = 1 .. n
      BY <1>2, <1>6
    <3>2. DOMAIN content'[fd] = 1 .. n + Len(s)
      BY <1>1, <1>6, Wrote
    <3>3. /\ Inodes' = Inodes /\ synced' = synced
          /\ \A h \in Inodes : h # fd => content'[h] = content[h]
          /\ \A k \in DOMAIN content[fd] : content'[fd][k] = content[fd][k]
      BY <1>1, <1>6, Wrote
    <3>4. \A k \in DOMAIN s : n + k \in DOMAIN content'[fd] /\ content'[fd][n + k] = s[k]
      BY <1>1, <1>6, Wrote
    <3>5. \A k \in DOMAIN content'[fd] : k \notin DOMAIN content[fd] =>
              k - n \in DOMAIN s /\ content'[fd][k] = s[k - n]
      BY <1>1, <1>6, Wrote
    <3> HIDE DEF n
    <3>6. \A k \in DOMAIN content[fd] : k \in DOMAIN content'[fd]
      BY <3>1, <3>2
    <3> QED  BY <3>1, <3>2, <3>3, <3>4, <3>5, <3>6
  <2> HIDE DEF n
  <2>2. n = Len(content[fd]) /\ DOMAIN content[fd] = 1 .. n
    BY <1>2, <1>6 DEF n
  <2>3. CASE f = fd /\ j \notin DOMAIN content[fd]
    <3>1. j - n \in DOMAIN s /\ content'[f][j] = s[j - n] /\ j > n
      BY <2>1, <2>2, <2>3
    <3>2. CASE g = fd /\ i \notin DOMAIN content[fd]
      <4>0. i \in Nat /\ j \in Nat
        BY <2>1, <2>3, <3>2
      <4>1. i - n \in DOMAIN s /\ content'[g][i] = s[i - n]
        BY <2>1, <3>2
      <4>2. s[i - n] < s[j - n]
        <5>1. i < j
          BY <1>2, <1>6, <2>3, <3>2 DEF Comes
        <5>2. i - n < j - n
          BY <2>1, <4>0, <5>1
        <5>3. Ascending(s)
          BY <1>6, ChunkAscends
        <5> QED  BY <3>1, <4>1, <5>2, <5>3 DEF Ascending
      <4>3. s[i - n] \in Nat /\ s[j - n] \in Nat
        BY <3>1, <4>1, <1>6, Numbers
      <4> QED  BY <3>1, <4>1, <4>2, <4>3
    <3>3. CASE g \in Inodes /\ i \in DOMAIN content[g]
      <4>1. content'[g][i] = content[g][i]
        BY <2>1, <3>3
      <4>2. PICK k \in DOMAIN s : k > j - n /\ s[k] = content[g][i]
        BY <1>6, <3>1, <3>3, <4>1, ChunkFollows
      <4>3. n + k \in DOMAIN content'[f] /\ n + k > j /\ content'[f][n + k] = content'[g][i]
        <5>1. n + k \in DOMAIN content'[f] /\ content'[f][n + k] = s[k]
          BY <2>1, <2>3
        <5>2. n \in Nat /\ k \in Nat /\ j \in Nat
          BY <2>1, <2>3
        <5>3. n + k > j
          BY <4>2, <5>2
        <5> QED  BY <4>1, <4>2, <5>1, <5>3
      <4>4. ~(j <= synced'[f])
        BY <1>2, <1>6, <2>1, <2>2, <2>3, <3>1
      <4> QED  BY <4>3, <4>4 DEF Again
    <3>4. g \in Inodes /\ (g # fd => i \in DOMAIN content[g])
      BY <2>1
    <3> QED  BY <3>2, <3>3, <3>4
  <2>4. CASE f \in Inodes /\ j \in DOMAIN content[f]
    <3>1. content'[f][j] = content[f][j]
      BY <2>1, <2>4
    <3>2. g \in Inodes /\ i \in DOMAIN content[g]
      <4> SUFFICES ASSUME g = fd, i \notin DOMAIN content[fd]  PROVE FALSE
        BY <2>1
      <4>1. i > n
        BY <2>1, <2>2
      <4>2. f > fd \/ (f = fd /\ i < j)
        BY DEF Comes
      <4>3. CASE f > fd
        <5>1. content[f] = <<>>
          BY <1>2, <1>6, <2>4, <4>3 DEF FilesOK
        <5> QED  BY <1>2, <2>4, <5>1
      <4>4. CASE f = fd /\ i < j
        <5>1. j \in 1 .. n /\ i \in Nat
          BY <2>1, <2>2, <2>4, <4>4
        <5> QED  BY <2>1, <4>1, <4>4, <5>1
      <4> QED  BY <4>2, <4>3, <4>4
    <3>3. content'[g][i] = content[g][i]
      BY <2>1, <3>2
    <3>4. PICK k \in DOMAIN content[f] :
             k > j /\ content[f][k] = content[g][i] /\ (j <= synced[f] => k <= synced[f])
      BY <1>3, <2>4, <3>1, <3>2, <3>3 DEF Again
    <3>5. k \in DOMAIN content'[f] /\ content'[f][k] = content[f][k]
      BY <2>1, <2>4, <3>4
    <3> QED  BY <2>1, <3>3, <3>4, <3>5 DEF Again
  <2>5. f \in Inodes /\ (f # fd => j \in DOMAIN content[f])
    BY <2>1
  <2> QED  BY <2>3, <2>4, <2>5
<1>7. CASE fd \in Inodes /\ Syncs
  <2>1. /\ Inodes' = Inodes /\ content' = content /\ synced'[fd] = Len(content[fd])
        /\ \A h \in Inodes : h # fd => synced'[h] = synced[h]
    BY <1>1, <1>2, <1>7 DEF Syncs, Inodes, FilesTyped
  <2>2. PICK k \in DOMAIN content[f] :
           k > j /\ content[f][k] = content[g][i] /\ (j <= synced[f] => k <= synced[f])
    BY <1>3, <2>1 DEF Again
  <2>3. j <= synced'[f] => k <= synced'[f]
    <3>1. f \in Inodes /\ k <= Len(content[f])
      BY <1>2, <2>1, <2>2
    <3>2. CASE f = fd
      BY <2>1, <3>1, <3>2
    <3>3. CASE f # fd
      BY <2>1, <2>2, <3>1, <3>3
    <3> QED  BY <3>2, <3>3
  <2> QED  BY <2>1, <2>2, <2>3 DEF Again
<1>8. CASE Cuts
  <2>1. /\ Inodes' = Inodes /\ synced' = synced
        /\ \A h \in Inodes :
              /\ DOMAIN content'[h] = 1 .. synced[h]
              /\ \A k \in 1 .. synced[h] : k \in DOMAIN content[h] /\ content'[h][k] = content[h][k]
    BY <1>1, <1>8, Cut DEF FilesOK
  <2>2. /\ f \in Inodes /\ j \in 1 .. synced[f] /\ j \in DOMAIN content[f] /\ content'[f][j] = content[f][j]
        /\ g \in Inodes /\ i \in 1 .. synced[g] /\ i \in DOMAIN content[g] /\ content'[g][i] = content[g][i]
    BY <2>1
  <2>3. PICK k \in DOMAIN content[f] :
           k > j /\ content[f][k] = content[g][i] /\ (j <= synced[f] => k <= synced[f])
    BY <1>3, <2>2 DEF Again
  <2>4. k \in 1 .. synced[f]
    BY <1>2, <2>2, <2>3
  <2>5. k \in DOMAIN content'[f] /\ content'[f][k] = content[f][k]
    BY <2>1, <2>2, <2>4
  <2> QED  BY <2>1, <2>2, <2>3, <2>4, <2>5 DEF Again
<1>9. CASE OpenPath
  BY <1>4, <1>5, <1>9, Opened
<1> QED  BY <1>4, <1>5, <1>6, <1>7, <1>8, <1>9 DEF Kind

LEMMA LastCopyIsLast ==
    ASSUME FilesTyped, NEW l, Written(l)
    PROVE  \E f \in Inodes : \E j \in DOMAIN content[f] :
              /\ LastCopy(l) = <<f, j>> /\ content[f][j] = l
              /\ \A g \in Inodes : \A k \in DOMAIN content[g] :
                    content[g][k] = l => g < f \/ (g = f /\ k <= j)
<1>1. /\ Inodes = 1 .. Len(content) /\ Len(content) \in Nat
      /\ \A f \in Inodes : f \in Nat /\ Len(content[f]) \in Nat /\ DOMAIN content[f] = 1 .. Len(content[f])
  BY FileTypes
<1> DEFINE Files == {f \in Inodes : l \in Range(content[f])}
           IsLastFile(f) == l \in Range(content[f]) /\ \A g \in Inodes : l \in Range(content[g]) => g <= f
           file == CHOOSE f \in Inodes : IsLastFile(f)
<1>2. \E f \in Inodes : IsLastFile(f)
  <2>1. Files \in SUBSET (0 .. Len(content)) /\ Files # {}
    BY <1>1 DEF Written
  <2>2. PICK f \in Files : \A g \in Files : g <= f
    <3> HIDE DEF Files
    <3> QED  BY <1>1, <2>1, GreatestNumber
  <2> QED  BY <2>2
<1>3. file \in Inodes /\ IsLastFile(file)
  BY <1>2, Zenon
<1> HIDE DEF file
<1> DEFINE Places_ == {i \in DOMAIN content[file] : content[file][i] = l}
           IsLastPlace(i) == content[file][i] = l /\ \A k \in DOMAIN content[file] : content[file][k] = l => k <= i
           place == CHOOSE i \in DOMAIN content[file] : IsLastPlace(i)
<1>4. \E i \in DOMAIN content[file] : IsLastPlace(i)
  <2>1. Places_ \in SUBSET (0 .. Len(content[file]))
    BY <1>1, <1>3
  <2>2. Places_ # {}
    BY <1>3 DEF Range
  <2>3. PICK i \in Places_ : \A k \in Places_ : k <= i
    <3> HIDE DEF Places_
    <3> QED  BY <1>1, <1>3, <2>1, <2>2, GreatestNumber
  <2> QED  BY <2>3
<1>5. place \in DOMAIN content[file] /\ IsLastPlace(place)
  BY <1>4, Zenon
<1>6. LastCopy(l) = <<file, place>>
  BY DEF LastCopy, file
<1> HIDE DEF place
<1>7. ASSUME NEW g \in Inodes, NEW k \in DOMAIN content[g], content[g][k] = l
      PROVE  g < file \/ (g = file /\ k <= place)
  <2>1. l \in Range(content[g])
    BY <1>7 DEF Range
  <2>2. g <= file
    BY <1>3, <2>1
  <2> QED  BY <1>1, <1>3, <1>5, <1>7, <2>2
<1> QED  BY <1>3, <1>5, <1>6, <1>7

LEMMA OrderOKInOrder ==
    ASSUME TypeOK, OrderOK
    PROVE  LinesInOrder
<1>1. FilesTyped /\ line \in Nat
  BY TypeParts DEF CountersTyped
<1>2. \A f \in Inodes : f \in Nat /\ \A i \in DOMAIN content[f] : i \in Nat
  BY <1>1, FileTypes
<1> SUFFICES ASSUME NEW l \in 1 .. line, NEW m \in 1 .. line, l \notin lost, m \notin lost,
                    Written(l), Written(m), l < m
             PROVE  Before(LastCopy(l), LastCopy(m))
  BY DEF LinesInOrder
<1>3. PICK f \in Inodes : \E j \in DOMAIN content[f] : LastCopy(l) = <<f, j>> /\ content[f][j] = l
  BY <1>1, LastCopyIsLast
<1>4. PICK j \in DOMAIN content[f] : LastCopy(l) = <<f, j>> /\ content[f][j] = l
  BY <1>3
<1>5. PICK g \in Inodes : \E i \in DOMAIN content[g] :
         /\ LastCopy(m) = <<g, i>> /\ content[g][i] = m
         /\ \A h \in Inodes : \A k \in DOMAIN content[h] :
               content[h][k] = m => h < g \/ (h = g /\ k <= i)
  BY <1>1, LastCopyIsLast
<1>6. PICK i \in DOMAIN content[g] :
         /\ LastCopy(m) = <<g, i>> /\ content[g][i] = m
         /\ \A h \in Inodes : \A k \in DOMAIN content[h] :
               content[h][k] = m => h < g \/ (h = g /\ k <= i)
  BY <1>5
<1> SUFFICES ASSUME ~Before(<<f, j>>, <<g, i>>)  PROVE FALSE
  BY <1>4, <1>6
<1>7. ~(f < g \/ (f = g /\ j < i))
  BY DEF Before
<1>8. ~(f = g /\ j = i)
  BY <1>4, <1>6
<1>9. Comes(g, i, f, j)
  BY <1>2, <1>7, <1>8 DEF Comes
<1>10. Again(l, m, f, j)
  BY <1>4, <1>6, <1>9 DEF OrderOK
<1>11. PICK k \in DOMAIN content[f] : k > j /\ content[f][k] = m
  BY <1>10 DEF Again
<1>12. f < g \/ (f = g /\ k <= i)
  BY <1>6, <1>11
<1> QED  BY <1>2, <1>7, <1>9, <1>11, <1>12 DEF Comes

-----------------------------------------------------------------------------
(* The pending lines *)

LEMMA SameWritten ==
    ASSUME TypeOK, Keeps \/ Creates \/ Syncs \/ OpenPath
    PROVE  \A l : Written(l)' <=> Written(l)
<1>1. CASE content' = content
  BY <1>1 DEF Written, Inodes
<1>2. CASE Creates
  BY <1>2, Created, TypeParts
<1> QED  BY <1>1, <1>2, Opened DEF Keeps, Syncs

LEMMA NothingPending ==
    ASSUME iobuf' = <<>>, op' # "emit"
    PROVE  BufferOK'
<1>1. DOMAIN iobuf' = {}
  OBVIOUS
<1> QED  BY <1>1 DEF BufferOK, Ascending

LEMMA SamePending ==
    ASSUME BufferOK, iobuf' = iobuf, lost' = lost, line' = line, \A l : Written(l)' <=> Written(l),
           pc \in {"reopen", "retry"} => pc' \in {"reopen", "retry"},
           op' = "emit" => op = "emit" /\ (Early' => Early)
    PROVE  BufferOK'
<1> HIDE DEF Early
<1>1. \A i \in DOMAIN iobuf : pc' \notin {"reopen", "retry"} => ~Written(iobuf[i])'
  BY DEF BufferOK
<1>2. \A i \in DOMAIN iobuf : \A m \in Lines \ (lost \cup Range(iobuf)) : Written(m)' => m < iobuf[i]
  BY DEF BufferOK
<1>3. op' = "emit" /\ Early' => line \notin Range(iobuf) /\ ~Written(line)'
  BY DEF BufferOK
<1> QED  BY <1>1, <1>2, <1>3 DEF BufferOK, Ascending, Reported

LEMMA FailedPending ==
    ASSUME BufferOK, iobuf' = iobuf, line' = line, \A l : Written(l)' <=> Written(l),
           lost' = lost \cup {line}, line \notin Range(iobuf),
           pc \notin {"reopen", "retry"}, pc' = "idle", op' = "none"
    PROVE  BufferOK'
<1>1. \A i \in DOMAIN iobuf : iobuf[i] # line
  BY DEF Range
<1>2. \A i \in DOMAIN iobuf : iobuf[i] <= line /\ iobuf[i] \notin lost'
  BY <1>1 DEF BufferOK, Reported
<1>3. \A i \in DOMAIN iobuf : ~Written(iobuf[i])'
  BY DEF BufferOK
<1>4. \A i \in DOMAIN iobuf : \A m \in Lines \ (lost' \cup Range(iobuf)) : Written(m)' => m < iobuf[i]
  BY DEF BufferOK
<1> QED  BY <1>2, <1>3, <1>4 DEF BufferOK, Ascending, Reported

LEMMA BufferOKStep ==
    ASSUME TypeOK, CallOK, FilesOK, BufferOK, LinesOK, Next
    PROVE  BufferOK'
<1> USE DEF At
<1>1. /\ line \in Nat /\ iobuf \in Seq(Lines) /\ FilesTyped /\ NamesTyped
      /\ \A l : Written(l) => l \in Nat /\ l <= line
  <2>1. line \in Nat /\ iobuf \in Seq(Lines) /\ FilesTyped /\ NamesTyped
    BY TypeParts DEF CountersTyped
  <2>2. \A l : Written(l) => l \in Nat /\ l <= line
    BY <2>1, Written_, FileTypes, Numbers DEF FilesOK
  <2> QED  BY <2>1, <2>2
<1>2. ASSUME NEW t \in 0 .. MaxNow, Emit(t)  PROVE BufferOK'
  <2>1. /\ iobuf' = iobuf /\ lost' = lost /\ line' = line + 1 /\ pc = "idle" /\ Keeps
        /\ pc' \in {"flush", "check"}
    BY <1>2 DEF Emit, priv, disk, Keeps
  <2>2. \A l : Written(l)' <=> Written(l)
    BY <2>1, SameWritten
  <2>3. \A i \in DOMAIN iobuf : iobuf[i] \in Nat /\ iobuf[i] <= line
    BY <1>1, Numbers DEF BufferOK
  <2>4. line + 1 \notin Range(iobuf) /\ ~Written(line + 1)
    BY <1>1, <2>3 DEF Range
  <2>5. line + 1 \notin lost
    BY <1>1 DEF LinesOK
  <2>6. \A i \in DOMAIN iobuf : iobuf[i] <= line + 1 /\ iobuf[i] \notin lost'
    BY <1>1, <2>1, <2>3 DEF BufferOK, Reported
  <2>7. \A i \in DOMAIN iobuf : ~Written(iobuf[i])'
    BY <2>1, <2>2 DEF BufferOK
  <2>8. \A i \in DOMAIN iobuf : \A m \in Lines \ (lost' \cup Range(iobuf)) : Written(m)' => m < iobuf[i]
    BY <2>1, <2>2 DEF BufferOK
  <2>9. line' \notin Range(iobuf') /\ ~Written(line)' /\ line' \notin lost'
    BY <2>1, <2>2, <2>4, <2>5
  <2> QED  BY <2>1, <2>6, <2>7, <2>8, <2>9 DEF BufferOK, Ascending, Reported
<1>3. CASE Flush \/ Sync \/ Periodic \/ Close
  <2>1. Keeps /\ iobuf' = iobuf /\ lost' = lost /\ line' = line /\ pc = "idle" /\ op' # "emit"
    BY <1>3 DEF Keeps, Flush, Sync, Periodic, Close, Operation, disk, priv, hist
  <2> QED  BY <2>1, SameWritten, SamePending
<1>4. CASE FlushNothing
  <2>1. Keeps /\ iobuf' = iobuf /\ lost' = lost /\ line' = line /\ pc = "flush"
    BY <1>4 DEF Keeps, FlushNothing, disk, priv, hist
  <2>2. op' = "emit" => op = "emit" /\ (Early' => Early)
    BY <1>4 DEF FlushNothing, Unlock, Rest, GoTo, Early, Flushing, CallOK, Late
  <2> QED  BY <2>1, <2>2, SameWritten, SamePending
<1>5. CASE FlushWrite \/ FlushRetry
  <2>1. fd \in Inodes /\ Writes(iobuf) /\ iobuf' = <<>> /\ lost' = lost /\ line' = line /\ (pc = "flush" \/ pc = "retry")
    BY <1>5, TypeParts DEF FlushWrite, FlushRetry, Flushed, WriteLines, Writes, RefsTyped, CallOK
  <2>2. \A l : Written(l)' <=> Written(l) \/ l \in Range(iobuf)
    BY <1>1, <2>1, Wrote
  <2>3. op' = "emit" => op = "emit" /\ (Early' => Early)
    BY <1>5 DEF FlushWrite, FlushRetry, Flushed, FlushReturns, EmitReturns, Unlock, Rest, GoTo, Early, Flushing, CallOK
  <2>4. op' = "emit" /\ Early' => ~Written(line)'
    BY <2>1, <2>2, <2>3 DEF BufferOK
  <2>5. DOMAIN iobuf' = {} /\ Range(iobuf') = {}
    BY <2>1 DEF Range
  <2> QED  BY <2>1, <2>3, <2>4, <2>5 DEF BufferOK, Ascending
<1>6. CASE FlushFails
  <2>1. iobuf' = iobuf /\ lost' = lost /\ line' = line /\ pc = "flush" /\ pc' = "reopen" /\ UNCHANGED <<op, after>>
    BY <1>6 DEF FlushFails, GoTo, hist
  <2>2. \A l : /\ Written(l)' => Written(l) \/ l \in Range(iobuf)
    <3>1. CASE UNCHANGED disk
      BY <3>1 DEF disk, Written, Inodes
    <3>2. ASSUME fd # NoFile, NEW n \in 0 .. Len(iobuf) - 1, WriteLines(SubSeq(iobuf, 1, n))
          PROVE  \A l : Written(l)' => Written(l) \/ l \in Range(iobuf)
      <4> DEFINE s == SubSeq(iobuf, 1, n)
      <4>1. s \in Seq(Lines) /\ fd \in Inodes /\ Writes(s)
        BY <1>1, <3>2, TypeParts DEF RefsTyped, WriteLines, Writes
      <4>2. DOMAIN s = 1 .. n /\ \A i \in 1 .. n : i \in DOMAIN iobuf /\ s[i] = iobuf[i]
        BY <1>1
      <4> HIDE DEF s
      <4>3. Range(s) \subseteq Range(iobuf)
        BY <4>2 DEF Range
      <4>4. \A l : Written(l)' <=> Written(l) \/ l \in Range(s)
        BY <1>1, <4>1, Wrote
      <4> QED  BY <4>3, <4>4
    <3> QED  BY <1>6, <3>1, <3>2 DEF FlushFails, WriteFails
  <2>3. \A i \in DOMAIN iobuf : \A m \in Lines \ (lost \cup Range(iobuf)) : Written(m)' => m < iobuf[i]
    BY <2>2 DEF BufferOK
  <2>4. op' = "emit" /\ Early' => line \notin Range(iobuf) /\ ~Written(line)'
    BY <2>1, <2>2 DEF BufferOK, Early, Flushing
  <2> QED  BY <2>1, <2>3, <2>4 DEF BufferOK, Ascending, Reported
<1>7. CASE FlushReopen \/ NewFile \/ Swap \/ Open
  <2>1. OpenPath /\ iobuf' = iobuf /\ lost' = lost /\ line' = line /\ op' = op
    BY <1>7 DEF FlushReopen, NewFile, Swap, Open, OpenActive, MakeRoom, FlushThen, GoTo
  <2>2. pc \in {"reopen", "retry"} => pc' \in {"reopen", "retry"}
    BY <1>7 DEF FlushReopen, NewFile, Swap, Open, GoTo
  <2>3. op = "emit" => (Early' => Early)
    BY <1>7 DEF FlushReopen, NewFile, Swap, Open, GoTo, Early, Flushing
  <2> QED  BY <2>1, <2>2, <2>3, SameWritten, SamePending
<1>8. CASE FlushReopenFails \/ FlushRetryFails
  <2>1. iobuf' = <<>> /\ op' # "emit"
    BY <1>8 DEF FlushReopenFails, FlushRetryFails, LosePending, Unlock, Rest, GoTo
  <2> QED  BY <2>1, NothingPending
<1>9. CASE Archive \/ Prune \/ Check \/ IsOpen
  <2>1. Keeps /\ iobuf' = iobuf /\ lost' = lost /\ line' = line /\ op' = op
    BY <1>9 DEF Keeps, Archive, Prune, Check, IsOpen, MakeRoom, FlushThen, GoTo, disk, priv, hist
  <2>2. pc \notin {"reopen", "retry"} /\ Early
    BY <1>9 DEF Archive, Prune, Check, IsOpen, Early
  <2> QED  BY <2>1, <2>2, SameWritten, SamePending
<1>10. CASE NewFileFails \/ SwapFails \/ OpenFails \/ WriteBigFails \/ (FsyncFails /\ op = "emit")
  <2>1. Keeps /\ iobuf' = iobuf /\ line' = line /\ pc \notin {"reopen", "retry"}
    BY <1>10 DEF Keeps, NewFileFails, SwapFails, OpenFails, WriteBigFails, FsyncFails, disk, priv
  <2>2. lost' = lost \cup {line} /\ pc' = "idle" /\ op' = "none"
    BY <1>10 DEF NewFileFails, SwapFails, OpenFails, WriteBigFails, FsyncFails, EmitFails, Unlock, Rest
  <2>3. line \notin Range(iobuf)
    <3>1. CASE FsyncFails
      <4>1. DOMAIN iobuf = {}
        BY <3>1 DEF FsyncFails, CallOK
      <4> QED  BY <4>1 DEF Range
    <3>2. CASE ~FsyncFails
      BY <1>10, <3>2 DEF NewFileFails, SwapFails, OpenFails, WriteBigFails, Early, BufferOK, CallOK
    <3> QED  BY <3>1, <3>2
  <2> QED  BY <2>1, <2>2, <2>3, SameWritten, FailedPending
<1>11. CASE Fsync \/ (FsyncFails /\ op # "emit")
  <2>1. iobuf' = <<>> /\ op' # "emit"
    BY <1>11 DEF Fsync, FsyncFails, CallOK, EmitReturns, Unlock, Rest, priv
  <2> QED  BY <2>1, NothingPending
<1>12. CASE WriteBig
  <2>1. iobuf' = <<>> /\ op' # "emit"
    BY <1>12 DEF WriteBig, CallOK, EmitReturns, Unlock, Rest
  <2> QED  BY <2>1, NothingPending
<1>13. CASE Buffer
  <2> DEFINE b == Append(iobuf, line)
             n == Len(iobuf)
  <2>1. /\ Keeps /\ iobuf' = b /\ lost' = lost /\ line' = line /\ op = "emit" /\ pc = "append" /\ Early
        /\ line \in Lines
    BY <1>13 DEF Keeps, Buffer, CallOK, Early, disk
  <2>2. /\ n \in Nat /\ DOMAIN b = 1 .. n + 1 /\ DOMAIN iobuf = 1 .. n /\ b[n + 1] = line
        /\ \A i \in 1 .. n : b[i] = iobuf[i]
    BY <1>1, <2>1
  <2> HIDE DEF b, n
  <2>3. line \notin Range(iobuf) /\ ~Written(line) /\ line \notin lost
    BY <2>1 DEF BufferOK
  <2>4. \A i \in 1 .. n : iobuf[i] \in Nat /\ iobuf[i] < line
    <3> TAKE i \in 1 .. n
    <3>1. iobuf[i] \in Range(iobuf) /\ iobuf[i] \in Nat
      BY <1>1, <2>2, Numbers DEF Range
    <3>2. iobuf[i] <= line
      BY <2>2 DEF BufferOK
    <3> QED  BY <1>1, <2>3, <3>1, <3>2
  <2>5. \A i \in DOMAIN b : i = n + 1 \/ i \in 1 .. n
    BY <2>2
  <2>6. Ascending(b)
    BY <2>2, <2>4, <2>5 DEF Ascending, BufferOK
  <2>7. \A i \in DOMAIN b : b[i] <= line /\ b[i] \notin lost /\ ~Written(b[i])
    BY <1>1, <2>1, <2>2, <2>3, <2>4, <2>5 DEF BufferOK, Reported
  <2>8. Range(iobuf) \subseteq Range(b) /\ line \in Range(b)
    BY <2>2 DEF Range
  <2>9. \A i \in DOMAIN b : \A m \in Lines \ (lost \cup Range(b)) : Written(m) => m < b[i]
    BY <1>1, <2>2, <2>5, <2>8 DEF BufferOK
  <2>10. op' = "emit" => ~Early' /\ line \notin lost
    BY <1>13, <2>3 DEF Buffer, FlushThen, EmitReturns, Unlock, Rest, Early, Flushing
  <2>11. \A l : Written(l)' <=> Written(l)
    BY <2>1, SameWritten
  <2> QED  BY <2>1, <2>6, <2>7, <2>9, <2>10, <2>11 DEF BufferOK, Reported, Ascending
<1>14. CASE Crash \/ Start
  <2>1. iobuf' = <<>> /\ op' # "emit"
    BY <1>14 DEF Crash, Start, Unlock, Rest
  <2> QED  BY <2>1, NothingPending
<1>15. CASE Destroy \/ ExternalMove \/ ExternalCreate \/ Tick
  <2>1. (Keeps \/ Creates) /\ iobuf' = iobuf /\ lost' = lost /\ line' = line
    BY <1>15 DEF Keeps, Creates, Destroy, ExternalMove, ExternalCreate, Tick, disk, priv, call, hist
  <2>2. pc \in {"reopen", "retry"} => pc' \in {"reopen", "retry"}
    BY <1>15 DEF Destroy, ExternalMove, ExternalCreate, Tick, call
  <2>3. op' = "emit" => op = "emit" /\ (Early' => Early)
    BY <1>15 DEF Destroy, ExternalMove, ExternalCreate, Tick, call, Rest, Early, Flushing
  <2> QED  BY <2>1, <2>2, <2>3, SameWritten, SamePending
<1> QED  BY <1>2, <1>3, <1>4, <1>5, <1>6, <1>7, <1>8, <1>9, <1>10, <1>11, <1>12, <1>13, <1>14, <1>15
         DEF Next, Call, FlushStep, RotateStep, EmitStep, Environment

-----------------------------------------------------------------------------
(* The accounts *)

LEMMA LostFinite ==
    ASSUME TypeOK, CallOK
    PROVE  /\ IsFiniteSet(lost) /\ Cardinality(lost) \in Nat
           /\ op = "emit" => Cardinality(lost \cup {line}) <= Cardinality(lost) + 1
           /\ Cardinality(lost \cup Range(iobuf)) <= Cardinality(lost) + Len(iobuf)
           /\ op = "emit" => Cardinality(lost \cup Range(iobuf) \cup {line}) <= Cardinality(lost) + Len(iobuf) + 1
<1>1. lost \subseteq Lines /\ iobuf \in Seq(Lines) /\ IsFiniteSet(Lines)
  BY TypeParts, Numbers, FS_Interval DEF SetsTyped, CountersTyped, Lines
<1>2. IsFiniteSet(lost) /\ Cardinality(lost) \in Nat
  BY <1>1, FS_Subset, FS_CardinalityType
<1>3. DOMAIN iobuf = 1 .. Len(iobuf) /\ Len(iobuf) \in Nat
  BY <1>1
<1>4. IsFiniteSet(Range(iobuf)) /\ Cardinality(Range(iobuf)) \in Nat /\ Cardinality(Range(iobuf)) <= Len(iobuf)
  <2> DEFINE R == Range(iobuf)
  <2>1. iobuf \in Surjection(DOMAIN iobuf, R)
    <3>1. iobuf = [i \in DOMAIN iobuf |-> iobuf[i]]
      BY <1>1
    <3> QED  BY <3>1 DEF Surjection, Range
  <2>2. IsFiniteSet(DOMAIN iobuf) /\ Cardinality(DOMAIN iobuf) = Len(iobuf)
    <3> DEFINE n == Len(iobuf)
    <3>1. n \in Nat /\ DOMAIN iobuf = 1 .. n
      BY <1>3
    <3> HIDE DEF n
    <3>2. IsFiniteSet(1 .. n) /\ Cardinality(1 .. n) = n
      BY <3>1, FS_Interval
    <3> QED  BY <3>1, <3>2 DEF n
  <2> HIDE DEF R
  <2>3. IsFiniteSet(R) /\ Cardinality(R) <= Len(iobuf)
    BY <2>1, <2>2, FS_Surjection
  <2> QED  BY <2>3, FS_CardinalityType DEF R
<1>5. IsFiniteSet(lost \cup Range(iobuf)) /\ Cardinality(lost \cup Range(iobuf)) \in Nat
      /\ Cardinality(lost \cup Range(iobuf)) <= Cardinality(lost) + Len(iobuf)
  <2> DEFINE R == Range(iobuf)
             U == lost \cup R
             V == lost \cap R
  <2>1. IsFiniteSet(R) /\ Cardinality(R) \in Nat /\ Cardinality(R) <= Len(iobuf)
    BY <1>4
  <2> HIDE DEF R
  <2>2. IsFiniteSet(U) /\ Cardinality(U) = Cardinality(lost) + Cardinality(R) - Cardinality(V)
    BY <1>2, <2>1, FS_Union
  <2>3. Cardinality(V) \in Nat
    BY <1>2, <2>1, FS_Intersection, FS_CardinalityType
  <2> HIDE DEF U, V
  <2>4. Cardinality(U) <= Cardinality(lost) + Len(iobuf) /\ Cardinality(U) \in Nat
    BY <1>2, <1>3, <2>1, <2>2, <2>3, FS_CardinalityType
  <2> QED  BY <2>2, <2>4 DEF U, R
<1>6. ASSUME NEW S, IsFiniteSet(S), NEW n \in Nat, Cardinality(S) <= n
      PROVE  Cardinality(S \cup {line}) <= n + 1
  <2>1. Cardinality(S \cup {line}) = Cardinality(S) \/ Cardinality(S \cup {line}) = Cardinality(S) + 1
    <3>1. CASE line \in S
      <4>1. S \cup {line} = S
        BY <3>1
      <4> QED  BY <4>1
    <3>2. CASE line \notin S
      BY <1>6, <3>2, FS_AddElement
    <3> QED  BY <3>1, <3>2
  <2>2. Cardinality(S) \in Nat
    BY <1>6, FS_CardinalityType
  <2> QED  BY <1>6, <2>1, <2>2
<1>7. Cardinality(lost \cup {line}) <= Cardinality(lost) + 1
  BY <1>2, <1>6
<1>8. Cardinality(lost) + Len(iobuf) \in Nat
  BY <1>2, <1>3
<1>9. Cardinality(lost \cup Range(iobuf) \cup {line}) <= Cardinality(lost) + Len(iobuf) + 1
  BY <1>5, <1>6, <1>8
<1> QED  BY <1>2, <1>5, <1>7, <1>9

LEMMA Counted ==
    ASSUME NEW n \in Nat, NEW S \in SUBSET (1 .. n)
    PROVE  Cardinality(S) \in Nat
<1>1. IsFiniteSet(1 .. n)
  BY FS_Interval
<1>2. IsFiniteSet(S)
  BY <1>1, FS_Subset
<1> QED  BY <1>2, FS_CardinalityType

(* A step that loses no trace of a line. *)
LEMMA StillAccounted ==
    ASSUME LinesOK, line' = line, lost \subseteq lost', gone' = gone, returned' \subseteq returned \cup {line},
           line \in Nat, returned' = returned \/ line > 0,
           lost' \subseteq 1 .. line,
           \A l : Written(l) => Written(l)',
           \A l \in Range(iobuf) : l \in Range(iobuf') \/ l \in lost' \/ Written(l)',
           op = "emit" => op' = "emit" \/ line \in lost' \/ Written(line)',
           failed' >= Cardinality(lost'),
           op' = "emit" /\ pc' = "fsync" => Written(line)'
    PROVE  LinesOK'
<1>1. (lost \cup gone \cup returned)' \subseteq 1 .. line'
  <2>1. returned' = returned \/ line \in 1 .. line
    OBVIOUS
  <2>2. gone \subseteq 1 .. line /\ returned \subseteq 1 .. line
    BY DEF LinesOK
  <2> QED  BY <2>1, <2>2
<1>2. ASSUME NEW l \in 1 .. line'  PROVE Accounted(l)'
  <2>1. Written(l) \/ l \in Range(iobuf) \/ l \in InHand \/ l \in lost \/ l \in gone
    BY DEF LinesOK, Accounted
  <2>2. CASE l \in InHand
    <3>1. op = "emit" /\ l = line
      BY <2>2 DEF InHand
    <3> QED  BY <3>1 DEF Accounted, InHand
  <2> QED  BY <2>1, <2>2 DEF Accounted
<1>3. (op = "emit" /\ pc = "fsync" => Written(line))'
  OBVIOUS
<1> QED  BY <1>1, <1>2, <1>3 DEF LinesOK

LEMMA LinesOKStep ==
    ASSUME TypeOK, CallOK, BufferOK, LinesOK, Next
    PROVE  LinesOK'
<1> USE DEF At
<1>1. /\ line \in Nat /\ iobuf \in Seq(Lines) /\ FilesTyped /\ failed \in Nat
      /\ op = "emit" => line \in 1 .. line /\ line > 0
      /\ lost \subseteq 1 .. line /\ failed >= Cardinality(lost) /\ Cardinality(lost) \in Nat
      /\ Len(iobuf) \in Nat
  BY TypeParts, LostFinite DEF CountersTyped, SetsTyped, CallOK, LinesOK, Lines
<1>2. ASSUME NEW t \in 0 .. MaxNow, Emit(t)  PROVE LinesOK'
  <2>1. /\ iobuf' = iobuf /\ lost' = lost /\ gone' = gone /\ returned' = returned /\ failed' = failed
        /\ line' = line + 1 /\ op' = "emit" /\ Keeps /\ pc' # "fsync" /\ op = "none"
    BY <1>2 DEF Emit, priv, disk, Keeps, CallOK
  <2>2. \A l : Written(l)' <=> Written(l)
    BY <2>1, SameWritten
  <2>3. (lost \cup gone \cup returned)' \subseteq 1 .. line'
    BY <1>1, <2>1 DEF LinesOK
  <2>4. ASSUME NEW l \in 1 .. line'  PROVE Accounted(l)'
    <3>1. l \in 1 .. line \/ l = line'
      BY <1>1, <2>1
    <3> QED  BY <2>1, <2>2, <3>1 DEF LinesOK, Accounted, InHand
  <2> QED  BY <1>1, <2>1, <2>3, <2>4 DEF LinesOK
(* The books stay as they are. *)
<1>3. ASSUME Keeps \/ Creates \/ Syncs \/ OpenPath, iobuf' = iobuf, line' = line,
             UNCHANGED <<lost, gone, returned, failed>>,
             op = "emit" => op' = "emit", op' = "emit" => pc' # "fsync" \/ (op = "emit" /\ pc = "fsync")
      PROVE  LinesOK'
  <2>1. \A l : Written(l)' <=> Written(l)
    BY <1>3, SameWritten
  <2>2. op' = "emit" /\ pc' = "fsync" => Written(line)'
    BY <1>3, <2>1 DEF LinesOK
  <2> QED  BY <1>1, <1>3, <2>1, <2>2, StillAccounted
<1>4. CASE Flush \/ Sync \/ Periodic \/ Close
  <2>1. /\ Keeps /\ iobuf' = iobuf /\ line' = line /\ UNCHANGED <<lost, gone, returned, failed>>
        /\ op = "none" /\ op' # "emit"
    BY <1>4 DEF Keeps, Flush, Sync, Periodic, Close, Operation, disk, priv, hist, CallOK
  <2> QED  BY <1>3, <2>1
<1>5. CASE FlushNothing
  <2>1. Keeps /\ iobuf' = iobuf /\ line' = line /\ UNCHANGED <<lost, gone, returned, failed>>
    BY <1>5 DEF Keeps, FlushNothing, disk, priv, hist
  <2>2. op = "emit" => op' = "emit" /\ pc' # "fsync"
    BY <1>5 DEF FlushNothing, Unlock, Rest, GoTo, Flushing, CallOK, Late
  <2>3. op' = "emit" => op = "emit"
    BY <1>5 DEF FlushNothing, Unlock, Rest, GoTo
  <2> QED  BY <1>3, <2>1, <2>2, <2>3
<1>6. CASE FlushWrite \/ FlushRetry
  <2>1. /\ fd \in Inodes /\ Writes(iobuf) /\ line' = line /\ Flushing
        /\ UNCHANGED <<lost, gone, failed>>
    BY <1>6, TypeParts DEF FlushWrite, FlushRetry, Flushed, WriteLines, Writes, RefsTyped, CallOK, Flushing
  <2>2. \A l : Written(l)' <=> Written(l) \/ l \in Range(iobuf)
    BY <1>1, <2>1, Wrote
  <2>3. op = "emit" /\ after \in {"return", "fsync"} => line \in Range(iobuf)
    <3> SUFFICES ASSUME op = "emit", after \in {"return", "fsync"}  PROVE line \in Range(iobuf)
      OBVIOUS
    <3>1. iobuf # <<>> /\ iobuf[Len(iobuf)] = line
      BY <2>1 DEF CallOK, Late, Last
    <3>2. Len(iobuf) \in DOMAIN iobuf
      BY <1>1, <3>1
    <3> QED  BY <3>1, <3>2 DEF Range
  <2>4. op' = "emit" => op = "emit" /\ pc' = after
    BY <1>6 DEF FlushWrite, FlushRetry, Flushed, FlushReturns, EmitReturns, Unlock, Rest, GoTo
  <2>5. op = "emit" => op' = "emit" \/ after = "return"
    BY <1>6 DEF FlushWrite, FlushRetry, Flushed, FlushReturns, EmitReturns, Unlock, Rest, GoTo
  <2>6. returned' = returned \/ (op = "emit" /\ returned' = returned \cup {line})
    BY <1>6 DEF FlushWrite, FlushRetry, Flushed, FlushReturns, EmitReturns
  <2>7. op = "emit" => op' = "emit" \/ Written(line)'
    BY <2>1, <2>2, <2>3, <2>5
  <2>8. op' = "emit" /\ pc' = "fsync" => Written(line)'
    BY <2>1, <2>2, <2>3, <2>4
  <2> QED  BY <1>1, <2>1, <2>2, <2>6, <2>7, <2>8, StillAccounted
<1>7. CASE FlushFails
  <2>1. /\ iobuf' = iobuf /\ line' = line /\ pc' = "reopen" /\ UNCHANGED <<op, after>>
        /\ UNCHANGED <<lost, gone, returned, failed>>
    BY <1>7 DEF FlushFails, GoTo, hist
  <2>2. \A l : Written(l) => Written(l)'
    <3>1. CASE UNCHANGED disk
      BY <3>1 DEF disk, Written, Inodes
    <3>2. ASSUME fd # NoFile, NEW n \in 0 .. Len(iobuf) - 1, WriteLines(SubSeq(iobuf, 1, n))
          PROVE  \A l : Written(l) => Written(l)'
      <4>1. SubSeq(iobuf, 1, n) \in Seq(Lines)
        BY <1>1
      <4>2. fd \in Inodes /\ Writes(SubSeq(iobuf, 1, n))
        BY <3>2, TypeParts DEF RefsTyped, WriteLines, Writes
      <4> QED  BY <1>1, <4>1, <4>2, Wrote
    <3> QED  BY <1>7, <3>1, <3>2 DEF FlushFails, WriteFails
  <2> QED  BY <1>1, <2>1, <2>2, StillAccounted
<1>8. CASE FlushReopenFails \/ FlushRetryFails
  <2>1. /\ iobuf' = <<>> /\ line' = line /\ gone' = gone /\ returned' = returned /\ op' # "emit"
        /\ lost' = lost \cup Range(iobuf) \cup (IF op = "emit" THEN {line} ELSE {})
        /\ failed' = failed + Len(iobuf) + (IF op = "emit" THEN 1 ELSE 0)
    BY <1>8 DEF FlushReopenFails, FlushRetryFails, LosePending, Unlock, Rest, GoTo
  <2>2. \A l : Written(l) => Written(l)'
    <3>1. CASE UNCHANGED disk
      BY <3>1 DEF disk, Written, Inodes
    <3>2. ASSUME fd # NoFile, NEW n \in 0 .. Len(iobuf) - 1, WriteLines(SubSeq(iobuf, 1, n))
          PROVE  \A l : Written(l) => Written(l)'
      <4>1. SubSeq(iobuf, 1, n) \in Seq(Lines)
        BY <1>1
      <4>2. fd \in Inodes /\ Writes(SubSeq(iobuf, 1, n))
        BY <3>2, TypeParts DEF RefsTyped, WriteLines, Writes
      <4> QED  BY <1>1, <4>1, <4>2, Wrote
    <3> QED  BY <1>8, <3>1, <3>2 DEF FlushReopenFails, FlushRetryFails, WriteFails
  <2>3. Range(iobuf) \subseteq 1 .. line
    <3> SUFFICES ASSUME NEW i \in DOMAIN iobuf  PROVE iobuf[i] \in 1 .. line
      BY DEF Range
    <3>1. iobuf[i] \in Lines /\ iobuf[i] <= line
      BY <1>1 DEF BufferOK
    <3> QED  BY <1>1, <3>1 DEF Lines
  <2>4. failed' >= Cardinality(lost')
    <3>1. CASE op = "emit"
      <4>1. Cardinality(lost') <= Cardinality(lost) + Len(iobuf) + 1
        BY <2>1, <3>1, LostFinite
      <4>2. lost' \subseteq 1 .. line
        BY <1>1, <2>1, <2>3, <3>1
      <4>3. Cardinality(lost') \in Nat
        BY <1>1, <4>2, Counted
      <4> QED  BY <1>1, <2>1, <3>1, <4>1, <4>3
    <3>2. CASE op # "emit"
      <4>1. Cardinality(lost') <= Cardinality(lost) + Len(iobuf)
        BY <2>1, <3>2, LostFinite
      <4>2. lost' \subseteq 1 .. line
        BY <1>1, <2>1, <2>3, <3>2
      <4>3. Cardinality(lost') \in Nat
        BY <1>1, <4>2, Counted
      <4> QED  BY <1>1, <2>1, <3>2, <4>1, <4>3
    <3> QED  BY <3>1, <3>2
  <2>5. lost \subseteq lost' /\ lost' \subseteq 1 .. line /\ (op = "emit" => line \in lost')
        /\ Range(iobuf) \subseteq lost'
    BY <1>1, <2>1, <2>3
  <2> QED  BY <1>1, <2>1, <2>2, <2>4, <2>5, StillAccounted
<1>9. CASE FlushReopen \/ NewFile \/ Swap \/ Open
  <2>1. /\ OpenPath /\ iobuf' = iobuf /\ line' = line /\ op' = op /\ UNCHANGED <<lost, gone, returned, failed>>
        /\ pc' # "fsync"
    BY <1>9 DEF FlushReopen, NewFile, Swap, Open, OpenActive, MakeRoom, FlushThen, GoTo
  <2> QED  BY <1>3, <2>1
<1>10. CASE Archive \/ Prune \/ Check \/ IsOpen
  <2>1. /\ Keeps /\ iobuf' = iobuf /\ line' = line /\ op' = op /\ UNCHANGED <<lost, gone, returned, failed>>
        /\ pc' # "fsync"
    BY <1>10 DEF Keeps, Archive, Prune, Check, IsOpen, MakeRoom, FlushThen, GoTo, disk, priv, hist
  <2> QED  BY <1>3, <2>1
<1>11. CASE NewFileFails \/ SwapFails \/ OpenFails \/ WriteBigFails \/ (FsyncFails /\ op = "emit")
  <2>1. Keeps /\ iobuf' = iobuf /\ line' = line /\ gone' = gone /\ returned' = returned /\ op = "emit"
    BY <1>11 DEF Keeps, NewFileFails, SwapFails, OpenFails, WriteBigFails, FsyncFails, disk, priv, CallOK
  <2>2. lost' = lost \cup {line} /\ failed' = failed + 1 /\ op' = "none"
    BY <1>11 DEF NewFileFails, SwapFails, OpenFails, WriteBigFails, FsyncFails, EmitFails, Unlock, Rest
  <2>3. lost' \subseteq 1 .. line
    BY <1>1, <2>1, <2>2
  <2>4. Cardinality(lost') \in Nat
    BY <1>1, <2>3, Counted
  <2>5. failed' >= Cardinality(lost')
    BY <1>1, <2>1, <2>2, <2>4, LostFinite
  <2>6. \A l : Written(l)' <=> Written(l)
    BY <2>1, SameWritten
  <2> QED  BY <1>1, <2>1, <2>2, <2>3, <2>5, <2>6, StillAccounted
<1>12. CASE FsyncFails /\ op # "emit"
  <2>1. Keeps /\ iobuf' = iobuf /\ line' = line /\ UNCHANGED <<lost, gone, returned, failed>> /\ op' # "emit"
    BY <1>12 DEF FsyncFails, Unlock, Rest, Keeps, disk, priv
  <2> QED  BY <1>3, <1>12, <2>1
<1>13. CASE Fsync
  <2>1. /\ content' = content /\ iobuf' = iobuf /\ line' = line /\ UNCHANGED <<lost, gone, failed>> /\ op' # "emit"
        /\ pc = "fsync"
        /\ \/ returned' = returned
           \/ op = "emit" /\ returned' = returned \cup {line}
    BY <1>13 DEF Fsync, EmitReturns, Unlock, Rest, priv
  <2>2. \A l : Written(l)' <=> Written(l)
    BY <2>1 DEF Written, Inodes
  <2>3. op = "emit" => Written(line)'
    BY <2>1, <2>2 DEF LinesOK
  <2> QED  BY <1>1, <2>1, <2>2, <2>3, StillAccounted
<1>14. CASE WriteBig
  <2>1. /\ fd \in Inodes /\ Writes(<<line>>) /\ <<line>> \in Seq(Lines) /\ op = "emit"
        /\ iobuf' = iobuf /\ line' = line /\ UNCHANGED <<lost, gone, failed>> /\ op' # "emit"
        /\ returned' = returned \cup {line}
    BY <1>14, TypeParts DEF WriteBig, WriteLines, Writes, RefsTyped, CallOK, EmitReturns, Unlock, Rest
  <2>2. \A l : Written(l)' <=> Written(l) \/ l \in Range(<<line>>)
    BY <1>1, <2>1, Wrote
  <2>3. line \in Range(<<line>>)
    <3>1. 1 \in DOMAIN <<line>> /\ <<line>>[1] = line
      OBVIOUS
    <3> QED  BY <3>1 DEF Range
  <2>4. Written(line)'
    BY <2>1, <2>2, <2>3
  <2> QED  BY <1>1, <2>1, <2>2, <2>4, StillAccounted
<1>15. CASE Buffer
  <2>1. /\ Keeps /\ iobuf' = Append(iobuf, line) /\ line' = line /\ UNCHANGED <<lost, gone, failed>>
        /\ returned' = returned \/ returned' = returned \cup {line}
        /\ op = "emit" /\ line \in Lines /\ pc' # "fsync"
    BY <1>15 DEF Keeps, Buffer, disk, EmitReturns, FlushThen, Unlock, Rest, CallOK
  <2>2. \A l : Written(l)' <=> Written(l)
    BY <2>1, SameWritten
  <2>3. Range(iobuf) \subseteq Range(iobuf') /\ line \in Range(iobuf')
    <3> DEFINE b == Append(iobuf, line)
               n == Len(iobuf)
    <3>1. n \in Nat /\ DOMAIN iobuf = 1 .. n /\ DOMAIN b = 1 .. n + 1 /\ b[n + 1] = line
          /\ \A i \in 1 .. n : b[i] = iobuf[i]
      BY <1>1, <2>1
    <3> HIDE DEF b, n
    <3>2. Range(iobuf) \subseteq Range(b) /\ line \in Range(b)
      BY <3>1 DEF Range
    <3> QED  BY <2>1, <3>2 DEF b
  <2>4. (lost \cup gone \cup returned)' \subseteq 1 .. line'
    BY <1>1, <2>1 DEF LinesOK
  <2>5. ASSUME NEW l \in 1 .. line'  PROVE Accounted(l)'
    BY <2>1, <2>2, <2>3 DEF LinesOK, Accounted, InHand
  <2> QED  BY <1>1, <2>1, <2>4, <2>5 DEF LinesOK
<1>16. CASE Crash
  <2>1. /\ line' = line /\ UNCHANGED <<lost, returned, failed>> /\ op' # "emit"
        /\ gone' = {l \in 1 .. line : l \notin lost /\ ~Written(l)'}
    BY <1>16 DEF Crash, Rest
  <2>2. (lost \cup gone \cup returned)' \subseteq 1 .. line'
    BY <2>1 DEF LinesOK
  <2>3. ASSUME NEW l \in 1 .. line'  PROVE Accounted(l)'
    BY <2>1 DEF Accounted
  <2> QED  BY <1>1, <2>1, <2>2, <2>3 DEF LinesOK
<1>17. CASE Start
  <2>1. /\ OpenPath /\ iobuf' = iobuf /\ line' = line /\ UNCHANGED <<lost, gone, returned, failed>>
        /\ op = "none" /\ op' # "emit"
    BY <1>17 DEF Start, OpenActive, Unlock, Rest, CallOK
  <2> QED  BY <1>3, <2>1
<1>18. CASE Destroy \/ ExternalMove \/ ExternalCreate \/ Tick
  <2>1. /\ Keeps \/ Creates
        /\ iobuf' = iobuf /\ line' = line /\ UNCHANGED <<lost, gone, returned, failed>>
    BY <1>18 DEF Keeps, Creates, Destroy, ExternalMove, ExternalCreate, Tick, disk, priv, call, hist
  <2>2. (op = "emit" => op' = "emit") /\ (op' = "emit" => op = "emit" /\ pc' = pc)
    BY <1>18 DEF Destroy, ExternalMove, ExternalCreate, Tick, call, Rest, CallOK
  <2> QED  BY <1>3, <2>1, <2>2
<1> QED  BY <1>2, <1>4, <1>5, <1>6, <1>7, <1>8, <1>9, <1>10, <1>11, <1>12, <1>13, <1>14, <1>15, <1>16, <1>17, <1>18
         DEF Next, Call, FlushStep, RotateStep, EmitStep, Environment

-----------------------------------------------------------------------------
(* What is on the medium *)

LEMMA DurableStays ==
    ASSUME TypeOK, FilesOK, Kind
    PROVE  \A l : Durable(l) => Durable(l)'
<1> SUFFICES ASSUME NEW l, Durable(l)  PROVE Durable(l)'
  OBVIOUS
<1>1. FilesTyped
  BY TypeParts
<1>2. PICK f \in Inodes : \E i \in DOMAIN content[f] : i <= synced[f] /\ content[f][i] = l
  BY DEF Durable
<1>3. PICK i \in DOMAIN content[f] : i <= synced[f] /\ content[f][i] = l
  BY <1>2
<1>4. i \in Nat /\ i >= 1 /\ i <= Len(content[f]) /\ Len(content[f]) \in Nat /\ synced[f] \in Nat
  BY <1>1, FileTypes
<1>5. ASSUME f \in Inodes', i \in DOMAIN content'[f], content'[f][i] = l, i <= synced'[f]
      PROVE  Durable(l)'
  BY <1>5 DEF Durable
<1>6. CASE Keeps
  BY <1>3, <1>5, <1>6 DEF Keeps, Inodes
<1>7. CASE Creates
  BY <1>1, <1>3, <1>5, <1>7, Created
<1>8. CASE OpenPath
  BY <1>6, <1>7, <1>8, Opened
<1>9. ASSUME fd \in Inodes, NEW s \in Seq(Lines), Writes(s)  PROVE Durable(l)'
  <2>1. /\ Inodes' = Inodes /\ synced' = synced
        /\ \A h \in Inodes : h # fd => content'[h] = content[h]
        /\ \A k \in DOMAIN content[fd] : content'[fd][k] = content[fd][k]
        /\ DOMAIN content'[fd] = 1 .. Len(content[fd]) + Len(s) /\ Len(s) \in Nat
    BY <1>1, <1>9, Wrote
  <2>2. i \in DOMAIN content'[f]
    BY <1>4, <2>1
  <2> QED  BY <1>3, <1>5, <2>1, <2>2
<1>10. CASE fd \in Inodes /\ Syncs
  <2>1. /\ Inodes' = Inodes /\ content' = content /\ synced'[fd] = Len(content[fd])
        /\ \A h \in Inodes : h # fd => synced'[h] = synced[h]
    BY <1>1, <1>10 DEF Syncs, Inodes, FilesTyped
  <2>2. i <= synced'[f]
    BY <1>3, <1>4, <2>1
  <2> QED  BY <1>3, <1>5, <2>1, <2>2
<1>11. CASE Cuts
  <2>1. /\ Inodes' = Inodes /\ synced' = synced
        /\ DOMAIN content'[f] = 1 .. synced[f]
        /\ \A k \in 1 .. synced[f] : content'[f][k] = content[f][k]
    BY <1>1, <1>11, Cut DEF FilesOK
  <2>2. i \in 1 .. synced[f]
    BY <1>3, <1>4
  <2> QED  BY <1>3, <1>5, <2>1, <2>2
<1> QED  BY <1>6, <1>7, <1>8, <1>9, <1>10, <1>11 DEF Kind

LEMMA EntryPendingStep ==
    ASSUME TypeOK, CallOK, LinesOK, EntryPending, Next
    PROVE  EntryPending' /\ fsync_sev' = fsync_sev
<1> USE DEF At
<1>1. line \in Nat /\ iobuf \in Seq(Lines) /\ NamesTyped
  BY TypeParts DEF CountersTyped
(* The pending line stays where it is, or there is none. *)
<1>2. ASSUME fsync_sev' = fsync_sev, gone' = gone, line' = line, op' = "emit" => op = "emit",
             iobuf' = <<>> \/ (iobuf' = iobuf /\ op' = op /\ (Late => Late')),
             op' = "emit" /\ Late' => Late /\ after' = after
      PROVE  EntryPending' /\ fsync_sev' = fsync_sev
  BY <1>2 DEF EntryPending
<1>3. ASSUME iobuf # <<>>, fsync_sev = "entry"  PROVE op = "emit" /\ Flushing /\ after \in {"return", "fsync"}
  BY <1>3 DEF EntryPending, Late
<1>4. ASSUME NEW t \in 0 .. MaxNow, Emit(t)  PROVE EntryPending' /\ fsync_sev' = fsync_sev
  <2>1. /\ fsync_sev' = fsync_sev /\ gone' = gone /\ line' = line + 1 /\ iobuf' = iobuf /\ op = "none"
        /\ ~Late'
    BY <1>4 DEF Emit, priv, CallOK, Late, Flushing
  <2>2. line + 1 \notin gone
    BY <1>1 DEF LinesOK
  <2>3. fsync_sev = "entry" => iobuf = <<>>
    BY <1>3, <2>1
  <2> QED  BY <2>1, <2>2, <2>3 DEF EntryPending
<1>5. CASE Flush \/ Sync \/ Periodic \/ Close
  <2>1. /\ fsync_sev' = fsync_sev /\ gone' = gone /\ line' = line /\ iobuf' = iobuf /\ op = "none" /\ op' # "emit"
    BY <1>5 DEF Flush, Sync, Periodic, Close, Operation, priv, hist, CallOK
  <2>2. fsync_sev = "entry" => iobuf = <<>>
    BY <1>3, <2>1
  <2> QED  BY <2>1, <2>2 DEF EntryPending
<1>6. CASE FlushNothing
  <2>1. fsync_sev' = fsync_sev /\ gone' = gone /\ line' = line /\ iobuf' = <<>>
    BY <1>6 DEF FlushNothing, priv, hist
  <2>2. (op' = "emit" => op = "emit") /\ (op' = "emit" => ~Late')
    BY <1>6 DEF FlushNothing, Unlock, Rest, GoTo, Late, Flushing, CallOK
  <2> QED  BY <1>2, <2>1, <2>2
<1>7. CASE FlushWrite \/ FlushRetry
  <2>1. fsync_sev' = fsync_sev /\ gone' = gone /\ line' = line /\ iobuf' = <<>>
    BY <1>7 DEF FlushWrite, FlushRetry, Flushed
  <2>2. (op' = "emit" => op = "emit") /\ (op' = "emit" => ~Late')
    BY <1>7 DEF FlushWrite, FlushRetry, Flushed, FlushReturns, EmitReturns, Unlock, Rest, GoTo, Late, Flushing, CallOK
  <2> QED  BY <1>2, <2>1, <2>2
<1>8. CASE FlushFails \/ FlushReopen
  <2>1. fsync_sev' = fsync_sev /\ gone' = gone /\ line' = line /\ iobuf' = iobuf /\ UNCHANGED <<op, after>>
    BY <1>8 DEF FlushFails, FlushReopen, GoTo, hist
  <2>2. Flushing /\ Flushing'
    BY <1>8 DEF FlushFails, FlushReopen, GoTo, Flushing
  <2>3. Late' <=> Late
    BY <2>1, <2>2 DEF Late
  <2> QED  BY <1>2, <2>1, <2>3
<1>9. CASE FlushReopenFails \/ FlushRetryFails
  <2>1. fsync_sev' = fsync_sev /\ gone' = gone /\ line' = line /\ iobuf' = <<>> /\ op' # "emit"
    BY <1>9 DEF FlushReopenFails, FlushRetryFails, LosePending, Unlock, Rest, GoTo
  <2> QED  BY <1>2, <2>1
<1>10. CASE RotateStep
  <2>1. /\ fsync_sev' = fsync_sev /\ gone' = gone /\ line' = line /\ iobuf' = iobuf /\ ~Flushing /\ ~Late'
        /\ (op' = "emit" => op = "emit")
    BY <1>10 DEF RotateStep, Archive, NewFile, NewFileFails, Prune, EmitFails, Unlock, Rest, GoTo, Flushing, Late
  <2> QED  BY <1>3, <2>1 DEF EntryPending
<1>11. CASE Check \/ Swap \/ SwapFails \/ IsOpen \/ Open \/ OpenFails
  <2>1. /\ fsync_sev' = fsync_sev /\ gone' = gone /\ line' = line /\ iobuf' = iobuf /\ ~Flushing /\ ~Late'
        /\ (op' = "emit" => op = "emit")
    BY <1>11 DEF Check, Swap, SwapFails, IsOpen, Open, OpenFails, MakeRoom, FlushThen, EmitFails, Unlock, Rest, GoTo,
                 Flushing, Late, priv, hist
  <2> QED  BY <1>3, <2>1 DEF EntryPending
<1>12. CASE WriteBig \/ WriteBigFails \/ Fsync \/ FsyncFails
  <2>1. /\ fsync_sev' = fsync_sev /\ gone' = gone /\ line' = line /\ iobuf' = iobuf /\ ~Flushing /\ op' # "emit"
    BY <1>12 DEF WriteBig, WriteBigFails, Fsync, FsyncFails, EmitReturns, EmitFails, Unlock, Rest, Flushing, priv
  <2> QED  BY <1>3, <2>1 DEF EntryPending
<1>13. CASE Buffer
  <2>1. /\ fsync_sev' = fsync_sev /\ gone' = gone /\ line' = line /\ iobuf' = Append(iobuf, line) /\ ~Flushing
        /\ op = "emit" /\ line \in Lines
    BY <1>13 DEF Buffer, Flushing, CallOK
  <2>2. ASSUME fsync_sev = "entry"
        PROVE  /\ iobuf' = <<line>> /\ op' = "emit" /\ Late'
               /\ after' = "return" => Size[line] >= Threshold
    <3>1. iobuf' = <<line>>
      <4>1. iobuf = <<>>
        BY <1>3, <2>1, <2>2
      <4>2. Append(<<>>, line) = <<line>>
        OBVIOUS
      <4> QED  BY <2>1, <4>1, <4>2
    <3>2. Bytes(iobuf') = Size[line] /\ Size[line] \in Nat /\ Threshold \in Nat
      BY <2>1, <3>1, BytesOne, Numbers
    <3>3. IF Bytes(iobuf') >= Threshold THEN FlushThen("return") ELSE FlushThen("fsync")
      BY <1>13, <2>2 DEF Buffer
    <3> QED  BY <2>1, <3>1, <3>2, <3>3 DEF FlushThen, Late, Flushing
  <2>3. op' = "emit" => line \notin gone
    BY <2>1 DEF EntryPending
  <2> QED  BY <2>1, <2>2, <2>3 DEF EntryPending
<1>14. CASE Crash \/ Start
  <2>1. fsync_sev' = fsync_sev /\ iobuf' = <<>> /\ op' # "emit"
    BY <1>14 DEF Crash, Start, Unlock, Rest
  <2> QED  BY <2>1 DEF EntryPending
<1>15. CASE Destroy
  <2>1. fsync_sev' = fsync_sev /\ iobuf' = <<>> /\ op' # "emit"
    BY <1>15 DEF Destroy, CallOK, Rest
  <2> QED  BY <2>1 DEF EntryPending
<1>16. CASE ExternalMove \/ ExternalCreate \/ Tick
  <2>1. UNCHANGED <<fsync_sev, gone, line, iobuf, op, pc, after>>
    BY <1>16 DEF ExternalMove, ExternalCreate, Tick, priv, call, hist
  <2> QED  BY <2>1 DEF EntryPending, Late, Flushing
<1> QED  BY <1>4, <1>5, <1>6, <1>7, <1>8, <1>9, <1>10, <1>11, <1>12, <1>13, <1>14, <1>15, <1>16
         DEF Next, Call, FlushStep, EmitStep, Environment

LEMMA LandedStep ==
    ASSUME TypeOK, CallOK, Landed, Next
    PROVE  Landed'
<1> SUFFICES ASSUME op' = "emit", pc' = "fsync"  PROVE line' \in Range(content[fd])'
  BY DEF Landed
<1> USE DEF At
<1>1. ASSUME NEW t \in 0 .. MaxNow, Emit(t)  PROVE FALSE
  BY <1>1 DEF Emit
<1>2. ~(Flush \/ Sync \/ Periodic \/ Close)
  BY DEF Flush, Sync, Periodic, Close, Operation
<1>3. ~FlushNothing
  BY DEF FlushNothing, Unlock, Rest, GoTo, Flushing, Late, CallOK
<1>4. CASE FlushWrite \/ FlushRetry
  <2>1. fd \in Inodes /\ Writes(iobuf) /\ line' = line /\ fd' = fd /\ Flushing /\ op = "emit" /\ after = "fsync"
    BY <1>4, TypeParts DEF FlushWrite, FlushRetry, Flushed, WriteLines, Writes, RefsTyped, CallOK, Flushing, FlushReturns,
       EmitReturns, Unlock, Rest, GoTo
  <2>2. iobuf \in Seq(Lines) /\ FilesTyped
    BY TypeParts DEF CountersTyped
  <2> DEFINE n == Len(iobuf)
             k == Len(content[fd])
  <2>3. iobuf # <<>> /\ iobuf[n] = line
    BY <2>1 DEF CallOK, Late, Last
  <2>4. n \in DOMAIN iobuf
    BY <2>2, <2>3
  <2>5. k + n \in DOMAIN content'[fd] /\ content'[fd][k + n] = iobuf[n]
    BY <2>1, <2>2, <2>4, Wrote
  <2> HIDE DEF n, k
  <2> QED  BY <2>1, <2>3, <2>5 DEF Range
<1>5. ~(FlushFails \/ FlushReopen \/ FlushReopenFails \/ FlushRetryFails)
  BY DEF FlushFails, FlushReopen, FlushReopenFails, FlushRetryFails, LosePending, Unlock, Rest, GoTo
<1>6. ~RotateStep
  BY DEF RotateStep, Archive, NewFile, NewFileFails, Prune, EmitFails, Unlock, Rest, GoTo
<1>7. ~EmitStep
  BY DEF EmitStep, Check, Swap, SwapFails, IsOpen, Open, OpenFails, WriteBig, WriteBigFails, Buffer, Fsync, FsyncFails,
         MakeRoom, FlushThen, EmitFails, EmitReturns, Unlock, Rest, GoTo
<1>8. ~(Destroy \/ Start \/ Crash)
  BY DEF Destroy, Start, Crash, Unlock, Rest
<1>9. CASE ExternalMove \/ Tick
  BY <1>9 DEF ExternalMove, Tick, Landed, disk, priv, call
<1>10. CASE ExternalCreate
  <2>1. Creates /\ fd' = fd /\ line' = line /\ op = "emit" /\ pc = "fsync"
    BY <1>10 DEF ExternalCreate, Creates, priv, call
  <2>2. fd \in Inodes
    BY <2>1, TypeParts DEF CallOK, RefsTyped
  <2>3. content'[fd] = content[fd]
    BY <2>1, <2>2, Created, TypeParts
  <2> QED  BY <2>1, <2>3 DEF Landed
<1> QED  BY <1>1, <1>2, <1>3, <1>4, <1>5, <1>6, <1>7, <1>8, <1>9, <1>10
         DEF Next, Call, FlushStep, Environment

LEMMA EntryOKStep ==
    ASSUME TypeOK, CallOK, FilesOK, LinesOK, EntryOK, Next
    PROVE  EntryOK'
<1> USE DEF At
<1>1. EntryPending' /\ fsync_sev' = fsync_sev
  BY EntryPendingStep DEF EntryOK
<1>2. Landed'
  BY LandedStep DEF EntryOK
<1>3. \A l : Durable(l) => Durable(l)'
  BY StepKinds, DurableStays
<1> SUFFICES ASSUME fsync_sev = "entry", NEW l \in returned', Size[l] < Threshold
             PROVE  Durable(l)' /\ l \notin gone'
  BY <1>1, <1>2 DEF EntryOK
<1>4. ASSUME l \in returned, gone' = gone  PROVE Durable(l)' /\ l \notin gone'
  BY <1>3, <1>4 DEF EntryOK
<1>5. ASSUME NEW t \in 0 .. MaxNow, Emit(t)  PROVE Durable(l)' /\ l \notin gone'
  BY <1>4, <1>5 DEF Emit
<1>6. CASE Flush \/ Sync \/ Periodic \/ Close \/ FlushNothing
  BY <1>4, <1>6 DEF Flush, Sync, Periodic, Close, Operation, FlushNothing, hist
<1>7. CASE FlushWrite \/ FlushRetry
  <2>1. gone' = gone /\ Flushing
    BY <1>7 DEF FlushWrite, FlushRetry, Flushed, Flushing
  <2>2. CASE returned' = returned
    BY <1>4, <2>1, <2>2
  <2>3. CASE returned' # returned
    <3>1. op = "emit" /\ after = "return" /\ returned' = returned \cup {line}
      BY <1>7, <2>3 DEF FlushWrite, FlushRetry, Flushed, FlushReturns, EmitReturns
    <3>2. Size[line] >= Threshold
      BY <2>1, <3>1 DEF EntryOK, EntryPending, Late
    <3>3. line \in Lines /\ Size[line] \in Nat /\ Threshold \in Nat
      BY <3>1, Numbers DEF CallOK
    <3>4. l # line
      BY <3>2, <3>3
    <3> QED  BY <1>4, <2>1, <3>1, <3>4
  <2> QED  BY <2>2, <2>3
<1>8. CASE FlushFails \/ FlushReopen \/ FlushReopenFails \/ FlushRetryFails
  BY <1>4, <1>8 DEF FlushFails, FlushReopen, FlushReopenFails, FlushRetryFails, LosePending, hist
<1>9. CASE RotateStep
  BY <1>4, <1>9 DEF RotateStep, Archive, NewFile, NewFileFails, Prune, hist
<1>10. CASE Check \/ Swap \/ SwapFails \/ IsOpen \/ Open \/ OpenFails \/ WriteBigFails \/ FsyncFails
  BY <1>4, <1>10 DEF Check, Swap, SwapFails, IsOpen, Open, OpenFails, WriteBigFails, FsyncFails, hist
<1>11. CASE WriteBig
  <2>1. gone' = gone /\ returned' = returned \cup {line} /\ Size[line] > BufSize /\ line \in Lines
    BY <1>11 DEF WriteBig, EmitReturns, CallOK
  <2>2. Size[line] \in Nat /\ Threshold \in Nat /\ Threshold <= BufSize /\ BufSize \in Nat
    BY <2>1, Numbers
  <2>3. l # line
    BY <2>1, <2>2
  <2> QED  BY <1>4, <2>1, <2>3
<1>12. CASE Buffer
  BY <1>4, <1>12 DEF Buffer, FlushThen
<1>13. CASE Fsync
  <2>1. gone' = gone
    BY <1>13 DEF Fsync
  <2>2. CASE l \in returned
    BY <1>4, <2>1, <2>2
  <2>3. CASE l \notin returned
    <3>1. op = "emit" /\ pc = "fsync" /\ l = line
      BY <1>13, <2>3 DEF Fsync, EmitReturns
    <3>2. fd \in Inodes /\ fd # NoFile /\ FilesTyped
      BY <3>1, TypeParts DEF CallOK, RefsTyped
    <3>3. l \in Range(content[fd]) /\ l \notin gone
      BY <3>1 DEF EntryOK, EntryPending, Landed
    <3>4. PICK i \in DOMAIN content[fd] : content[fd][i] = l
      BY <3>3 DEF Range
    <3>5. content' = content /\ synced' = [synced EXCEPT ![fd] = Len(content[fd])]
      BY <1>13, <3>2 DEF Fsync
    <3>6. synced'[fd] = Len(content[fd]) /\ i <= Len(content[fd]) /\ Inodes' = Inodes
      BY <3>2, <3>4, <3>5, FileTypes DEF FilesTyped, Inodes
    <3> QED  BY <2>1, <3>2, <3>3, <3>4, <3>5, <3>6 DEF Durable
  <2> QED  BY <2>2, <2>3
<1>14. CASE Crash
  <2>1. l \in returned /\ gone' = {k \in 1 .. line : k \notin lost /\ ~Written(k)'}
    BY <1>14 DEF Crash
  <2>2. Durable(l)'
    BY <1>3, <2>1 DEF EntryOK
  <2>3. Written(l)'
    BY <2>2 DEF Durable, Written, Range
  <2> QED  BY <2>1, <2>2, <2>3
<1>15. CASE Destroy \/ Start \/ ExternalMove \/ ExternalCreate \/ Tick
  BY <1>4, <1>15 DEF Destroy, Start, ExternalMove, ExternalCreate, Tick, hist
<1> QED  BY <1>5, <1>6, <1>7, <1>8, <1>9, <1>10, <1>11, <1>12, <1>13, <1>14, <1>15
         DEF Next, Call, FlushStep, EmitStep, Environment

-----------------------------------------------------------------------------
(* Noticing a replaced file *)

LEMMA NoneBehind ==
    ASSUME behind' = {}, fd' # NoFile /\ pc' # "prune" => file_id' = fd'
    PROVE  BehindOK'
<1>1. Cardinality(behind') = 0 /\ CheckEvery \in Nat
  BY FS_EmptySet, Numbers
<1> QED  BY <1>1 DEF BehindOK

LEMMA SameBehind ==
    ASSUME BehindOK, line \in Nat, lines_since_check \in Nat, behind' = behind, line' = line, pc' # "retry" \/ pc = "retry",
           \/ fd' = NoFile
           \/ /\ UNCHANGED <<fd, file_id, lines_since_check>>
              /\ active' = active
              /\ pc # "prune"
              /\ pc' # "prune"
              /\ Swapping => Swapping'
              /\ Unchecked => Unchecked' \/ behind = {}
    PROVE  BehindOK'
<1> USE DEF BehindOK
<1>1. CASE fd' = NoFile
  BY <1>1
<1>2. CASE fd' # NoFile
  <2>1. /\ UNCHANGED <<fd, file_id, lines_since_check, active>>
        /\ pc # "prune" /\ pc' # "prune"
        /\ Swapping => Swapping'
        /\ Unchecked => Unchecked' \/ behind = {}
    BY <1>2
  <2> HIDE DEF Swapping, Unchecked
  <2>2. ASSUME behind # {}
        PROVE  Swapping' \/ Cardinality(behind) <= lines_since_check' + (IF Unchecked' THEN 1 ELSE 0)
    <3>1. CASE Swapping
      BY <2>1, <3>1
    <3>2. CASE ~Swapping
      <4>1. Cardinality(behind) <= lines_since_check + (IF Unchecked THEN 1 ELSE 0)
        BY <1>2, <2>1, <2>2, <3>2
      <4>2. CASE Unchecked
        BY <2>1, <2>2, <4>1, <4>2
      <4>3. CASE ~Unchecked /\ ~Unchecked'
        BY <2>1, <4>1, <4>3
      <4>4. CASE ~Unchecked /\ Unchecked'
        <5>1. behind \in SUBSET (1 .. line)
          OBVIOUS
        <5>2. Cardinality(behind) \in Nat
          BY <5>1, Counted
        <5>3. Cardinality(behind) <= lines_since_check /\ lines_since_check \in Nat
          BY <4>1, <4>4, <5>2
        <5> QED  BY <2>1, <4>4, <5>2, <5>3
      <4> QED  BY <4>2, <4>3, <4>4
    <3> QED  BY <3>1, <3>2
  <2> QED  BY <1>2, <2>1, <2>2
<1> QED  BY <1>1, <1>2

LEMMA BehindOKStep ==
    ASSUME TypeOK, CallOK, BehindOK, Next
    PROVE  BehindOK'
<1> USE DEF At
<1>1. /\ line \in Nat /\ NamesTyped /\ CheckEvery \in Nat /\ Cardinality(behind) \in Nat
      /\ behind \in SUBSET (1 .. line) /\ IsFiniteSet(behind)
      /\ lines_since_check \in Nat /\ lines_since_check < CheckEvery
  <2>1. /\ line \in Nat /\ NamesTyped /\ CheckEvery \in Nat /\ behind \in SUBSET (1 .. line)
        /\ lines_since_check \in Nat /\ lines_since_check < CheckEvery
    BY TypeParts, Numbers DEF CountersTyped, BehindOK
  <2>2. IsFiniteSet(1 .. line)
    BY <2>1, FS_Interval
  <2>3. IsFiniteSet(behind) /\ Cardinality(behind) \in Nat
    BY <2>1, <2>2, FS_Subset, FS_CardinalityType
  <2> QED  BY <2>1, <2>3
<1>2. ASSUME NEW t \in 0 .. MaxNow, Emit(t)  PROVE BehindOK'
  <2>1. /\ UNCHANGED <<fd, file_id, lines_since_check, active>>
        /\ line' = line + 1 /\ pc = "idle" /\ pc' \in {"flush", "check"} /\ Unchecked'
    BY <1>2 DEF Emit, priv, disk, Unchecked, Flushing
  <2>2. fd # NoFile /\ behind # {} => Cardinality(behind) <= lines_since_check
    BY <1>1, <2>1 DEF BehindOK, Swapping, Unchecked, Flushing
  <2>3. CASE fd # NoFile /\ active \notin {NoFile, fd}
    <3>1. behind' = behind \cup {line + 1}
      BY <1>2, <2>3 DEF Emit
    <3>2. line + 1 \notin behind
      BY <1>1
    <3>3. Cardinality(behind') = Cardinality(behind) + 1
      BY <1>1, <3>1, <3>2, FS_AddElement
    <3>4. Cardinality(behind) <= lines_since_check
      <4>1. CASE behind = {}
        BY <1>1, <4>1, FS_EmptySet
      <4>2. CASE behind # {}
        BY <2>2, <2>3, <4>2
      <4> QED  BY <4>1, <4>2
    <3>5. behind' \subseteq 1 .. line' /\ Cardinality(behind') <= lines_since_check' + 1
          /\ Cardinality(behind') <= CheckEvery
      BY <1>1, <2>1, <3>1, <3>3, <3>4
    <3>6. file_id = fd
      BY <2>1, <2>3 DEF BehindOK
    <3> QED  BY <2>1, <2>3, <3>5, <3>6 DEF BehindOK
  <2>4. CASE ~(fd # NoFile /\ active \notin {NoFile, fd})
    <3>1. behind' = behind
      BY <1>2, <2>4 DEF Emit
    <3>2. fd = NoFile \/ behind = {}
      BY <2>4 DEF BehindOK
    <3>3. behind' \subseteq 1 .. line'
      BY <1>1, <2>1, <3>1
    <3> QED  BY <2>1, <3>1, <3>2, <3>3 DEF BehindOK
  <2> QED  BY <2>3, <2>4
<1>3. CASE Flush \/ Sync \/ Periodic \/ Close
  <2>1. /\ UNCHANGED <<fd, file_id, lines_since_check>> /\ active' = active /\ behind' = behind /\ line' = line
        /\ pc = "idle" /\ pc' = "flush"
    BY <1>3 DEF Flush, Sync, Periodic, Close, Operation, priv, disk, hist
  <2>2. ~Swapping /\ ~Unchecked
    BY <2>1 DEF Swapping, Unchecked, Flushing
  <2> QED  BY <1>1, <2>1, <2>2, SameBehind
<1>4. CASE FlushNothing
  <2>1. /\ UNCHANGED <<fd, file_id, lines_since_check>> /\ active' = active /\ behind' = behind /\ line' = line
        /\ pc = "flush"
    BY <1>4 DEF FlushNothing, priv, disk, hist
  <2>2. pc' \notin {"retry", "prune"} /\ (Swapping => Swapping') /\ (Unchecked => Unchecked')
    BY <1>1, <1>4 DEF FlushNothing, Unlock, Rest, GoTo, Swapping, Unchecked, Flushing, CallOK, NamesTyped
  <2> QED  BY <1>1, <2>1, <2>2, SameBehind
<1>5. CASE FlushWrite \/ FlushRetry
  <2>1. /\ UNCHANGED <<fd, file_id, lines_since_check>> /\ active' = active /\ behind' = behind /\ line' = line
        /\ Flushing
    BY <1>5 DEF FlushWrite, FlushRetry, Flushed, WriteLines, Flushing
  <2>2. pc # "prune" /\ pc' \notin {"retry", "prune"} /\ (Swapping => Swapping') /\ (Unchecked => Unchecked')
    BY <1>1, <1>5 DEF FlushWrite, FlushRetry, Flushed, FlushReturns, EmitReturns, Unlock, Rest, GoTo, Swapping, Unchecked,
                Flushing, CallOK, NamesTyped
  <2> QED  BY <1>1, <2>1, <2>2, SameBehind
<1>6. CASE FlushFails
  <2>1. behind' = behind /\ line' = line /\ fd' = NoFile /\ pc' = "reopen"
    BY <1>6 DEF FlushFails, hist, GoTo
  <2> QED  BY <1>1, <2>1, SameBehind
<1>7. CASE FlushReopen \/ Swap \/ Open \/ Start
  <2>1. OpenPath /\ file_id' = fd'
    BY <1>7 DEF FlushReopen, Swap, Open, Start, OpenActive, RefreshId
  <2> QED  BY <2>1, Opened, NoneBehind
<1>8. CASE NewFile
  <2>1. OpenPath /\ pc' = "prune"
    BY <1>8 DEF NewFile, GoTo
  <2> QED  BY <2>1, Opened, NoneBehind
<1>9. CASE FlushReopenFails
  <2>1. behind' = behind /\ line' = line /\ fd' = NoFile /\ pc' # "retry"
    BY <1>9 DEF FlushReopenFails, LosePending, Unlock, Rest, GoTo, CallOK
  <2> QED  BY <1>1, <2>1, SameBehind
<1>10. CASE FlushRetryFails
  <2>1. behind' = {} /\ UNCHANGED <<fd, file_id>> /\ pc = "retry"
    BY <1>10 DEF FlushRetryFails, BehindOK
  <2> QED  BY <2>1, NoneBehind DEF BehindOK
<1>11. CASE Archive \/ SwapFails \/ Destroy \/ Crash
  <2>1. behind' = behind /\ line' = line /\ fd' = NoFile /\ pc' # "retry"
    BY <1>11 DEF Archive, SwapFails, Destroy, Crash, EmitFails, Unlock, Rest, GoTo, hist
  <2> QED  BY <1>1, <2>1, SameBehind
<1>12. CASE Prune
  <2>1. behind' = {} /\ fd' = fd /\ file_id' = fd
    BY <1>12 DEF Prune, RefreshId, BehindOK, CallOK
  <2> QED  BY <2>1, NoneBehind
<1>13. CASE Check
  <2>1. /\ UNCHANGED <<fd, file_id>> /\ active' = active /\ behind' = behind /\ line' = line /\ pc = "check"
        /\ pc' \in {"open", "flush"} /\ op = "emit" /\ op' = op
    BY <1>13 DEF Check, FlushThen, GoTo, disk, hist, CallOK
  <2>2. behind # {} /\ fd # NoFile => Cardinality(behind) <= lines_since_check + 1 /\ active \notin {NoFile, fd} /\ file_id = fd
    BY <2>1 DEF BehindOK, Swapping, Unchecked, Flushing
  <2>3. behind # {} /\ fd # NoFile => Swapping' \/ Cardinality(behind) <= lines_since_check'
    <3>1. CASE lines_since_check + 1 < CheckEvery
      <4>1. lines_since_check' = lines_since_check + 1
        BY <1>13, <3>1 DEF Check
      <4> QED  BY <2>2, <4>1
    <3>2. CASE ~(lines_since_check + 1 < CheckEvery)
      <4> SUFFICES ASSUME behind # {}, fd # NoFile  PROVE Swapping'
        OBVIOUS
      <4>1. PathReplaced
        BY <2>2 DEF PathReplaced
      <4>2. FlushThen("swap")
        BY <1>13, <3>2, <4>1 DEF Check
      <4> QED  BY <2>1, <4>2 DEF FlushThen, Swapping, Flushing
    <3> QED  BY <3>1, <3>2
  <2>4. lines_since_check' \in Nat
    BY <1>1, <1>13 DEF Check
  <2>5. behind # {} /\ fd # NoFile =>
           Swapping' \/ Cardinality(behind) <= lines_since_check' + (IF Unchecked' THEN 1 ELSE 0)
    <3> HIDE DEF Unchecked, Swapping
    <3>1. (IF Unchecked' THEN 1 ELSE 0) \in Nat
      OBVIOUS
    <3> QED  BY <1>1, <2>3, <2>4, <3>1
  <2> QED  BY <1>1, <2>1, <2>2, <2>5 DEF BehindOK
<1>14. CASE IsOpen \/ Buffer
  <2>1. /\ UNCHANGED <<fd, file_id, lines_since_check>> /\ active' = active /\ behind' = behind /\ line' = line
        /\ pc \in {"open", "append"} /\ pc' \in {"flush", "append", "idle"}
    BY <1>14 DEF IsOpen, Buffer, MakeRoom, FlushThen, EmitReturns, Unlock, Rest, GoTo, disk, priv, hist
  <2>2. ~Swapping /\ ~Unchecked
    BY <2>1 DEF Swapping, Unchecked, Flushing
  <2> QED  BY <1>1, <2>1, <2>2, SameBehind
<1>15. CASE NewFileFails \/ OpenFails \/ WriteBig \/ WriteBigFails \/ Fsync \/ FsyncFails
  <2>1. /\ UNCHANGED <<fd, file_id, lines_since_check>> /\ active' = active /\ behind' = behind /\ line' = line
        /\ pc \in {"newfile", "open", "append", "fsync"} /\ pc' = "idle"
    BY <1>15 DEF NewFileFails, OpenFails, WriteBig, WriteLines, WriteBigFails, Fsync, FsyncFails, EmitReturns, EmitFails,
                 Unlock, Rest, disk, priv, hist
  <2>2. ~Swapping /\ ~Unchecked
    BY <2>1 DEF Swapping, Unchecked, Flushing
  <2> QED  BY <1>1, <2>1, <2>2, SameBehind
<1>16. CASE ExternalMove
  <2>1. behind' = {} /\ UNCHANGED <<fd, file_id, pc>>
    BY <1>16 DEF ExternalMove, priv, call
  <2> QED  BY <2>1, NoneBehind DEF BehindOK
<1>17. CASE ExternalCreate
  <2>1. UNCHANGED <<fd, file_id, lines_since_check, pc, op, after, behind, line>> /\ active = NoFile
    BY <1>17 DEF ExternalCreate, priv, call, hist
  <2>2. fd = NoFile \/ behind = {}
    BY <2>1 DEF BehindOK
  <2> QED  BY <2>1, <2>2 DEF BehindOK
<1>18. CASE Tick
  <2>1. UNCHANGED <<fd, file_id, lines_since_check, pc, op, after, behind, line, active>>
    BY <1>18 DEF Tick, disk, priv, call, hist
  <2> QED  BY <2>1 DEF BehindOK, Swapping, Unchecked, Flushing
<1> QED  BY <1>2, <1>3, <1>4, <1>5, <1>6, <1>7, <1>8, <1>9, <1>10, <1>11, <1>12, <1>13, <1>14, <1>15, <1>16, <1>17, <1>18
         DEF Next, Call, FlushStep, RotateStep, EmitStep, Environment

-----------------------------------------------------------------------------
(* The archives *)

(* An archive that is kept has its own place among the newest.             *)
LEMMA KeptBounded ==
    ASSUME IsFiniteSet(archives), archives \subseteq ArchiveNames, MaxFiles > 0
    PROVE  Cardinality(archives \ Surplus) <= MaxFiles
<1> DEFINE newer(a) == {b \in archives : Newer(b, a)}
           rank(a) == Cardinality(newer(a))
           kept == archives \ Surplus
           f == [a \in kept |-> rank(a)]
<1>1. \A a \in archives : IsFiniteSet(newer(a)) /\ rank(a) \in Nat
  <2> SUFFICES ASSUME NEW a \in archives  PROVE IsFiniteSet(newer(a))
    BY FS_CardinalityType
  <2>1. newer(a) \in SUBSET archives
    OBVIOUS
  <2> HIDE DEF newer
  <2> QED  BY <2>1, FS_Subset
<1>2. \A a \in archives : a.ts \in Nat /\ a.index \in Nat /\ a = [ts |-> a.ts, index |-> a.index]
  BY DEF ArchiveNames
<1>3. ASSUME NEW a \in archives, NEW b \in archives, Newer(b, a)
      PROVE  rank(b) < rank(a)
  <2>1. newer(b) \in SUBSET newer(a)
    BY <1>2, <1>3 DEF Newer
  <2>2. b \in newer(a) /\ b \notin newer(b)
    BY <1>2, <1>3 DEF Newer
  <2>3. IsFiniteSet(newer(a)) /\ rank(a) \in Nat /\ rank(b) \in Nat
    BY <1>1
  <2> HIDE DEF newer
  <2>4. Cardinality(newer(b)) <= Cardinality(newer(a)) /\ Cardinality(newer(a)) # Cardinality(newer(b))
    BY <2>1, <2>2, <2>3, FS_Subset
  <2> QED  BY <2>3, <2>4
<1>4. \A a \in kept : a \in archives /\ rank(a) < MaxFiles
  <2> TAKE a \in kept
  <2>1. a \in archives /\ ~(rank(a) >= MaxFiles)
    BY Zenon DEF Surplus
  <2>2. rank(a) \in Nat /\ MaxFiles \in Nat
    BY <1>1, <2>1, Numbers, Zenon
  <2> HIDE DEF rank
  <2> QED  BY <2>1, <2>2
<1>5. \A a, b \in archives : a # b => Newer(a, b) \/ Newer(b, a)
  BY <1>2 DEF Newer
<1> HIDE DEF rank, newer, kept
<1>6. f \in [kept -> 0 .. MaxFiles - 1]
  BY <1>1, <1>4, Numbers DEF rank
<1>7. ASSUME NEW a \in kept, NEW b \in kept, f[a] = f[b]  PROVE a = b
  <2>1. rank(a) = rank(b) /\ a \in archives /\ b \in archives
    BY <1>4, <1>7
  <2>2. rank(a) \in Nat /\ rank(b) \in Nat
    BY <1>1, <2>1 DEF rank
  <2> QED  BY <1>3, <1>5, <2>1, <2>2
<1> HIDE DEF f
<1>8. f \in Injection(kept, 0 .. MaxFiles - 1)
  BY <1>6, <1>7 DEF Injection, IsInjective
<1>9. IsFiniteSet(0 .. MaxFiles - 1) /\ Cardinality(0 .. MaxFiles - 1) = MaxFiles
  <2>1. MaxFiles \in Nat
    BY Numbers
  <2> QED  BY <2>1, FS_Interval
<1>10. Cardinality(kept) <= MaxFiles
  BY <1>8, <1>9, FS_Injection
<1> QED  BY <1>10 DEF kept

LEMMA Sums ==
    ASSUME NEW a \in Nat, NEW b \in Nat, NEW c \in Nat, NEW d \in Nat, a >= b, c >= d
    PROVE  /\ a + c >= b + d
           /\ a = b + 1 \/ c = d + 1 => a + c >= b + d + 1
OBVIOUS

LEMMA ShiftedBound ==
    ASSUME NEW a \in Nat, NEW b \in Nat, NEW c \in Nat, NEW d \in Nat, NEW m \in Nat, NEW n \in Nat,
           a + c >= b + d + 1, n <= m + b + d + 1
    PROVE  n <= m + a + c + 0
OBVIOUS

LEMMA BudgetGrows ==
    ASSUME CallOK, Next
    PROVE  faults' \in Nat /\ faults' >= faults /\ crashes' \in Nat /\ crashes' >= crashes
<1>1. faults \in Nat /\ crashes \in Nat
  BY DEF CallOK
<1>2. ASSUME NEW t \in 0 .. MaxNow, Emit(t)  PROVE UNCHANGED <<faults, crashes>>
  BY <1>2 DEF Emit, env
<1>3. CASE Flush \/ Sync \/ Periodic \/ Close \/ FlushStep
  BY <1>1, <1>3 DEF Flush, Sync, Periodic, Close, Operation, FlushStep, FlushNothing, FlushWrite, FlushFails, Flushed,
              FlushReopen, FlushReopenFails, FlushRetry, FlushRetryFails, WriteFails, Ok, Fault, env
<1>4. CASE RotateStep \/ Check \/ Swap \/ SwapFails \/ IsOpen \/ Open \/ OpenFails
  BY <1>1, <1>4 DEF RotateStep, Archive, NewFile, NewFileFails, Prune, PruneArchives, Check, Swap, SwapFails, IsOpen,
              Open, OpenFails, Ok, Fault, env
<1>5. CASE WriteBig \/ WriteBigFails \/ Buffer \/ Fsync \/ FsyncFails \/ Destroy \/ Start \/ Environment
  BY <1>1, <1>5 DEF WriteBig, WriteBigFails, Buffer, Fsync, FsyncFails, Destroy, Start, Environment, Crash,
              ExternalMove, ExternalCreate, Tick, Ok, Fault, env
<1> QED  BY <1>1, <1>2, <1>3, <1>4, <1>5 DEF Next, Call, EmitStep

LEMMA ArchivesOKStep ==
    ASSUME TypeOK, CallOK, ArchivesOK, IsFiniteSet(archives)', Next
    PROVE  ArchivesOK'
<1> USE DEF At
<1> SUFFICES ASSUME MaxFiles > 0  PROVE ArchivesBounded'
  BY DEF ArchivesOK, ArchivesBounded
<1> DEFINE Extra == IF pc \in {"newfile", "prune"} THEN 1 ELSE 0
<1>1. /\ faults \in Nat /\ crashes \in Nat /\ MaxFiles \in Nat /\ Cardinality(archives) \in Nat
      /\ Cardinality(archives)' \in Nat /\ IsFiniteSet(archives) /\ archives \subseteq ArchiveNames
      /\ Cardinality(archives) <= MaxFiles + faults + crashes + Extra
  BY Numbers, TypeParts, FS_CardinalityType DEF CallOK, ArchivesOK, ArchivesBounded, SetsTyped
<1>0. faults \in Nat /\ crashes \in Nat
  BY <1>1
<1>2. faults' \in Nat /\ faults' >= faults /\ crashes' \in Nat /\ crashes' >= crashes
  BY BudgetGrows
(* Nothing new, and what was in excess is still accounted for. *)
<1>3. ASSUME archives' = archives, pc \in {"newfile", "prune"} => pc' \in {"newfile", "prune"}
                                                              \/ faults' + crashes' >= faults + crashes + 1
      PROVE  ArchivesBounded'
  <2>1. faults' + crashes' >= faults + crashes
    BY <1>0, <1>2, Sums
  <2>2. CASE pc \notin {"newfile", "prune"}
    BY <1>1, <1>2, <1>3, <2>1, <2>2 DEF ArchivesBounded
  <2>3. CASE pc \in {"newfile", "prune"} /\ pc' \in {"newfile", "prune"}
    BY <1>1, <1>2, <1>3, <2>1, <2>3 DEF ArchivesBounded
  <2>4. CASE pc \in {"newfile", "prune"} /\ pc' \notin {"newfile", "prune"}
    <3>1. faults' + crashes' >= faults + crashes + 1
      BY <1>3, <2>4
    <3>2. Cardinality(archives) <= MaxFiles + faults + crashes + 1
      BY <1>1, <2>4
    <3>3. Cardinality(archives) \in Nat /\ MaxFiles \in Nat /\ 0 \in Nat
      BY <1>1
    <3>4. Cardinality(archives) <= MaxFiles + faults' + crashes' + 0
      BY <1>0, <1>2, <3>1, <3>2, <3>3, ShiftedBound
    <3>5. Cardinality(archives') <= MaxFiles + faults' + crashes' + 0
      BY <1>3, <3>4
    <3> QED  BY <2>4, <3>5 DEF ArchivesBounded
  <2> QED  BY <2>2, <2>3, <2>4
<1>4. ASSUME NEW t \in 0 .. MaxNow, Emit(t)  PROVE ArchivesBounded'
  BY <1>3, <1>4 DEF Emit, disk
<1>5. CASE Flush \/ Sync \/ Periodic \/ Close \/ FlushStep
  <2>1. archives' = archives /\ pc \in {"idle", "flush", "reopen", "retry"}
    <3>1. CASE FlushReopen
      BY <3>1, Opened DEF FlushReopen, OpenActive
    <3>2. CASE ~FlushReopen
      BY <1>5, <3>2 DEF Flush, Sync, Periodic, Close, Operation, FlushStep, FlushNothing, FlushWrite, FlushFails, Flushed,
                FlushReopenFails, FlushRetry, FlushRetryFails, WriteFails, WriteLines, disk
    <3> QED  BY <3>1, <3>2
  <2> QED  BY <1>3, <2>1
<1>6. CASE Archive
  <2>1. pc' = "newfile"
    BY <1>6 DEF Archive, GoTo
  <2>2. CASE archives' = archives
    BY <1>3, <2>1, <2>2
  <2>3. CASE archives' = archives \cup {ArchiveName(stamp)}
    <3> DEFINE a == ArchiveName(stamp)
    <3> HIDE DEF a
    <3>1. archives' = archives \cup {a}
      BY <2>3 DEF a
    <3>2. Cardinality(archives \cup {a}) \in {Cardinality(archives), Cardinality(archives) + 1}
      BY <1>1, FS_AddElement
    <3>3. Cardinality(archives') <= Cardinality(archives) + 1
      BY <1>1, <3>1, <3>2
    <3>4. Extra = 0
      BY <1>6 DEF Archive
    <3> QED  BY <1>1, <1>2, <2>1, <3>3, <3>4 DEF ArchivesBounded
  <2> QED  BY <1>6, <2>2, <2>3 DEF Archive
<1>7. CASE NewFile
  <2>1. archives' = archives /\ pc' = "prune"
    BY <1>7, Opened DEF NewFile, GoTo
  <2> QED  BY <1>3, <2>1
<1>8. CASE NewFileFails
  <2>1. archives' = archives /\ faults' = faults + 1
    BY <1>8 DEF NewFileFails, Fault, disk
  <2>2. faults' + crashes' >= faults + crashes + 1
    BY <1>0, <1>2, <2>1, Sums
  <2> QED  BY <1>3, <2>1, <2>2
<1>9. CASE Prune
  <2>1. CASE archives' = archives \ Surplus
    BY <1>1, <1>2, <2>1, KeptBounded DEF ArchivesBounded
  <2>2. CASE Fault /\ archives' \subseteq archives
    <3>1. Cardinality(archives') <= Cardinality(archives)
      BY <1>1, <2>2, FS_Subset
    <3>2. faults' = faults + 1
      BY <2>2 DEF Fault
    <3> QED  BY <1>1, <1>2, <3>1, <3>2 DEF ArchivesBounded
  <2> QED  BY <1>9, <2>1, <2>2 DEF Prune, PruneArchives
<1>10. CASE Swap \/ Open \/ Start
  <2>1. archives' = archives /\ pc \in {"swap", "open", "down"}
    BY <1>10, Opened DEF Swap, Open, Start, OpenActive
  <2> QED  BY <1>3, <2>1
<1>11. CASE Check \/ SwapFails \/ IsOpen \/ OpenFails \/ WriteBig \/ WriteBigFails \/ Buffer \/ Fsync \/ FsyncFails
  <2>1. archives' = archives /\ pc \notin {"newfile", "prune"}
    BY <1>11 DEF Check, SwapFails, IsOpen, OpenFails, WriteBig, WriteLines, WriteBigFails, Buffer, Fsync, FsyncFails, disk
  <2> QED  BY <1>3, <2>1
<1>12. CASE Destroy \/ ExternalMove \/ ExternalCreate \/ Tick
  <2>1. archives' = archives /\ (pc = "destroy" \/ pc' = pc)
    BY <1>12 DEF Destroy, ExternalMove, ExternalCreate, Tick, disk, call
  <2> QED  BY <1>3, <2>1
<1>13. CASE Crash
  <2>1. archives' = archives /\ crashes' = crashes + 1
    BY <1>13 DEF Crash
  <2>2. faults' + crashes' >= faults + crashes + 1
    BY <1>0, <1>2, <2>1, Sums
  <2> QED  BY <1>3, <2>1, <2>2
<1> QED  BY <1>4, <1>5, <1>6, <1>7, <1>8, <1>9, <1>10, <1>11, <1>12, <1>13
         DEF Next, Call, RotateStep, EmitStep, Environment

-----------------------------------------------------------------------------
(* The size of the files *)

LEMMA FrontIs ==
    ASSUME NEW s \in Seq(Lines), s # <<>>
    PROVE  /\ Len(s) \in Nat /\ Len(s) >= 1
           /\ Front(s) \in Seq(Lines) /\ Len(Front(s)) = Len(s) - 1
           /\ \A i \in 1 .. Len(s) - 1 : Front(s)[i] = s[i]
<1>1. Len(s) \in Nat /\ Len(s) >= 1
  OBVIOUS
<1> DEFINE n == Len(s) - 1
           u == SubSeq(s, 1, n)
<1>2. n \in Nat /\ n <= Len(s)
  BY <1>1
<1> HIDE DEF n
<1>3. \A i \in 1 .. n : s[i] \in Lines
  BY <1>1, <1>2
<1>4. u \in Seq(Lines) /\ Len(u) = n /\ \A i \in 1 .. n : u[i] = s[i]
  BY <1>2, <1>3
<1>5. Front(s) = u
  BY DEF Front, n
<1> QED  BY <1>1, <1>4, <1>5 DEF n

LEMMA FrontConcat ==
    ASSUME NEW s \in Seq(Lines), NEW t \in Seq(Lines), t # <<>>
    PROVE  /\ Front(s \o t) = s \o Front(t) /\ Front(t) \in Seq(Lines)
           /\ Bytes(Front(s \o t)) = Bytes(s) + Bytes(Front(t))
<1> DEFINE c == s \o t
           a == Front(c)
           u == Front(t)
           b == s \o u
           n == Len(s) + Len(t) - 1
<1>1. /\ Len(s) \in Nat /\ Len(t) \in Nat /\ Len(t) >= 1
      /\ u \in Seq(Lines) /\ Len(u) = Len(t) - 1 /\ \A i \in 1 .. Len(t) - 1 : u[i] = t[i]
  BY FrontIs
<1> HIDE DEF u
<1>2. /\ c \in Seq(Lines) /\ Len(c) = Len(s) + Len(t)
      /\ \A i \in 1 .. Len(s) : c[i] = s[i]
      /\ \A i \in 1 .. Len(t) : c[Len(s) + i] = t[i]
  OBVIOUS
<1>3. b \in Seq(Lines) /\ Len(b) = Len(s) + Len(u)
  BY <1>1, ConcatProperties
<1>4. /\ \A i \in 1 .. Len(s) : b[i] = s[i]
      /\ \A i \in 1 .. Len(u) : b[Len(s) + i] = u[i]
  BY <1>1
<1> HIDE DEF b, c
<1>5. c # <<>>
  BY <1>1, <1>2
<1>6. a \in Seq(Lines) /\ Len(a) = n /\ \A i \in 1 .. n : a[i] = c[i]
  <2>1. /\ a \in Seq(Lines) /\ Len(a) = Len(c) - 1
        /\ \A i \in 1 .. Len(c) - 1 : a[i] = c[i]
    BY <1>2, <1>5, FrontIs
  <2>2. Len(c) - 1 = n
    BY <1>1, <1>2
  <2> HIDE DEF a, n
  <2> QED  BY <2>1, <2>2
<1> HIDE DEF a
<1>7. \A i \in 1 .. n : a[i] = b[i]
  <2> TAKE i \in 1 .. n
  <2>1. i \in 1 .. Len(s) \/ \E k \in 1 .. Len(t) - 1 : i = Len(s) + k
    <3>1. CASE i > Len(s)
      <4>1. i - Len(s) \in 1 .. Len(t) - 1 /\ i = Len(s) + (i - Len(s))
        BY <1>1, <3>1
      <4> QED  BY <4>1
    <3>2. CASE ~(i > Len(s))
      BY <1>1, <3>2
    <3> QED  BY <3>1, <3>2
  <2>2. CASE i \in 1 .. Len(s)
    BY <1>2, <1>4, <1>6, <2>2
  <2>3. ASSUME NEW k \in 1 .. Len(t) - 1, i = Len(s) + k  PROVE a[i] = b[i]
    <3>1. b[i] = u[k] /\ u[k] = t[k]
      BY <1>1, <1>4, <2>3
    <3>2. a[i] = c[i]
      BY <1>6
    <3>3. c[i] = t[k]
      BY <1>1, <1>2, <2>3
    <3> QED  BY <3>1, <3>2, <3>3
  <2> QED  BY <2>1, <2>2, <2>3
<1>8. a = b
  <2>1. Len(a) = Len(b)
    BY <1>1, <1>3, <1>6
  <2> QED  BY <1>3, <1>6, <1>7, <2>1, SeqEqual
<1>9. Bytes(b) = Bytes(s) + Bytes(u)
  BY <1>1, BytesConcat DEF b
<1> QED  BY <1>1, <1>8, <1>9 DEF a, b, c, u

LEMMA FrontAppend ==
    ASSUME NEW s \in Seq(Lines), NEW l \in Lines
    PROVE  Bytes(Front(Append(s, l))) = Bytes(s)
<1>1. <<l>> \in Seq(Lines) /\ <<l>> # <<>> /\ Append(s, l) = s \o <<l>>
  OBVIOUS
<1>2. Front(<<l>>) = <<>>
  BY DEF Front
<1>3. Bytes(Front(s \o <<l>>)) = Bytes(s) + 0
  BY <1>1, <1>2, FrontConcat, BytesEmpty
<1> QED  BY <1>1, <1>3, CellsFinite

LEMMA FrontOfPrefix ==
    ASSUME NEW s \in Seq(Lines), NEW n \in 1 .. Len(s)
    PROVE  Bytes(Front(SubSeq(s, 1, n))) <= Bytes(Front(s))
<1>1. Len(s) \in Nat /\ Len(s) >= 1 /\ n \in Nat
  OBVIOUS
<1>2. Front(s) = SubSeq(s, 1, Len(s) - 1)
  BY DEF Front
<1>3. Front(SubSeq(s, 1, n)) = SubSeq(s, 1, n - 1)
  <2> DEFINE u == SubSeq(s, 1, n)
             v == SubSeq(s, 1, n - 1)
             w == SubSeq(u, 1, Len(u) - 1)
  <2>1. u \in Seq(Lines) /\ Len(u) = n /\ \A i \in 1 .. n : u[i] = s[i]
    BY <1>1
  <2>2. v \in Seq(Lines) /\ Len(v) = n - 1 /\ \A i \in 1 .. n - 1 : v[i] = s[i]
    BY <1>1
  <2> HIDE DEF u, v
  <2>3. w \in Seq(Lines) /\ Len(w) = n - 1 /\ \A i \in 1 .. n - 1 : w[i] = u[i]
    BY <1>1, <2>1
  <2> HIDE DEF w
  <2>4. \A i \in 1 .. n - 1 : w[i] = v[i]
    BY <1>1, <2>1, <2>2, <2>3
  <2>5. w = v
    BY <2>2, <2>3, <2>4, SeqEqual
  <2> QED  BY <2>5 DEF u, v, w, Front
<1>4. Len(s) - 1 \in 0 .. Len(s) /\ n - 1 \in 0 .. Len(s) - 1
  BY <1>1
<1>5. Bytes(SubSeq(s, 1, n - 1)) <= Bytes(SubSeq(s, 1, Len(s) - 1))
  BY <1>4, BytesPrefix
<1> QED  BY <1>2, <1>3, <1>5

LEMMA NothingWritten ==
    ASSUME content' = content, \A f \in Inodes : FileSmall(f)
    PROVE  (\A f \in Inodes : FileSmall(f))'
BY DEF Inodes, FileSmall

(* The operation goes on with the same file. *)
LEMMA StillFollowed ==
    ASSUME Followed, fd # NoFile, UNCHANGED <<content, fd, file_size, iobuf, active>>,
           pc' \notin {"reopen", "retry", "newfile", "prune"},
           Roomy' => Roomy \/ ~OverSize,
           Swapping' => Swapping \/ active # fd,
           file_size + Bytes(iobuf) \in Nat
    PROVE  Followed'
<1> HIDE DEF Roomy, Swapping
<1>1. ~OverSize => file_size + Bytes(iobuf) < MaxSize
  BY Numbers DEF OverSize
<1> QED  BY <1>1 DEF Followed

(* A file that was just opened, or is empty, with nothing pending. *)
LEMMA FollowedAnew ==
    ASSUME FilesTyped', fd' \in Inodes', fd' # NoFile, iobuf' = <<>>, file_size' = Bytes(content'[fd']),
           pc' \notin {"reopen", "retry", "newfile"}, ~Swapping',
           pc' = "prune" \/ Roomy' => content'[fd'] = <<>>
    PROVE  Followed'
<1> HIDE DEF Roomy, Swapping
<1>1. Bytes(<<>>) = 0 /\ MaxSize \in Nat /\ MaxSize >= 1
  BY BytesEmpty, Numbers
<1>2. Roomy' => file_size' + Bytes(iobuf') < MaxSize
  BY <1>1
<1> QED  BY <1>1, <1>2 DEF Followed

LEMMA CreatedSmall ==
    ASSUME FilesTyped, Creates, \A f \in Inodes : FileSmall(f)
    PROVE  (\A f \in Inodes : FileSmall(f))'
BY Created DEF FileSmall

LEMMA WroteSmall ==
    ASSUME FilesTyped, fd \in Inodes, NEW s \in Seq(Lines), s # <<>>, Writes(s),
           \A f \in Inodes : FileSmall(f), Bytes(content[fd]) + Bytes(Front(s)) < MaxSize
    PROVE  /\ (\A f \in Inodes : FileSmall(f))'
           /\ Bytes(content'[fd]) = Bytes(content[fd]) + Bytes(s)
<1>1. content[fd] \in Seq(Lines) /\ content'[fd] = content[fd] \o s
      /\ Inodes' = Inodes /\ \A f \in Inodes : f # fd => content'[f] = content[f]
  BY FileTypes, Wrote
<1>2. Bytes(Front(content[fd] \o s)) = Bytes(content[fd]) + Bytes(Front(s))
  BY <1>1, FrontConcat
<1>3. Bytes(content[fd] \o s) = Bytes(content[fd]) + Bytes(s)
  BY <1>1, BytesConcat
<1>4. ASSUME NEW f \in Inodes  PROVE FileSmall(f)'
  <2>1. CASE f = fd
    BY <1>1, <1>2, <2>1 DEF FileSmall
  <2>2. CASE f # fd
    BY <1>1, <2>2 DEF FileSmall
  <2> QED  BY <2>1, <2>2
<1> QED  BY <1>1, <1>3, <1>4

LEMMA CutSmall ==
    ASSUME FilesTyped, \A f \in Inodes : synced[f] <= Len(content[f]), Cuts,
           \A f \in Inodes : FileSmall(f)
    PROVE  (\A f \in Inodes : FileSmall(f))'
<1>1. Inodes' = Inodes
  BY Cut
<1> SUFFICES ASSUME NEW f \in Inodes, content'[f] # <<>>
             PROVE  Bytes(Front(content'[f])) < MaxSize
  BY <1>1 DEF FileSmall
<1> DEFINE c == content[f]
           n == synced[f]
           cut == SubSeq(c, 1, n)
<1>2. c \in Seq(Lines) /\ Len(c) \in Nat /\ n \in Nat /\ n <= Len(c) /\ content'[f] = cut
  BY FileTypes, Cut
<1>3. n >= 1
  <2>1. CASE n = 0
    BY <1>2, <2>1
  <2>2. CASE n # 0
    BY <1>2, <2>2
  <2> QED  BY <2>1, <2>2
<1>4. n \in 1 .. Len(c) /\ c # <<>>
  BY <1>2, <1>3
<1>5. Bytes(Front(cut)) <= Bytes(Front(c))
  BY <1>2, <1>4, FrontOfPrefix
<1>6. Bytes(Front(c)) < MaxSize
  BY <1>4 DEF FileSmall
<1>7. Front(c) \in Seq(Lines)
  BY <1>2, <1>4, FrontIs
<1>8. cut \in Seq(Lines) /\ cut # <<>>
  BY <1>2, <1>4
<1>9. Front(cut) \in Seq(Lines)
  BY <1>8, FrontIs
<1> HIDE DEF c, cut, n
<1>10. Bytes(Front(c)) \in Nat /\ Bytes(Front(cut)) \in Nat /\ MaxSize \in Nat
  BY <1>7, <1>9, CellsFinite, Numbers
<1> QED  BY <1>2, <1>5, <1>6, <1>10

LEMMA SizeOKStep ==
    ASSUME TypeOK, CallOK, FilesOK, BehindOK, SizeOK, Next
    PROVE  SizeOK'
<1> USE DEF At
<1> SUFFICES ASSUME faults' = 0
             PROVE  Followed' /\ (\A f \in Inodes : FileSmall(f))'
  BY DEF SizeOK
<1>1. /\ faults = 0 /\ ~Fault
      /\ Followed /\ \A f \in Inodes : FileSmall(f)
  <2>1. faults \in Nat /\ faults' >= faults
    BY BudgetGrows DEF CallOK
  <2>2. faults = 0 /\ ~Fault
    BY <2>1 DEF Fault
  <2> QED  BY <2>2 DEF SizeOK
<1>2. /\ FilesTyped /\ RefsTyped /\ CountersTyped /\ NamesTyped
      /\ iobuf \in Seq(Lines) /\ Bytes(iobuf) \in Nat /\ file_size \in Nat
      /\ file_size + Bytes(iobuf) \in Nat
  <2>1. FilesTyped /\ RefsTyped /\ CountersTyped /\ NamesTyped
    BY TypeParts
  <2>2. iobuf \in Seq(Lines) /\ Bytes(iobuf) \in Nat /\ file_size \in Nat
    BY <2>1, CellsFinite DEF CountersTyped
  <2> QED  BY <2>1, <2>2
<1>3. pc \notin {"down", "newfile"} =>
         /\ fd # NoFile /\ fd \in Inodes /\ content[fd] \in Seq(Lines) /\ Bytes(content[fd]) \in Nat
         /\ file_size = Bytes(content[fd])
  BY <1>1, <1>2, FileTypes, CellsFinite DEF Followed, RefsTyped
<1>4. pc \notin {"reopen", "retry"}
  BY <1>1 DEF Followed
<1>5. ASSUME NEW t \in 0 .. MaxNow, Emit(t)
      PROVE  Followed' /\ (\A f \in Inodes : FileSmall(f))'
  <2>1. UNCHANGED <<content, fd, file_size, iobuf, active>> /\ pc = "idle"
        /\ pc' \in {"flush", "check"}
    BY <1>5 DEF Emit, disk, priv
  <2>2. Roomy' => ~OverSize
    BY <1>5 DEF Emit, NeedRotate, Roomy, Flushing
  <2>3. ~Swapping'
    BY <1>5 DEF Emit, Swapping, Flushing
  <2> QED  BY <1>1, <1>2, <1>3, <2>1, <2>2, <2>3, StillFollowed, NothingWritten
<1>6. CASE Flush \/ Sync \/ Periodic \/ Close
  <2>1. UNCHANGED <<content, fd, file_size, iobuf, active>> /\ pc = "idle" /\ pc' = "flush"
    BY <1>6 DEF Flush, Sync, Periodic, Close, Operation, disk, priv
  <2>2. ~Roomy' /\ ~Swapping'
    BY <1>6 DEF Flush, Sync, Periodic, Close, Operation, Roomy, Swapping, Flushing
  <2> QED  BY <1>1, <1>2, <1>3, <2>1, <2>2, StillFollowed, NothingWritten
<1>7. CASE FlushNothing \/ FlushWrite
  <2>1. /\ pc = "flush" /\ fd' = fd /\ active' = active /\ op # "none"
        /\ pc' \in {after, "idle"} \ {"return", "none"}
        /\ after \in {"archive", "swap", "append", "return", "fsync", "destroy"}
    BY <1>7, <1>2 DEF FlushNothing, FlushWrite, Flushed, WriteLines, FlushReturns, EmitReturns, Unlock, Rest, GoTo,
              disk, priv, CallOK, Flushing, NamesTyped
  <2>2. pc' \notin {"reopen", "retry", "newfile", "prune", "flush"}
    BY <2>1
  <2>3. (Roomy' => Roomy) /\ (Swapping' => Swapping)
    <3>1. after \in {"swap", "append"} => op = "emit"
      BY <1>2, <2>1 DEF CallOK, Flushing, NamesTyped
    <3> QED  BY <2>1, <2>2, <3>1 DEF Roomy, Swapping, Flushing
  <2>4. CASE FlushNothing
    <3>1. UNCHANGED <<content, fd, file_size, iobuf, active>>
      BY <2>4 DEF FlushNothing, disk, priv
    <3> QED  BY <1>1, <1>2, <1>3, <2>1, <2>2, <2>3, <3>1, StillFollowed, NothingWritten
  <2>5. CASE FlushWrite
    <3>1. /\ Writes(iobuf) /\ iobuf # <<>> /\ iobuf' = <<>> /\ file_size' = file_size + Bytes(iobuf)
      BY <2>5 DEF FlushWrite, Flushed, WriteLines, Writes
    <3>2. Bytes(content[fd]) + Bytes(Front(iobuf)) < MaxSize
      BY <1>1, <1>3, <2>1, <3>1 DEF Followed
    <3>3. /\ (\A f \in Inodes : FileSmall(f))'
          /\ file_size' = Bytes(content'[fd'])
      BY <1>1, <1>2, <1>3, <2>1, <3>1, <3>2, WroteSmall
    <3>4. Roomy' => file_size' + Bytes(iobuf') < MaxSize
      <4>1. Roomy' => file_size + Bytes(iobuf) < MaxSize
        BY <1>1, <2>3 DEF Followed
      <4>2. file_size' + Bytes(iobuf') = file_size + Bytes(iobuf)
        BY <1>2, <3>1, BytesEmpty
      <4> QED  BY <4>1, <4>2
    <3>5. Swapping' => active' # fd'
      BY <1>1, <1>3, <2>1, <2>3 DEF Followed
    <3> HIDE DEF Roomy, Swapping
    <3>6. Followed'
      BY <1>3, <2>1, <2>2, <3>1, <3>3, <3>4, <3>5 DEF Followed
    <3> QED  BY <3>3, <3>6
  <2> QED  BY <1>7, <2>4, <2>5
<1>8. ~(\/ FlushFails \/ FlushReopen \/ FlushReopenFails \/ FlushRetry \/ FlushRetryFails
        \/ NewFileFails \/ SwapFails \/ OpenFails \/ WriteBigFails \/ FsyncFails \/ Open)
  BY <1>1, <1>3, <1>4 DEF FlushFails, WriteFails, FlushReopen, FlushReopenFails, FlushRetry, FlushRetryFails,
                          NewFileFails, SwapFails, OpenFails, WriteBigFails, FsyncFails, Open
<1>9. CASE Archive
  <2>1. UNCHANGED content /\ fd' = NoFile /\ active' = NoFile /\ pc' = "newfile"
    BY <1>1, <1>9 DEF Archive, GoTo
  <2>2. ~Roomy' /\ ~Swapping'
    BY <2>1 DEF Roomy, Swapping, Flushing
  <2> QED  BY <1>1, <2>1, <2>2, NothingWritten DEF Followed
<1>10. CASE NewFile \/ Swap \/ Start
  <2>1. OpenPath /\ iobuf' = <<>>
    BY <1>10 DEF NewFile, Swap, Start, OpenActive, CallOK
  <2>2. /\ FilesTyped' /\ fd' \in Inodes' /\ fd' # NoFile
        /\ active = NoFile => Creates /\ fd' = Len(content) + 1 /\ file_size' = 0
        /\ active # NoFile => Keeps /\ fd' = active /\ file_size' = Bytes(content[active])
    BY <2>1, Opened
  <2>3. /\ (\A f \in Inodes : FileSmall(f))'
        /\ file_size' = Bytes(content'[fd'])
        /\ active = NoFile => content'[fd'] = <<>>
    <3>1. CASE active = NoFile
      <4>1. content'[fd'] = <<>>
        BY <1>2, <2>2, <3>1, Created
      <4> QED  BY <1>1, <1>2, <2>2, <3>1, <4>1, BytesEmpty, CreatedSmall
    <3>2. CASE active # NoFile
      BY <1>1, <2>2, <3>2, NothingWritten DEF Keeps
    <3> QED  BY <3>1, <3>2
  <2>4. CASE NewFile
    <3>1. pc' = "prune" /\ pc = "newfile"
      BY <2>4 DEF NewFile, GoTo
    <3>2. content'[fd'] = <<>>
      <4>1. CASE active # NoFile
        BY <1>1, <2>2, <3>1, <4>1 DEF Followed, Keeps
      <4> QED  BY <2>3, <4>1
    <3>3. ~Swapping'
      BY <3>1 DEF Swapping, Flushing
    <3> QED  BY <2>1, <2>2, <2>3, <3>1, <3>2, <3>3, FollowedAnew
  <2>5. CASE Swap
    <3>1. pc' = "open" /\ pc = "swap"
      BY <2>5 DEF Swap, GoTo
    <3>2. content'[fd'] = <<>>
      <4>1. CASE active # NoFile
        <5>1. active # fd /\ fd # NoFile
          BY <1>1, <1>3, <3>1 DEF Followed, Swapping
        <5>2. fd <= active /\ fd \in Inodes /\ active \in Inodes
          BY <1>2, <1>3, <3>1, <4>1, <5>1 DEF FilesOK, RefsTyped
        <5>3. active > fd
          BY <1>2, <5>1, <5>2, FileTypes
        <5>4. content[active] = <<>>
          BY <5>1, <5>2, <5>3 DEF FilesOK
        <5> QED  BY <2>2, <4>1, <5>4 DEF Keeps
      <4> QED  BY <2>3, <4>1
    <3>3. ~Swapping'
      BY <3>1 DEF Swapping, Flushing
    <3> QED  BY <2>1, <2>2, <2>3, <3>1, <3>2, <3>3, FollowedAnew
  <2>6. CASE Start
    <3>1. pc' = "idle"
      BY <2>6 DEF Start, Unlock, Rest
    <3>2. ~Swapping' /\ ~Roomy'
      BY <3>1 DEF Swapping, Roomy, Flushing
    <3> QED  BY <2>1, <2>2, <2>3, <3>1, <3>2, FollowedAnew
  <2> QED  BY <1>10, <2>4, <2>5, <2>6
<1>11. CASE Prune
  <2>1. /\ UNCHANGED <<content, fd, file_size, iobuf>> /\ pc = "prune" /\ pc' = "check" /\ iobuf = <<>>
    BY <1>11 DEF Prune, GoTo, CallOK
  <2>2. content[fd] = <<>>
    BY <1>1, <2>1 DEF Followed
  <2>3. FilesTyped' /\ fd' \in Inodes' /\ ~Swapping'
    <3>1. Keeps
      BY <1>11 DEF Prune, Keeps
    <3> QED  BY <1>2, <1>3, <2>1, <3>1 DEF Keeps, FilesTyped, Inodes, Swapping, Flushing
  <2> QED  BY <1>1, <1>3, <2>1, <2>2, <2>3, FollowedAnew, NothingWritten
<1>12. CASE Check
  <2>1. /\ UNCHANGED <<content, fd, file_size, iobuf, active>> /\ pc = "check" /\ pc' \in {"open", "flush"}
    BY <1>12 DEF Check, FlushThen, GoTo, disk
  <2>2. Roomy
    BY <2>1 DEF Roomy
  <2>3. Swapping' => active # fd
    <3>1. file_id = fd
      BY <1>3, <2>1 DEF BehindOK
    <3>2. Swapping' => after' = "swap" /\ pc' = "flush"
      BY <2>1 DEF Swapping, Flushing
    <3>3. pc' = "flush" => PathReplaced
      BY <1>12 DEF Check, FlushThen, GoTo
    <3> QED  BY <3>1, <3>2, <3>3 DEF PathReplaced
  <2> QED  BY <1>1, <1>2, <1>3, <2>1, <2>2, <2>3, StillFollowed, NothingWritten
<1>13. CASE IsOpen
  <2>1. /\ UNCHANGED <<content, fd, file_size, iobuf, active>> /\ pc = "open" /\ pc' \in {"append", "flush"}
        /\ pc' = "flush" => after' = "append"
    BY <1>13 DEF IsOpen, MakeRoom, FlushThen, GoTo, disk, priv
  <2>2. Roomy /\ ~Swapping'
    BY <2>1 DEF Roomy, Swapping, Flushing
  <2> QED  BY <1>1, <1>2, <1>3, <2>1, <2>2, StillFollowed, NothingWritten
<1>14. CASE WriteBig \/ Buffer
  <2>1. pc = "append" /\ line \in Lines /\ fd' = fd /\ active' = active
    BY <1>14 DEF WriteBig, Buffer, WriteLines, CallOK, disk
  <2>2. Bytes(content[fd]) + Bytes(iobuf) < MaxSize
    BY <1>1, <1>3, <2>1 DEF Followed, Roomy
  <2>3. CASE WriteBig
    <3>1. /\ Writes(<<line>>) /\ iobuf' = iobuf /\ iobuf = <<>> /\ file_size' = file_size + Size[line]
          /\ pc' = "idle"
      BY <2>1, <2>3 DEF WriteBig, WriteLines, Writes, CallOK, EmitReturns, Unlock, Rest
    <3>2. <<line>> \in Seq(Lines) /\ <<line>> # <<>> /\ Bytes(<<line>>) = Size[line]
      BY <2>1, BytesOne
    <3>3. Front(<<line>>) = <<>>
      BY DEF Front
    <3>4. Bytes(content[fd]) + Bytes(Front(<<line>>)) < MaxSize
      BY <2>2, <3>1, <3>3
    <3>5. /\ (\A f \in Inodes : FileSmall(f))'
          /\ file_size' = Bytes(content'[fd'])
      BY <1>1, <1>2, <1>3, <2>1, <3>1, <3>2, <3>4, WroteSmall
    <3>6. FilesTyped' /\ fd' \in Inodes'
      BY <1>2, <1>3, <2>1, <3>1, <3>2, Wrote
    <3>7. ~Roomy' /\ ~Swapping'
      BY <3>1 DEF Roomy, Swapping, Flushing
    <3> QED  BY <1>3, <2>1, <3>1, <3>5, <3>6, <3>7, FollowedAnew
  <2>4. CASE Buffer
    <3>1. /\ UNCHANGED <<content, file_size>> /\ iobuf' = Append(iobuf, line)
          /\ pc' \in {"idle", "flush"} /\ (pc' = "flush" => after' \in {"return", "fsync"})
      BY <2>4 DEF Buffer, FlushThen, EmitReturns, Unlock, Rest, disk
    <3>2. Bytes(Front(iobuf')) = Bytes(iobuf)
      BY <1>2, <2>1, <3>1, FrontAppend
    <3>3. ~Roomy' /\ ~Swapping'
      BY <3>1 DEF Roomy, Swapping, Flushing
    <3> HIDE DEF Roomy, Swapping
    <3>4. Followed'
      BY <1>3, <2>1, <2>2, <3>1, <3>2, <3>3 DEF Followed
    <3> QED  BY <1>1, <3>1, <3>4, NothingWritten
  <2> QED  BY <1>14, <2>3, <2>4
<1>15. CASE Fsync
  <2>1. UNCHANGED <<content, fd, file_size, iobuf, active>> /\ pc = "fsync" /\ pc' = "idle"
    BY <1>15 DEF Fsync, EmitReturns, Unlock, Rest, priv
  <2>2. ~Roomy' /\ ~Swapping'
    BY <2>1 DEF Roomy, Swapping, Flushing
  <2> QED  BY <1>1, <1>2, <1>3, <2>1, <2>2, StillFollowed, NothingWritten
<1>16. CASE Destroy \/ Crash
  <2>1. fd' = NoFile /\ pc' = "down"
    BY <1>16 DEF Destroy, Crash, Rest
  <2>2. ~Roomy' /\ ~Swapping'
    BY <2>1 DEF Roomy, Swapping, Flushing
  <2>3. Followed'
    BY <2>1, <2>2 DEF Followed
  <2>4. UNCHANGED content \/ Cuts
    BY <1>16 DEF Destroy, Crash, disk, Cuts
  <2> QED  BY <1>1, <1>2, <2>3, <2>4, NothingWritten, CutSmall DEF FilesOK
<1>17. CASE ExternalMove \/ Tick
  <2>1. /\ UNCHANGED <<content, fd, file_size, iobuf, pc, op, after>> /\ active' \in {active, NoFile}
    BY <1>17 DEF ExternalMove, Tick, disk, priv, call
  <2>2. (Roomy' <=> Roomy) /\ (Swapping' <=> Swapping)
    BY <2>1 DEF Roomy, Swapping, Flushing
  <2> HIDE DEF Roomy, Swapping
  <2>3. Followed'
    BY <1>1, <2>1, <2>2 DEF Followed
  <2> QED  BY <1>1, <2>1, <2>3, NothingWritten
<1>18. CASE ExternalCreate
  <2>1. /\ UNCHANGED <<fd, file_size, iobuf, pc, op, after>> /\ active' = Len(content) + 1 /\ Creates
    BY <1>18 DEF ExternalCreate, Creates, priv, call
  <2>2. (Roomy' <=> Roomy) /\ (Swapping' <=> Swapping)
    BY <2>1 DEF Roomy, Swapping, Flushing
  <2>3. /\ (\A f \in Inodes : FileSmall(f))' /\ content'[active'] = <<>>
        /\ fd # NoFile => content'[fd] = content[fd] /\ active' # fd
    BY <1>1, <1>2, <2>1, Created, CreatedSmall DEF RefsTyped
  <2>4. pc = "prune" => fd # NoFile
    BY <1>3
  <2> HIDE DEF Roomy, Swapping
  <2>5. Followed'
    BY <1>1, <2>1, <2>2, <2>3, <2>4 DEF Followed
  <2> QED  BY <2>3, <2>5
<1> QED  BY <1>5, <1>6, <1>7, <1>8, <1>9, <1>10, <1>11, <1>12, <1>13, <1>14, <1>15, <1>16, <1>17, <1>18
         DEF Next, Call, FlushStep, RotateStep, EmitStep, Environment

-----------------------------------------------------------------------------
(* The invariant and what it says *)

LEMMA TypeStep ==
    ASSUME TypeOK, CallOK, FilesOK, ArchivesOK, Next
    PROVE  TypeOK' /\ IsFiniteSet(archives)'
<1>1. NamesTyped /\ IsFiniteSet(archives) /\ \A f \in Inodes : synced[f] <= Len(content[f])
  BY TypeParts DEF FilesOK, ArchivesOK
<1>2. FilesTyped' /\ Inodes \subseteq Inodes'
  BY <1>1, FilesStep
<1>3. RefsTyped' /\ SetsTyped' /\ IsFiniteSet(archives)'
  BY <1>1, <1>2, RefsStep, SetsStep
<1>4. NamesTyped' /\ CountersTyped'
  BY <1>1, NamesStep, CountersStep
<1>5. (FilesTyped /\ NamesTyped /\ RefsTyped /\ CountersTyped /\ SetsTyped)' => TypeOK'
  BY DEF TypeOK, FilesTyped, NamesTyped, RefsTyped, CountersTyped, SetsTyped, ArchiveNames
<1> QED  BY <1>2, <1>3, <1>4, <1>5

LEMMA InvInit == Init => FileInv
<1> SUFFICES ASSUME Init  PROVE FileInv
  OBVIOUS
<1> USE DEF Init
<1>1. Inodes = {} /\ Len(content) = 0 /\ content = <<>> /\ synced = <<>>
  BY DEF Inodes
<1>2. TypeOK
  <2>1. <<>> \in Seq(Seq(Lines)) /\ <<>> \in Seq(Nat) /\ <<>> \in Seq(Lines) /\ Len(<<>>) = 0
    OBVIOUS
  <2> QED  BY <1>1, <2>1, Numbers DEF TypeOK
<1>3. CallOK
  BY DEF CallOK, Flushing
<1>4. FilesOK /\ OrderOK
  BY <1>1 DEF FilesOK, OrderOK
<1>5. BufferOK
  <2>1. DOMAIN iobuf = {}
    OBVIOUS
  <2> QED  BY <2>1 DEF BufferOK, Ascending
<1>6. LinesOK
  <2>1. Cardinality({}) = 0
    BY FS_EmptySet
  <2> QED  BY <2>1 DEF LinesOK
<1>7. EntryOK
  BY DEF EntryOK, EntryPending, Landed
<1>8. BehindOK
  <2>1. Cardinality({}) = 0 /\ CheckEvery \in Nat
    BY FS_EmptySet, Numbers
  <2> QED  BY <2>1 DEF BehindOK
<1>9. SizeOK
  BY <1>1 DEF SizeOK, Followed, Roomy, Swapping, Flushing
<1>10. ArchivesOK
  <2>1. Cardinality({}) = 0 /\ IsFiniteSet({}) /\ MaxFiles \in Nat
    BY FS_EmptySet, Numbers
  <2> QED  BY <2>1 DEF ArchivesOK, ArchivesBounded
<1> QED  BY <1>2, <1>3, <1>4, <1>5, <1>6, <1>7, <1>8, <1>9, <1>10 DEF FileInv

LEMMA InvStep == FileInv /\ Next => FileInv'
<1> SUFFICES ASSUME FileInv, Next  PROVE FileInv'
  OBVIOUS
<1>1. /\ TypeOK /\ CallOK /\ FilesOK /\ BufferOK /\ LinesOK /\ OrderOK /\ EntryOK
      /\ BehindOK /\ SizeOK /\ ArchivesOK
  BY DEF FileInv
<1>2. TypeOK' /\ IsFiniteSet(archives)'
  BY <1>1, TypeStep
<1>3. CallOK'
  BY <1>1, CallStep
<1>4. Kind /\ line \in Nat /\ line' \in {line, line + 1} /\ lost \subseteq lost'
  BY <1>1, StepKinds
<1>5. FilesOK' /\ OrderOK'
  BY <1>1, <1>4, FilesOKStep, OrderOKStep
<1>6. BufferOK' /\ LinesOK'
  BY <1>1, BufferOKStep, LinesOKStep
<1>7. EntryOK' /\ BehindOK'
  BY <1>1, EntryOKStep, BehindOKStep
<1>8. SizeOK' /\ ArchivesOK'
  BY <1>1, <1>2, SizeOKStep, ArchivesOKStep
<1> QED  BY <1>2, <1>3, <1>5, <1>6, <1>7, <1>8 DEF FileInv

LEMMA InvStutters == FileInv /\ UNCHANGED vars => FileInv'
<1> SUFFICES ASSUME FileInv, UNCHANGED vars  PROVE FileInv'
  OBVIOUS
<1> USE DEF FileInv, vars, disk, priv, call, env, hist
<1>1. Inodes' = Inodes /\ \A l : Written(l)' <=> Written(l)
  BY DEF Inodes, Written
<1>2. TypeOK'
  BY DEF TypeOK, Inodes
<1>3. CallOK'
  BY DEF CallOK, Late, Flushing
<1>4. FilesOK' /\ OrderOK'
  BY <1>1 DEF FilesOK, OrderOK, Comes, Again
<1>5. BufferOK'
  BY <1>1 DEF BufferOK, Ascending, Reported, Early, Flushing
<1>6. LinesOK'
  BY <1>1 DEF LinesOK, Accounted, InHand
<1>7. EntryOK'
  BY <1>1 DEF EntryOK, EntryPending, Landed, Durable, Late, Flushing
<1>8. BehindOK'
  BY DEF BehindOK, Swapping, Unchecked, Flushing
<1>9. SizeOK'
  BY <1>1 DEF SizeOK, Followed, FileSmall, Roomy, Swapping, Flushing
<1>10. ArchivesOK'
  BY DEF ArchivesOK, ArchivesBounded
<1> QED  BY <1>2, <1>3, <1>4, <1>5, <1>6, <1>7, <1>8, <1>9, <1>10

LEMMA FileInvariant == Spec => []FileInv
BY InvInit, InvStep, InvStutters, PTL DEF Spec

(* Whatever fails in whatever order, a line handed to the sink is in a     *)
(* file, pending, counted as failed by file_flush_locked or one of its     *)
(* callers, or died in a crash.                                            *)
THEOREM LinesAccounted == Spec => []EveryLineAccounted
<1>1. FileInv => EveryLineAccounted
  BY DEF FileInv, LinesOK, Accounted, EveryLineAccounted
<1> QED  BY <1>1, FileInvariant, PTL

(* Rotations, reopened files, the retry of file_flush_locked and external  *)
(* moves never put a line before one that arrived earlier: the last copies *)
(* of the lines not reported as failed are in the order of arrival.        *)
THEOREM LinesStayInOrder == Spec => []LinesInOrder
<1>1. FileInv => LinesInOrder
  BY OrderOKInOrder DEF FileInv
<1> QED  BY <1>1, FileInvariant, PTL

(* The check of file_emit_one_locked bounds the lines that go to a file    *)
(* that is no longer at the path by inode_check_every, and compares the    *)
(* path with the file that is really open.                                 *)
THEOREM ReplacementIsNoticed == Spec => []ReplacementNoticed
<1>1. FileInv => ReplacementNoticed
  BY DEF FileInv, BehindOK, ReplacementNoticed
<1> QED  BY <1>1, FileInvariant, PTL

(* What hpu_rotate_file, hpu_rotate_prune and the size check leave on the  *)
(* disk stays within "max size" and "max files".                           *)
THEOREM DiskIsBounded == Spec => []DiskBounded
<1>1. FileInv => DiskBounded
  <2>1. SizeOK => SizeBounded
    BY DEF SizeOK, FileSmall, SizeBounded
  <2> QED  BY <2>1 DEF FileInv, ArchivesOK, DiskBounded
<1> QED  BY <1>1, FileInvariant, PTL

(* With fsync=true a small line whose file_emit returned 0 is never among  *)
(* those that a crash of the machine destroyed.                            *)
THEOREM EntriesSurvive == Spec => []EntryDurable
<1>1. FileInv => EntryDurable
  BY DEF FileInv, EntryOK, EntryDurable
<1> QED  BY <1>1, FileInvariant, PTL
=============================================================================
