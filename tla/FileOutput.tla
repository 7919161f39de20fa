----------------------------- MODULE FileOutput -----------------------------
(***************************************************************************)
(* The rollingfile sink, src/output/output_file.c, with the rotation and   *)
(* pruning of src/output/rotate.c.                                         *)
(*                                                                         *)
(* All operations run under the sink's mutex, one at a time; each system   *)
(* call that may fail is a step, because another process may move the file *)
(* and this process may die between two of them.  A file is known by its   *)
(* inode, a number given in order of creation; a line by its number in the *)
(* order of arrival.                                                       *)
(*                                                                         *)
(* Left out: a line of which only a part reached the file (a failed write  *)
(* stops between two lines here), the symlink, permissions, a naming       *)
(* template without {index}, and the clock of file_periodic (its interval  *)
(* may be over at any call).                                               *)
(***************************************************************************)
EXTENDS Integers, Sequences, FiniteSets, SequencesExt

CONSTANTS LineCount,      \* lines of the run
          Size,           \* rendered length of each line
          BufSize,        \* HPU_OUT_IO_BUF_SIZE
          Threshold,      \* FLUSH_THRESHOLD
          CheckEvery,     \* inode_check_every
          MaxSize,        \* "max size"
          MaxFiles,       \* "max files"
          TimeUnit,       \* length of a time bucket
          Timestamped,    \* the naming template contains {timestamp}
          Severities,     \* fsync severities to consider
          NoFile,
          MaxNow, MaxTrouble  \* bounds of the model: clock; failed calls, moves
                              \* and crashes taken together

Lines == 1 .. LineCount

ASSUME SizeAssumption ==
    /\ LineCount \in Nat /\ Size \in [Lines -> Nat \ {0}]
    /\ BufSize \in Nat /\ Threshold \in 1 .. BufSize

ASSUME ParameterAssumption ==
    /\ {CheckEvery, MaxSize, TimeUnit} \subseteq Nat \ {0}
    /\ {MaxFiles, MaxNow, MaxTrouble} \subseteq Nat
    /\ Timestamped \in BOOLEAN
    /\ Severities \subseteq {"shutdown", "periodic", "entry"}
    /\ NoFile \notin Nat

VARIABLES
    \* the file system
    content,      \* the lines of each file, in order; the index is the inode
    synced,       \* how many of them are on the medium
    active,       \* the file at the configured path
    archives,     \* [ts, index]: the archives in its directory
    \* hpu_file_priv_t
    fsync_sev, fd, file_size, next_boundary, file_id, lines_since_check, iobuf,
    \* the operation that holds the mutex
    pc, op, after,
    line, stamp,  \* its line and that line's time stamp
    \* accounting
    failed,
    \* the environment
    now, moved, faults, externals, crashes,
    \* history
    lost,         \* lines reported as failed
    gone,         \* lines that died with the process or the machine
    returned,     \* lines whose emit returned 0
    behind,       \* lines that arrived since the path holds another file
    latest        \* the archive made last

disk == <<content, synced, active, archives>>
priv == <<fsync_sev, fd, file_size, next_boundary, file_id, lines_since_check, iobuf>>
call == <<pc, op, after, line, stamp>>
env  == <<now, moved, externals, crashes>>
hist == <<lost, gone, returned, behind, latest>>
vars == <<disk, priv, call, failed, env, faults, hist>>

-----------------------------------------------------------------------------
(* Operators *)

(* How long some lines are together: the pairs of a line's place and one   *)
(* of its bytes, counted.                                                  *)
Bytes(s) == Cardinality(UNION {{i} \X (1 .. Size[s[i]]) : i \in DOMAIN s})

Inodes == 1 .. Len(content)

Written(l) == \E f \in Inodes : l \in Range(content[f])

hpu_rotate_next_boundary(t) == (t \div TimeUnit + 1) * TimeUnit

(* The checks of file_emit_one_locked before a line is committed. *)
OverSize == file_size + Bytes(iobuf) >= MaxSize

NeedRotate(t) == OverSize \/ t >= next_boundary

(* The archive name: the time of the rotation and the lowest free index. *)
FreeIndex(t) == CHOOSE i \in 1 .. Cardinality(archives) + 1 :
    /\ ~\E a \in archives : a.ts = t /\ a.index = i
    /\ \A j \in 1 .. i - 1 : \E a \in archives : a.ts = t /\ a.index = j

ArchiveName(t) ==
    LET named == IF Timestamped THEN t ELSE 0
    IN  [ts |-> named, index |-> FreeIndex(named)]

(* rotate_cmp_desc: later time stamps first, then higher indexes. *)
Newer(a, b) == a.ts > b.ts \/ (a.ts = b.ts /\ a.index > b.index)

(* Mutant: one more is kept. *)
SurplusBeyond ==
    {a \in archives : MaxFiles > 0 /\ Cardinality({b \in archives : Newer(b, a)}) > MaxFiles}

(* hpu_rotate_prune: what lies beyond the first MaxFiles. *)
Surplus ==
    {a \in archives : MaxFiles > 0 /\ Cardinality({b \in archives : Newer(b, a)}) >= MaxFiles}

(* Some call of the step may fail, as long as the model's budget lasts. *)
Ok == UNCHANGED faults
Trouble == faults + externals + crashes < MaxTrouble
Fault == Trouble /\ faults' = faults + 1

-----------------------------------------------------------------------------
(* Steps shared by the operations *)

At(step) == pc = step

GoTo(step) == pc' = step /\ UNCHANGED <<op, after>>

FlushThen(step) == pc' = "flush" /\ after' = step /\ UNCHANGED op

Rest(step) == pc' = step /\ op' = "none" /\ after' = "none"
Unlock == Rest("idle")

(* hpu_fs_open_append: the file at the path, or a new one; hpu_fs_size. *)
OpenPath ==
    LET f == IF active = NoFile THEN Len(content) + 1 ELSE active
    IN  /\ active' = f /\ fd' = f
        /\ content' = IF active = NoFile THEN Append(content, <<>>) ELSE content
        /\ synced' = IF active = NoFile THEN Append(synced, 0) ELSE synced
        /\ file_size' = IF active = NoFile THEN 0 ELSE Bytes(content[f])
        /\ moved' = FALSE
        /\ behind' = {}
        /\ UNCHANGED archives

(* file_refresh_id_locked; fstat of an open descriptor is taken to work. *)
RefreshId(f) == file_id' = f /\ lines_since_check' = 0

OpenActive == OpenPath /\ RefreshId(fd')

(* hpu_fs_write of a sequence of lines, or of its first n only. *)
WriteLines(s) ==
    /\ content' = [content EXCEPT ![fd] = @ \o s]
    /\ UNCHANGED <<synced, active, archives>>

(* A system call failed: the caller counts the line, whatever was done. *)
EmitFails ==
    /\ failed' = failed + 1
    /\ lost' = lost \cup {line}
    /\ Unlock

EmitReturns ==
    /\ returned' = returned \cup {line}
    /\ Unlock

-----------------------------------------------------------------------------
(* The operations *)

(* file_emit, or one turn of file_emit_batch, for the next line.  Events   *)
(* of several threads arrive slightly out of the order of their stamps.    *)
Emit(t) ==
    /\ At("idle") /\ line < LineCount
    /\ t \in {now, now - 1} \cap Nat
    /\ op' = "emit" /\ line' = line + 1 /\ stamp' = t
    /\ behind' = IF fd # NoFile /\ active \notin {NoFile, fd} THEN behind \cup {line + 1}
                                                             ELSE behind
    /\ IF NeedRotate(t) THEN pc' = "flush" /\ after' = "archive"
                        ELSE pc' = "check" /\ after' = "none"
    /\ UNCHANGED <<disk, priv, failed, env, faults, lost, gone, returned, latest>>

(* file_flush, file_sync, a file_periodic whose interval is over, and the  *)
(* flush and destroy of hpu_output_close.                                  *)
Operation(o, step) ==
    /\ At("idle") /\ op' = o /\ pc' = "flush" /\ after' = step
    /\ UNCHANGED <<disk, priv, line, stamp, failed, env, faults, hist>>

Flush == Operation("flush", "return")
Sync == Operation("sync", "fsync")
Periodic == fsync_sev # "shutdown" /\ Operation("periodic", "fsync")
Close == Operation("close", "destroy")

(* Back in the caller: the line of an emit is done when the flush was the  *)
(* last thing it had to do.                                                *)
FlushReturns ==
    IF after # "return" THEN GoTo(after) /\ UNCHANGED returned
    ELSE IF op = "emit" THEN EmitReturns ELSE Unlock /\ UNCHANGED returned

(* file_flush_locked: nothing to do, or one write. *)
FlushNothing ==
    /\ At("flush") /\ iobuf = <<>>
    /\ IF after = "return" THEN Unlock ELSE GoTo(after)
    /\ UNCHANGED <<disk, priv, line, stamp, failed, env, faults, hist>>

Flushed ==
    /\ Ok /\ WriteLines(iobuf)
    /\ file_size' = file_size + Bytes(iobuf)
    /\ iobuf' = <<>>
    /\ FlushReturns
    /\ UNCHANGED <<fsync_sev, fd, next_boundary, file_id, lines_since_check, line, stamp,
                   failed, env, lost, gone, behind, latest>>

(* A write may stop after some of the lines. *)
WriteFails ==
    /\ \/ fd = NoFile /\ Ok /\ UNCHANGED disk
       \/ fd # NoFile /\ Fault /\ \E n \in 0 .. Len(iobuf) - 1 : WriteLines(SubSeq(iobuf, 1, n))

FlushWrite == At("flush") /\ iobuf # <<>> /\ fd # NoFile /\ Flushed

FlushFails ==
    /\ At("flush") /\ iobuf # <<>>
    /\ WriteFails
    /\ fd' = NoFile
    /\ GoTo("reopen")
    /\ UNCHANGED <<fsync_sev, file_size, next_boundary, file_id, lines_since_check, iobuf, line,
                   stamp, failed, env, hist>>

FlushReopen ==
    /\ At("reopen") /\ Ok
    /\ OpenActive
    /\ GoTo("retry")
    /\ UNCHANGED <<fsync_sev, next_boundary, iobuf, line, stamp, failed, now, externals,
                   crashes, lost, gone, returned, latest>>

FlushRetry == At("retry") /\ Flushed

(* Mutant: the pending lines are forgotten without a count. *)
ForgetPending ==
    /\ iobuf' = <<>>
    /\ IF op = "close" THEN GoTo("destroy") ELSE Unlock
    /\ UNCHANGED <<failed, lost>>

(* Still failing: the pending lines are counted as failed.  file_sync goes *)
(* on to sync what is in the file.                                         *)
LosePending ==
    /\ iobuf' = <<>>
    /\ failed' = failed + Len(iobuf) + (IF op = "emit" THEN 1 ELSE 0)
    /\ lost' = lost \cup Range(iobuf) \cup (IF op = "emit" THEN {line} ELSE {})
    /\ CASE op = "sync" /\ fd # NoFile -> GoTo("fsync")
         [] op = "close" -> GoTo("destroy")
         [] OTHER -> Unlock

FlushReopenFails ==
    /\ At("reopen") /\ Fault
    /\ LosePending
    /\ UNCHANGED <<disk, fsync_sev, fd, file_size, next_boundary, file_id, lines_since_check,
                   line, stamp, env, gone, returned, behind, latest>>

FlushRetryFails ==
    /\ At("retry") /\ WriteFails
    /\ LosePending
    /\ UNCHANGED <<fsync_sev, fd, file_size, next_boundary, file_id, lines_since_check,
                   line, stamp, env, gone, returned, behind, latest>>

-----------------------------------------------------------------------------
(* hpu_rotate_file *)

(* The file at the path gets the archive's name, if there is one and the   *)
(* call succeeds; either way a file is opened at the path.                 *)
Archive ==
    /\ At("archive")
    /\ fd' = NoFile
    /\ LET a == ArchiveName(stamp)
       IN  \/ /\ active # NoFile /\ Ok
              /\ archives' = archives \cup {a}
              /\ active' = NoFile
              /\ latest' = a
           \/ /\ IF active = NoFile THEN Ok ELSE Fault
              /\ UNCHANGED <<archives, active, latest>>
    /\ GoTo("newfile")
    /\ UNCHANGED <<content, synced, fsync_sev, file_size, next_boundary, file_id,
                   lines_since_check, iobuf, line, stamp, failed, env, lost, gone,
                   returned, behind>>

NewFile ==
    /\ At("newfile") /\ Ok
    /\ OpenPath
    /\ GoTo("prune")
    /\ UNCHANGED <<fsync_sev, next_boundary, file_id, lines_since_check, iobuf, line, stamp, failed,
                   now, externals, crashes, lost, gone, returned, latest>>

NewFileFails ==
    /\ At("newfile") /\ Fault
    /\ file_size' = 0
    /\ EmitFails
    /\ UNCHANGED <<disk, fsync_sev, fd, next_boundary, file_id, lines_since_check, iobuf, line, stamp,
                   env, gone, returned, behind, latest>>

(* hpu_rotate_prune, any of whose calls may fail. *)
PruneArchives ==
    \/ Ok /\ archives' = archives \ Surplus
    \/ /\ Surplus # {} /\ Fault
       /\ \E failing \in SUBSET Surplus \ {{}} : archives' = archives \ (Surplus \ failing)

(* The end of the rotation, in file_emit_one_locked: next boundary, identity. *)
Prune ==
    /\ At("prune")
    /\ PruneArchives
    /\ next_boundary' = hpu_rotate_next_boundary(stamp)
    /\ RefreshId(fd)
    /\ GoTo("check")
    /\ UNCHANGED <<content, synced, active, fsync_sev, fd, file_size, iobuf, line, stamp, failed, env,
                   lost, gone, returned, behind, latest>>

-----------------------------------------------------------------------------
(* The rest of file_emit_one_locked *)

(* Mutant: the descriptor is asked, and not the path. *)
DescriptorReplaced == fd # NoFile /\ fd # file_id

PathReplaced == fd # NoFile /\ active # NoFile /\ active # file_id

(* Every CheckEvery lines: does the path still hold the file we write to?  *)
Check ==
    /\ At("check")
    /\ IF lines_since_check + 1 < CheckEvery
       THEN /\ lines_since_check' = lines_since_check + 1
            /\ GoTo("open")
       ELSE /\ lines_since_check' = 0
            /\ IF PathReplaced THEN FlushThen("swap") ELSE GoTo("open")
    /\ UNCHANGED <<disk, fsync_sev, fd, file_size, next_boundary, file_id, iobuf, line, stamp,
                   failed, env, faults, hist>>

Swap ==
    /\ At("swap") /\ Ok
    /\ OpenActive
    /\ GoTo("open")
    /\ UNCHANGED <<fsync_sev, next_boundary, iobuf, line, stamp, failed, now, externals,
                   crashes, lost, gone, returned, latest>>

SwapFails ==
    /\ At("swap") /\ Fault
    /\ fd' = NoFile
    /\ EmitFails
    /\ UNCHANGED <<disk, fsync_sev, file_size, next_boundary, file_id, lines_since_check, iobuf,
                   line, stamp, env, gone, returned, behind, latest>>

(* Mutant: a line that never goes through the buffer makes no room there. *)
MakeRoomSmall ==
    IF Size[line] <= BufSize /\ Bytes(iobuf) + Size[line] > BufSize THEN FlushThen("append")
                                                                     ELSE GoTo("append")

(* Room in the buffer is made by writing what is in it. *)
MakeRoom ==
    IF Bytes(iobuf) + Size[line] > BufSize THEN FlushThen("append")
                                           ELSE GoTo("append")

IsOpen ==
    /\ At("open") /\ fd # NoFile
    /\ MakeRoom
    /\ UNCHANGED <<disk, priv, line, stamp, failed, env, faults, hist>>

Open ==
    /\ At("open") /\ fd = NoFile /\ Ok
    /\ OpenActive
    /\ MakeRoom
    /\ UNCHANGED <<fsync_sev, next_boundary, iobuf, line, stamp, failed, now, externals,
                   crashes, lost, gone, returned, latest>>

OpenFails ==
    /\ At("open") /\ fd = NoFile /\ Fault
    /\ EmitFails
    /\ UNCHANGED <<disk, priv, line, stamp, env, gone, returned, behind, latest>>

(* A line larger than the buffer is written directly. *)
WriteBig ==
    /\ At("append") /\ Size[line] > BufSize /\ Ok
    /\ WriteLines(<<line>>)
    /\ file_size' = file_size + Size[line]
    /\ EmitReturns
    /\ UNCHANGED <<fsync_sev, fd, next_boundary, file_id, lines_since_check, iobuf, line,
                   stamp, failed, env, lost, gone, behind, latest>>

WriteBigFails ==
    /\ At("append") /\ Size[line] > BufSize /\ Fault
    /\ EmitFails
    /\ UNCHANGED <<disk, priv, line, stamp, env, gone, returned, behind, latest>>

(* Mutant: with fsync for every entry the line stays in the buffer. *)
BufferOnly ==
    /\ At("append") /\ Size[line] <= BufSize
    /\ iobuf' = Append(iobuf, line)
    /\ IF Bytes(iobuf') >= Threshold THEN FlushThen("return") /\ UNCHANGED returned
       ELSE EmitReturns
    /\ UNCHANGED <<disk, fsync_sev, fd, file_size, next_boundary, file_id, lines_since_check,
                   line, stamp, failed, env, faults, lost, gone, behind, latest>>

Buffer ==
    /\ At("append") /\ Size[line] <= BufSize
    /\ iobuf' = Append(iobuf, line)
    /\ IF Bytes(iobuf') >= Threshold THEN FlushThen("return") /\ UNCHANGED returned
       ELSE IF fsync_sev = "entry" THEN FlushThen("fsync") /\ UNCHANGED returned
       ELSE EmitReturns
    /\ UNCHANGED <<disk, fsync_sev, fd, file_size, next_boundary, file_id, lines_since_check,
                   line, stamp, failed, env, faults, lost, gone, behind, latest>>

(* hpu_fs_sync at the end of an emit, of file_sync or of file_periodic. *)
Fsync ==
    /\ At("fsync") /\ Ok
    /\ synced' = IF fd = NoFile THEN synced ELSE [synced EXCEPT ![fd] = Len(content[fd])]
    /\ IF op = "emit" THEN EmitReturns ELSE Unlock /\ UNCHANGED returned
    /\ UNCHANGED <<content, active, archives, priv, line, stamp, failed, env, lost,
                   gone, behind, latest>>

FsyncFails ==
    /\ At("fsync") /\ fd # NoFile /\ Fault
    /\ IF op = "emit" THEN EmitFails ELSE Unlock /\ UNCHANGED <<failed, lost>>
    /\ UNCHANGED <<disk, priv, line, stamp, env, gone, returned, behind, latest>>

-----------------------------------------------------------------------------
(* The life of the sink, and the world around it *)

Destroy ==
    /\ At("destroy")
    /\ fd' = NoFile
    /\ Rest("down")
    /\ UNCHANGED <<disk, fsync_sev, file_size, next_boundary, file_id, lines_since_check, iobuf,
                   line, stamp, failed, env, faults, hist>>

(* file_start, in this process or in the next one. *)
Start ==
    /\ At("down")
    /\ OpenActive
    /\ iobuf' = <<>>
    /\ next_boundary' = hpu_rotate_next_boundary(now)
    /\ Unlock
    /\ UNCHANGED <<fsync_sev, line, stamp, failed, now, externals, crashes, faults,
                   lost, gone, returned, latest>>

(* The process dies at any point; with the machine, what was not synced    *)
(* may be gone, too.                                                       *)
Crash ==
    /\ ~At("down") /\ Trouble
    /\ crashes' = crashes + 1
    /\ fd' = NoFile /\ iobuf' = <<>> /\ Rest("down")
    /\ \/ UNCHANGED content
       \/ content' = [f \in Inodes |-> SubSeq(content[f], 1, synced[f])]
    /\ gone' = {l \in 1 .. line : l \notin lost /\ ~Written(l)'}
    /\ UNCHANGED <<synced, active, archives, fsync_sev, file_size, next_boundary, file_id,
                   lines_since_check, line, stamp, failed, now, moved, faults,
                   externals, lost, returned, behind, latest>>

(* logrotate: the file gets another name, then a new one is created.       *)
ExternalMove ==
    /\ active # NoFile /\ Trouble
    /\ externals' = externals + 1
    /\ active' = NoFile /\ moved' = TRUE
    /\ behind' = {}
    /\ UNCHANGED <<content, synced, archives, priv, call, failed, now, faults, crashes, lost,
                   gone, returned, latest>>

ExternalCreate ==
    /\ moved /\ active = NoFile
    /\ active' = Len(content) + 1
    /\ content' = Append(content, <<>>) /\ synced' = Append(synced, 0)
    /\ moved' = FALSE
    /\ UNCHANGED <<archives, priv, call, failed, now, externals, crashes, faults, hist>>

Tick ==
    /\ now < MaxNow /\ now' = now + 1
    /\ UNCHANGED <<disk, priv, call, failed, moved, externals, crashes, faults, hist>>

-----------------------------------------------------------------------------
Init ==
    /\ content = <<>> /\ synced = <<>> /\ active = NoFile /\ archives = {}
    /\ fsync_sev \in Severities
    /\ fd = NoFile /\ file_size = 0 /\ next_boundary = 0
    /\ file_id = NoFile /\ lines_since_check = 0 /\ iobuf = <<>>
    /\ pc = "down" /\ op = "none" /\ after = "none" /\ line = 0 /\ stamp = 0
    /\ failed = 0
    /\ now = 0 /\ moved = FALSE /\ faults = 0 /\ externals = 0 /\ crashes = 0
    /\ lost = {} /\ gone = {} /\ returned = {} /\ behind = {}
    /\ latest = [ts |-> 0, index |-> 0]

Call == (\E t \in 0 .. MaxNow : Emit(t)) \/ Flush \/ Sync \/ Periodic \/ Close

FlushStep ==
    \/ FlushNothing \/ FlushWrite \/ FlushFails \/ FlushReopen \/ FlushReopenFails
    \/ FlushRetry \/ FlushRetryFails

RotateStep == Archive \/ NewFile \/ NewFileFails \/ Prune

EmitStep ==
    \/ Check \/ Swap \/ SwapFails \/ IsOpen \/ Open \/ OpenFails
    \/ WriteBig \/ WriteBigFails \/ Buffer \/ Fsync \/ FsyncFails

Environment == Crash \/ ExternalMove \/ ExternalCreate \/ Tick

Next == Call \/ FlushStep \/ RotateStep \/ EmitStep \/ Destroy \/ Start \/ Environment

Spec == Init /\ [][Next]_vars

-----------------------------------------------------------------------------
(* Properties *)

TypeOK ==
    /\ content \in Seq(Seq(Lines)) /\ synced \in Seq(Nat) /\ Len(synced) = Len(content)
    /\ {active, fd, file_id} \subseteq Inodes \cup {NoFile}
    /\ archives \cup {latest} \subseteq [ts : Nat, index : Nat]
    /\ fsync_sev \in Severities
    /\ iobuf \in Seq(Lines)
    /\ file_size \in Nat /\ next_boundary \in Nat /\ failed \in Nat
    /\ lines_since_check \in 0 .. CheckEvery - 1
    /\ pc \in {"down", "idle", "flush", "reopen", "retry", "archive", "newfile", "prune",
               "check", "swap", "open", "append", "fsync", "destroy"}
    /\ op \in {"none", "emit", "flush", "sync", "periodic", "close"}
    /\ after \in {"none", "archive", "swap", "append", "return", "fsync", "destroy"}
    /\ line \in 0 .. LineCount /\ stamp \in Nat
    /\ lost \cup gone \cup returned \cup behind \subseteq Lines

(* The line of the emit under way, before it is in the buffer. *)
InHand == IF op = "emit" THEN {line} ELSE {}

(* Failure accounting of file_flush_locked and its callers: whatever fails *)
(* in whatever order, a line that arrived is in a file, is pending, was    *)
(* counted as failed, or died in a crash; and the count is never too low.  *)
EveryLineAccounted ==
    /\ \A l \in 1 .. line :
          Written(l) \/ l \in Range(iobuf) \cup InHand \cup lost \cup gone
    /\ failed >= Cardinality(lost)

(* Where the last copy of a line is. *)
LastCopy(l) ==
    LET f == CHOOSE f \in Inodes : l \in Range(content[f]) /\ \A g \in Inodes :
                                      l \in Range(content[g]) => g <= f
    IN  <<f, CHOOSE i \in DOMAIN content[f] : content[f][i] = l /\ \A j \in DOMAIN content[f] :
                                                 content[f][j] = l => j <= i>>

Before(a, b) == a[1] < b[1] \/ (a[1] = b[1] /\ a[2] < b[2])

(* Over rotations, reopened files and repeated writes the lines that were  *)
(* not reported as failed can be read in the order of their arrival, from  *)
(* file to file.                                                           *)
LinesInOrder ==
    \A l, m \in {n \in 1 .. line : n \notin lost /\ Written(n)} :
        l < m => Before(LastCopy(l), LastCopy(m))

(* rd_v0.6 4.6, external rotation: the check every 1024 lines bounds what  *)
(* still goes to the old file once another one is at the path, although a  *)
(* check that finds no file there is skipped and starts the count anew.    *)
(* A rotation of the sink's own is never taken for one from outside: the   *)
(* identity that is checked is always that of the open file.               *)
ReplacementNoticed ==
    /\ Cardinality(behind) <= CheckEvery
    /\ pc = "check" /\ fd # NoFile => file_id = fd

(* Size checks: as long as no call fails a file exceeds "max size" by less *)
(* than its last line.                                                     *)
SizeBounded ==
    faults = 0 => \A f \in Inodes : content[f] # <<>> => Bytes(Front(content[f])) < MaxSize

(* Retention of hpu_rotate_prune: what a crash or a failed call leaves     *)
(* behind is removed by the next rotation, so that the archives exceed     *)
(* "max files" by one per trouble, and one more during a rotation.         *)
ArchivesBounded ==
    MaxFiles > 0 => Cardinality(archives) <= MaxFiles + faults + crashes
                                             + (IF pc \in {"newfile", "prune"} THEN 1 ELSE 0)

(* What the sink leaves on the disk stays within the limits of its         *)
(* configuration, and its counters within their types.                     *)
DiskBounded == TypeOK /\ SizeBounded /\ ArchivesBounded

(* fsync=true: a line below the flush threshold whose emit succeeded       *)
(* survives the machine.                                                   *)
EntryDurable ==
    fsync_sev = "entry" => \A l \in returned : Size[l] < Threshold => l \notin gone

(* rd_v0.6 4.6: "max files" removes the oldest archive.  The file that was *)
(* just rotated out is still there when the rotation is over.              *)
NewestArchiveKept == pc = "check" /\ latest.index > 0 => latest \in archives
=============================================================================
