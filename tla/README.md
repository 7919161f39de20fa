# A TLA+ model of hpulogc

hpulogc is a C logging library. Application threads turn a log call into a
record, put it into an in-process ring buffer, and consumer threads take records
out, format them and hand them to sinks (files, console, sockets, syslog, user
types). This directory models the parts of it whose correctness depends on the
order in which threads, failures and deadlines meet, model-checks them with TLC
on small instances, and proves the central safety properties with TLAPS for all
values of the parameters.

Paths below are relative to the repository root (`src/` of this tree).

## 1. Inventory

| Component | State | Operations | Talks to |
|---|---|---|---|
| Ring, locked build (`src/ring/ringbuf_locked.c`) | byte ring `buf`, monotonic `head`/`tail`, `closed`, counters, one mutex, two condition variables | put, get, kick, close, used, counters | producers (pipeline), consumers |
| Ring, lock-free build (`src/ring/ringbuf_lockfree.c`) | atomic `enq`/`deq`, a commit word per record, a sleep counter with mutex and condition | same interface, SPSC / MPSC / MPMC modes | same |
| Consumer threads (`src/core/consumer.c`) | `consumer_exit`, `consumer_alive`, `flush_req`, one `flush_ack` and one staging area per thread | start, loop (batch, idle tasks, drain), stop, flush | ring, pipeline, outputs, lifecycle |
| Lifecycle (`src/core/core.c`, `api.c`) | runtime state word, configuration snapshot, generation counter | init, re-init, shutdown, flush, log entry, fork handlers | everything |
| Hot reload (`src/core/hotreload.c`) | trigger slot, watcher thread, debounce | trigger, watcher loop, snapshot swap under `conf_lock` | lifecycle, configuration |
| Pipeline (`src/core/pipeline.c`) | throttle parameters, statistics | filter, throttle, build record, route, deliver | ring, registry, sinks |
| Category registry (`src/core/registry.c`) | append-only table; per entry an override, a cached route with its generation, a token bucket | find, lookup and register, refresh, override | pipeline, reload |
| Sink framework (`src/output/output.c`) | per-sink statistics, optional queue, filter | deliver, flush, sync, periodic, close | consumers, sink queue, sink types |
| Sink queue (`src/output/sink_queue.c`) | byte ring, `stop`, worker thread, linear sweep area | push, worker, flush_wait, destroy | sink framework, sink type |
| Rolling file (`src/output/output_file.c`, `rotate.c`) | descriptor, size, pending buffer, file identity, next boundary; archives on disk | emit, emit_batch, flush, sync, periodic, rotate, prune | file system |
| Network and stream sinks (`sink_tcp.c`, `sink_udp.c`, `sink_unix.c`, `sink_fifo.c`, `sink_http.c`) | connection, backoff, partial write | emit, reconnect | sockets |
| Console, syslog, null sinks | little | emit | system |
| Configuration (`src/conf/*.c`) | snapshot under construction; handles of its outputs | lex, parse, translate from code, finalise, plan reuse | lifecycle, reload |
| Formatter (`src/format/format.c`) | none | compile pattern, format line | pipeline |
| Signal-safe logging (`src/core/signal_safe.c`) | descriptor, flag | write | none |
| Platform layer (`src/platform/`) | wrappers | mutex, condition, thread, file, watcher | all |

What makes each of them correct:

- **Ring**: what is accepted comes out once, unharmed and in order, or is counted;
  refusals happen only for the documented reasons; nobody sleeps on work.
- **Consumers**: a flush that reports success has written what was accepted before
  it; stopping drains; when stop returns no thread is left that could touch the ring.
- **Sink queue**: the packed stream stays decodable across the end of memory, every
  accepted event reaches the sink or a counter, closing ends.
- **Lifecycle and reload**: nobody uses a snapshot, lock or ring after it is freed
  (where the code falls short of that, exactly how); a reload and a shutdown do not wait
  for each other for ever.
- **Pipeline and registry**: a cached route belongs to the snapshot it is used with; a
  category is registered once; a call is let through exactly if it meets the acknowledged
  override and the global level; buckets do not hand out more than they were given.
- **Configuration**: whatever path makes a snapshot active, init, reload or rebuild, it
  satisfies what its users rely on; every open handle has one owner and serves an
  output it could have been opened for.
- **Network and stream sinks**: no event twice or out of order, no frame glued to a torn
  one, nothing claimed that did not arrive, reconnecting backs off.
- **File output**: bytes reach the file they belong to or are counted as failed;
  rotation keeps the newest archives.

The hard behaviours, with their lines, are the `hazards` of `PROJECT.json`.

## 2. Modules

| Module | Models | Role |
|---|---|---|
| `RingContract` | `ringbuf.h` | abstract ring: a FIFO of records with three overflow policies |
| `RingLocked` | `ringbuf_locked.c`, condition variables of `posix_sync.c` | the default ring, byte level |
| `MCRingLocked`, `RingLockedProofs` | | instance; proofs about `RingLocked` |
| `RingLockfree` | `ringbuf_lockfree.c` | the lock-free ring, one step per atomic access, in its three modes |
| `MCRingLockfree`, `RingLockfreeProofs` | | instances; proofs about `RingLockfree` |
| `Consumer` | `consumer.c`, the end of `hpu_core_stop` | consumer threads, flush handshake, shutdown |
| `MCConsumer`, `ConsumerProofs` | | instance; proofs about `Consumer` |
| `Pipeline` | `pipeline.c`, `registry.c`, the swap of `hotreload.c` | filter, throttle, routing caches, overrides |
| `MCPipeline`, `PipelineProofs` | | instance; proofs about `Pipeline` |
| `Config` | `conf_file.c`, `conf_model.c` | pure operators: from a file or a structure to a checked snapshot, and the plan of a reload |
| `Runtime` | `core.c`, `hotreload.c` | init, reload, fork, shutdown around the snapshot; calls `Config` |
| `MCRuntime`, `RuntimeProofs` | | instances: files and structures; proofs about `Runtime` |
| `Ini` | `ini.c` | pure operators: the line lexer, from a file and from a buffer; compared by assumptions of `MCRuntime` |
| `SinkQueue`, `MCSinkQueue` | `sink_queue.c`, deliver and close of `output.c` | second-level queue of an asynchronous sink |
| `SinkQueueProofs` | | proofs about `SinkQueue` |
| `FileOutput`, `MCFileOutput` | `output_file.c`, `rotate.c` | the rolling file: pending buffer, reopening, rotation, retention, fsync |
| `FileOutputProofs` | | proofs about `FileOutput` |
| `NetSinks`, `MCNetSinks` | `sink_tcp.c`, `sink_udp.c`, `sink_unix.c`, `sink_fifo.c`, `sink_http.c`, `posix_net.c`, create, start and close of `output.c` | the sinks with a connection |
| `NetSinksProofs` | | proofs about `NetSinks` |

How they compose: `Consumer` takes its ring by `INSTANCE RingContract` and uses the
contract's `Enqueue`, `Evict`, `Dequeue` and `Close` as ring operations; `RingLocked`
and `RingLockfree` are shown to implement that contract (`ImplementsContract`, with the
ring's records in the order of their positions as the queue), so what is proved of the
consumers rests on the contract and not on one of the rings. `Runtime` extends
`Config`: a reload parses, checks and plans with the operators that stand for the
code of `src/conf`. `Pipeline` sees of a reload the swap only and takes the snapshots
that can become active from a constant; `Runtime` says which ones can.

### RingLocked

Positions and lengths count 8-byte words, because capacity and every record length
are multiples of 8. `buf` maps each physical word to the *image* of the write that
put it there: logical position, announced length, pad flag, record. A header or
payload word that belongs to another position is then visible as such. `head`,
`tail`, `closed`, `dropped`, `overwritten`, `policy` are the fields of
`struct hpu_ring`; `mu` is the mutex holder; `not_empty` and `not_full` are the sets
of threads asleep on the condition variables; `status` and `delivered` are history.

Every turn of the loop in `hpu_ring_put` is one action of the thread holding the
mutex: `PutRefuse` (closed, or full under discard), `PutPad` (pad to the boundary,
then around the loop), `PutRecord` (with the extension to the boundary when less
than a header would remain), `EvictOldest`/`EvictDone` (the inner overwrite loop),
`PutWait`. `hpu_ring_get` is `GetCall`, `GetSkipPad`, `GetRecord`, `GetEmpty`,
`GetWait`. A sleeper is moved by a signal to `relock` and takes the mutex again when
it is free; `Unwait` is a timeout or a spurious wake-up. `KickConsumer` and `Close`
are the two other entry points. `hpu_ring_get` without a staging area (the zero-copy
view) is left out: the library always passes one.

### RingLockfree

A word of memory is read in two ways, and the model keeps both: `commit` is what a
load of it as a commit word would find (a marker, 0, or `Junk` for whatever was not
stored as one), `image` is the write it belongs to. A producer walks through
`LoadEnq`, `SpaceOk`/`SpaceNone` (or `EvictLoad`, `EvictMark`, `EvictCas` under
overwrite), `Reserve`, `Invalidate`, `Fill`, `Publish`, `PutKick`;
pads take the same way and go around the loop. A consumer walks through
`LoadCursors`, `Fresh`, `MarkerFound`/`MarkerTaken`/`MarkerMissing`, in MPMC mode
`FreshAgain` and `ClaimWins`/`ClaimLoses`, then `ReadHeader`, `Copy`, `Revalidate`
(SPSC), `Advance`; with nothing to read `GetPark`, `Announce`, `Recheck`, the wait and
`Unpark`. `Close` and its kick are two steps. `mode` and `policy` are fixed at
creation; `total` stays with the producer over a lost reservation, as in the code.
`ImplementsContract` therefore names one step that `RingContract` does not have,
`RefuseExtended`: the refusal, by a ring without a record, of a producer whose length was
extended for a reservation it did not get, or behind a pad longer than half of the memory,
which only such a length leaves (`LongPad`; see Observations). It takes several producers and
the discard policy. Every other refusal is one of the contract's.

Two limits are explicit. Atomic accesses happen in one global order (no store
buffers). And `JunkMayMatch` lists the looks at a commit word at which payload bytes may
happen to equal the expected marker. The code does not exclude that: a reserved range keeps
its old words until it is invalidated, and a claim comes after the last look at the cursor.
The runs leave it out (`JunkMayMatch` is empty), and the theorems say of what they leave out
that it did not happen (`NothingMistaken`, no step of the behaviour takes junk for a marker);
see Observations for what happens where it does. The
staging area is always as large as the ring (`consumer.c`), so the branches for a short
one are left out.

### Consumer

`cpc[c]` walks through `consumer_loop` and `consumer_idle_tasks`: count itself alive
and allocate staging (`Begin`), look at `consumer_exit`, get, process, flush the
outputs, load `flush_req`, look at the ring, store `flush_ack`, leave. The accesses
to shared words are separate actions because other threads act between them.
`fpc[f]` walks through `hpu_consumer_flush`: take a number and kick, look at the
ring, compare the answers one by one, sleep and repeat. `mpc` is the thread that
starts and stops: a `hpu_thread_create` that fails at any thread, close the ring,
set `consumer_exit`, wait for `consumer_alive` to be 0 or the deadline, join.
`accepted`, `evicted`, `unflushed`, `written` and `before` are history: which records
were accepted before a flush, and how far each record has come.

### Pipeline

A log call is a walk of its thread through `hpu_pipeline_submit` (threshold, unlocked
lookup), `lookup_register` (the second look and the registration under `g_reg.mu`),
`filter`, `throttle_pass` (the parameters of the snapshot), `category_bucket`,
`sample` and `put`; the consumer takes (`consumer_get`) and processes
(`consumer_process`) as two steps, so that a reload can fall between. What happens
under `conf_lock` is one step: `hpu_pipeline_process` with `route_lookup` and the
refresh of the cache, and `reload_swap`. `Admin` is the thread in
`set_level_for_category`; its lookup and its store are separate steps. `promised`,
`floor` and `grants` are history: the override acknowledged last, what the call saw of it
when it began, and what a bucket let through since when. `OverrideHolds` says what the filter
does with an acknowledged override: a call passes exactly if it meets the override *and* the
global level it read. The header says that the override wins over the global level
(`hpulogc.h:725`); it does not (see Observations).

A category is the sequence of its segments. Two reads of the caller before its first
look at the registry are merged with that look: the look under the mutex and the filter
see whatever comes between. `conf_gen` is unbounded where the code has 32 bits (a cache
would have to stay unused over exactly 2^32 reloads to be mistaken). Tokens are whole where
the code keeps fractions, and time passes in ticks in which a whole number of them accrues. The global bucket
lives in the locals of `throttle_pass` and never refuses (see Observations), so it is not
a variable.

### Config, Runtime

`Config` has one operator per section parser, a table per kind of key, and the checks of
finalisation in their order: `hpu_conf_load_file`, `hpu_conf_from_code`,
`hpu_conf_finalize_impl`, `FinalizeReloadChecks` (the list of its own that
`hpu_conf_finalize_reload` has), `ReusePlan`, `hpulogc_conf_validate`. A file is a
sequence of logical lines; text is abstracted to what a check tells apart (a keyword, an
integer, a size with its suffix, a list, too long for its buffer).

`Runtime` keeps the heap of snapshots, each with its content and the handles in its
output slots, the set of handles the process holds open, `conf_lock`, the reload slot
`busy`, the flags of the watcher, of fork and of the consumer. A reload is the chain
`reload_try_enter`, `trigger_prepare`, `finalize_reload`, `open_next` (once per output,
each may fail), `swap_lock`, `reload_swap`, walked by the watcher or by a thread that
triggers; every gap is one in which the code holds no lock. `hpulogc_shutdown` walks
through the stages of `hpu_core_stop`. `hpu_atfork_child` removes all threads but `main`
wherever they are; `hpu_core_fork_check` is the lazy rebuild. Init is one action, since
nobody else may use the library before it returns.

*Time.* The 5 s of a thread that waits for the reload slot and the 6 s of a shutdown that
waits for a reload pass at any moment of the wait (`deadline_passes`; `late` is who they have
passed for): nothing bounds a reload, since opening a tcp output resolves and connects without
a timeout (`sink_tcp.c:128-134`). A shutdown that goes on while the reload still has the slot
frees the snapshot and the lock under it; what the reload does from there is undefined, so
the model ends at that point for the reload and for main (`Abandoned`). *Callers.* As the specification of
the library demands (`docs/rd_v0.6.md` 7.5), nobody logs or enters a reload while another
thread shuts down (`CallersSettled`), and a `disable` child, whose locks may be held by
threads it does not have, calls neither flush nor shutdown. Failures of the threads and
the ring inside `hpu_core_start` are modelled in `Consumer` only.

### Ini

Two readers lex the same text: one with `fgets` and a newline at the end of each physical
line, one over a buffer without. A text is a sequence of character classes. Both are pure
functions, `hpu_ini_parse_file` and `hpu_ini_parse_buffer`, so there is nothing for a run to
explore: `MCRuntime` states as assumptions, which TLC evaluates before the runs of `Runtime`,
that the two agree on every text whose first line is any of up to four characters and whose
second is one of three (`LexersAgree`), and differ whenever the first ends in a backslash
without a comment behind it (`LexersDiffer`).

### SinkQueue

Producers push under the mutex and never wait; the worker copies everything queued
into a linear area, gives the space back, and decodes and emits from the copy
without the mutex. Each critical section is an action, as is each turn of the decode
loop. Every byte remembers its event and its index in the packed record, so a
decoder standing in the middle of something is visible. `Deadline` keeps the
word width of the clock arithmetic (`Word`).

### FileOutput

All operations of the sink hold its mutex, so there is one operation at a time (`op`),
but every system call that can fail is a step (`pc`): between two of them another
process may move the file, and this process, or the machine, may die. `after` is the
step a flush returns to, since `file_flush_locked` is called from seven places. A file
is its inode, `content` what is in it, `synced` how much of that is on the medium;
`active` is the file at the configured path, which need not be the one behind `fd`.
`file_emit_one_locked` becomes `Emit` (rotation decision), `Archive`, `NewFile`,
`Prune`, `Check`, `Swap`, `Open`, `Buffer` or `WriteBig`, `Fsync`; the flush with its
one reopening and retry is `FlushWrite`, `FlushFails`, `FlushReopen`, `FlushRetry`
with their failures. `ExternalMove` and `ExternalCreate` are a log rotation from
outside. A line is a number with a size; a failed write may leave some of the pending
lines in the file, but no torn line. `lost`, `gone`, `returned`, `behind` and `latest`
are history. Left out: the symlink, permissions, a naming template without `{index}`,
and the clock of `file_periodic`, whose interval may be over at any call.

### NetSinks

One instance of one of six kinds, chosen in `Init` together with its backoff keys, its
body format and whether it sits behind a queue, from `hpu_output_create` (with each way
to fail) to `hpu_output_close`. A call of `emit` or `emit_batch` is a sequence of steps,
one per record and one per POST, so that the peer may answer each differently. `stream`
is what the peer was sent: openings, whole frames, pieces. A send that fails may have
delivered any prefix of what was to be sent. `wait` counts what is left of the backoff
window and `Tick` lets it pass between calls.

## 3. Runs

| Run | What it shows | States |
|---|---|---|
| `RingLocked` | all three policies, two producers, two consumers, four records of 2 to 4 words in eight words of memory, with timeouts, spurious wake-ups, kicks and close: the chain of headers never breaks, none is lost or torn, the ring implements its contract; every put returns and every accepted record leaves | 59 thousand |
| `RingLockfree_multi` | the three builds, two producers, up to two consumers: reservations chain, a marker implies a complete record, a lease holds the cursor, no record is lost and no copy torn | 1.8 million |
| `RingLockfree_liveness` | the three builds with one consumer implement the contract, but for `RefuseExtended`; every put returns, every accepted record leaves without a timed wait running out | 53 thousand |
| `Consumer` | a flush that returned OK left nothing behind, shutdown drains, a flush needs its deadline only if a consumer failed, stopping ends | 745 thousand |
| `Pipeline` | caches are current, categories unique, a call passes exactly if it meets its override and the global level, buckets bounded, with a registry that is too small, a full ring, and both builds | 1.8 million |
| `Runtime` | one owner per handle, each handle serves an output it fits, every active snapshot is sound, nobody uses a freed one unless shutdown stopped waiting for a reload that was not done; control calls return; an edit takes effect, is reported, or met a slot that was taken for 5 s | 160 thousand |
| `Runtime_stale` (violation) | in a throttle build a logger reads the snapshot without the lock that protects it | |
| `Runtime_drain` (violation) | shutdown waits 6 s for a reload that is not done, and frees the snapshot and the lock under it | |
| `SinkQueue` | packed stream, decoder, accounting; queued events reach the sink; close ends | 251 thousand |
| `SinkQueue_drain` (violation) | a worker told to stop exits with swept events in hand | |
| `FileOutput` | whatever fails, a line is in a file, pending, or counted as failed; lines can be read in the order of their arrival over all files; a replaced file is noticed within the check interval and never imagined; sizes and archives stay within their limits; with fsync for every entry a line whose emit returned survives the machine | 584 thousand |
| `NetSinks` | no event twice or out of order, no frame glued to a torn one, no claim without arrival, bodies fit, reconnecting backs off | 410 thousand |

Each violation run checks one property that quotes the repository; the
disagreement is described under `findings` in `PROJECT.json`.

**Bounds.** The ring has 8 words with a header of 2: records of 2, 3 and 4 words
reach every case of the placement code (exact fit, pad, extension by one word, pad
that fills the ring, eviction of a pad and of several records), and four records go
around the ring more than once. Two producers and two consumers are what the signal
protocol can confuse. The lock-free ring has the same memory and fewer records
(three, in the liveness run two), since each operation has some ten steps; they
still reach pad, extension, eviction and the reuse of a range by a later lap.

`Consumer` has two records, two consumers and one flush: enough for a record in the other
consumer's hand, a put between look and answer, a failed consumer. Several flushes at once
are covered by the theorem `FlushKeepsItsWord`.

`Pipeline` has two places in the registry for three categories (one with a name too long to
be registered), two snapshots that differ in level (2 and 5, with an override of 3 between
them, so that each of the two thresholds decides), rules and throttle, a ring of one record; two log calls, one reload and one control call leave no pair of steps without its
interleaving. The theorems cover the rest.

`Runtime` has room for three snapshots: the active one, one under construction by a reload
and the allocation that fails; one edit and one explicit trigger compete for the slot. The
contents cover every section, a reload that keeps a handle under another name, one that
must not (changed parameters), one refused for two spellings of a path, and each fork
behaviour.

The sink queue has 11 bytes with a header of 3 and a pad of 2; since 11 is not a multiple
of the lengths every phase of the boundary occurs. The rolling file sees four lines of 1,
2, 1 and 5 against a buffer of 4 with a threshold of 3: a line that stays pending, one that
fills the buffer to the threshold, one larger than the buffer behind a pending one; size
and time both rotate, one archive is kept so that every rotation but the first prunes, and
every second line is checked. `MaxTrouble` allows any two failed calls, moves or crashes
together, which covers a failure inside the handling of another. The network sinks see
four events in batches of up to three: one fills a body exactly, one overflows it, one is
longer than both a body and a datagram.

All bounds are constants of the modules. Bounds on otherwise unbounded counters are
`MaxFlushes`, `MaxNow`, `MaxTrouble`, `MaxCalls`, `MaxReloads`, `MaxControls`, `MaxTime`,
`MaxEdits`, `MaxTriggers`, `MaxSnaps`, `MaxEvents`, `MaxBatch` and `MaxBackoff`.

**Symmetry** is used in safety runs only, over threads and records that no
definition tells apart.

**Fairness.** A thread that can run runs (weak fairness of the steps between lock
operations); a thread waiting for the mutex gets it eventually (strong fairness of
`Relock`, as the platform's mutexes and scheduler give it); consumers call get again
(`consumer_loop` does nothing else). In `RingLockfree` every thread's
steps are strongly fair: the code spins on compare-and-swap, which is lock-free and not
wait-free, so a single thread's progress rests on the scheduler letting it win some time.
In `Runtime` whoever waits for `conf_lock` gets it in the end, whoever waits for the reload
slot or for its holder gets it or sees its deadline pass (`deadline_passes`, weakly fair: clocks
go on), and a consumer that is told to stop finds the closed ring empty in the end (`ShutdownDrains`).
No fairness is assumed of applications that put, flush, log or shut down, of whoever edits
the configuration file, of spurious wake-ups or, but for these two deadlines, of timeouts, so
the liveness results of rings and consumers rest on signals. In `Consumer` sinks are assumed to
return; `hpu_consumer_stop` joins the threads without a bound, so nothing ends without that.

**Deadlock** is checked in every ring, consumer and file run. The others may stop: all
events were delivered, the sink is closed, or the bounds on calls are used up.

## 4. Proofs

Constants are assumed only what the code guarantees: header and record sizes are
positive, the capacity holds two of the largest record (`ringbuf.h`), threads and
policies are distinct, a burst is at least 1 (`conf_file.c` clamps it), the clock of
`SinkQueue` may reach the instant it starts at, lines and frames are not empty, the flush
threshold is within the buffer. Nothing bounds the number of threads, records, lines,
categories, rules, reloads or the capacity; the sets that an argument counts
(`Records`, `Msgs`) are finite. `Runtime` assumes of its files and structures what the
parser produces from any input: the fields of a snapshot, whole outputs in a list, sizes
that are unsigned (`ContentsTyped`), and that whatever a strict load accepts a lenient one
does (`StrictIsStricter`). Both follow from `Config` by induction over the lines of a file,
which is out of the prover's reach; TLC evaluates them for the contents of the run.

**RingLockedProofs.** `Inv` is inductive: `TypeOK`, `ThreadsOK`, `RingChain`,
`PadFits`, `LiveHeaders`, `WrittenBefore`, `RecordsIntact`, `NothingLost`.
`RingChain` alone is not: a step that moves `head` by the length it finds needs to
know that the length belongs to the position (`Live`), a step that writes at `tail`
needs that what it overwrites is not live (two positions less than a capacity apart do
not share a physical word, `ModDistinct`), and a header left from an earlier lap
must not be mistaken for a live one when `tail` advances (`WrittenBefore`).
`PadFits` carries the reason for extending records: a pad header always fits before
the boundary. The proof has a lemma per action; the theorems are `InvariantHolds`
and its consequences `TypeCorrect`, `ChainNeverBreaks`, `NoRecordLost`.

The refinement is proved on top of `Inv`. The queue is a function of the unread
positions: its i-th record is the one at the position with i - 1 unread positions before
it (`Nth`). That there is such a position for every rank (`Ranked`) is itself carried
along, since it would take an induction over sets to prove it of any finite set; a record
put at `tail` takes the next rank (`AppendRank`), one that leaves at `head` moves every
rank down by one (`RemoveRank`). The second half of `QueueInv`, `PadsShort`, is about
refusals: a pad ends at the boundary and is shorter than the record that did not fit,
hence than half of the memory, so a ring that holds no record has room for one, and an
open ring refuses nothing while it is empty. Each action is then a step of `RingContract`
or leaves its variables alone. Theorem: `RingKeepsContract`.

**RingLockfreeProofs.** `FInv` is inductive: `TypeOK`, `PcInv`, `RingInv`, `PutInv`, `GetInv`,
`MsgInv`. The properties of the run are not: they look at published headers, and a step of one
thread depends on what another has reserved and not yet written. So an *entry* is either a
header in memory or the range of a producer that is still to write it (`Starts`, `Entry`), and
`ChainInv` says that entries follow one another from `deq` to `enq`, none starting inside
another. `OwnInv` gives each producer past `Reserve` a position of its own whose commit word
it has cleared; `MemInv` says that a commit word which is a marker of a live position stands
in front of the complete record, and that no word speaks of a position not yet reserved. A
producer that waits keeps a length that still fits (`PutOk`); what it knows of `deq` may be
old, and `deq` only grows. For a consumer the case is harder: its cursor may be stale. A
stale cursor is one whose commit word no longer is the marker it looks for
(`at[c] < deq => commit # at + 1` in `GetOk`), since whoever moved `deq` past it replaced the
marker first: the claim of another consumer, or the invalidation before an eviction. Hence
the claim can only succeed at `deq`, and the lease is held by one (`OneLease`). Under
overwrite a copy may be overtaken; `GetOk` then says nothing until the second look at `deq`
decides. `MsgInv` ties the records to their holders, a header or a producer. Two facts of
arithmetic carry it: positions less than a capacity apart have
different offsets, and a range that does not cross the end of memory has consecutive ones.

The refinement rests on `FInv` and on the lemmas about ranks, here stated for sets of
positions that may lie in memory or in a producer's hands (`RecordAt`, `WaitingHere`): a
record joins the queue when `enq` moves over its range and leaves it when `deq` does; filling
the range, publishing, leases, copies and wake-ups change nothing that the contract sees
(`Invisible`). `QueueInv` adds what refusals need. `PadsEnd`: a pad ends at the boundary and
is not the whole memory, so without a record there is at most one, from `deq` to `enq`
(`NoRoom`). `Length`: a producer's pad is shorter than the length it asks for, and with a
single producer under discard that length is the record's own until it is extended. Hence
that build refuses nothing while it holds no record, and in the others the refused length, or
the pad in its way, was kept from a reservation that was lost. Both disjuncts of
`RefuseExtended` are needed: on 10 words TLC reaches a refusal of either kind.

Theorems: `ChainHolds`, `ProtocolHolds`, `RecordsHold`, `LockfreeKeepsContract`. They hold for
every `JunkMayMatch`, of behaviours of `SafetySpec /\ NothingMistaken`: those in which no step
takes junk for the marker it looks for (`MistakesJunk`). That is a condition on the behaviour
and not a fact about the code, which lets such steps happen; the invariant is shown to survive
every step but these, and behind one of them nothing is claimed (see Observations).
`SafetySpec` is `Init /\ [][Next]_vars`.

**ConsumerProofs.** `IInv` adds to the properties: where every accepted record is
(`Located`), that a hand is empty and nothing unflushed where the code says so
(`HandsEmpty`), that numbers never exceed the last request (`Numbered`), that a
consumer which saw the ring empty after it read the request may answer it
(`Entitled`), what a flusher knows of the answers it has counted (`Counted`), that
nobody puts once consumers leave (`Leaving`) and that `consumer_alive` counts the
running threads (`AliveExact`). The key step is that an answer certifies the ring
*and* the consumer's own hand, and that both stay clean of older records because
records only enter the ring by `Put`. Theorems: `ConsumerInvariant`,
`FlushKeepsItsWord`, `AnswersCertify`, `StopDrains`.

**PipelineProofs.** Three layers. `RegInv` (types, `RegistryUnique`, `GenBound`,
`RoutesCurrent`) is inductive by itself: `GenBound`, that no entry carries a generation
still to come, is what makes a swap invalidate every cache at once, and the lookup returns
the *first* entry of a name, for which `FindCorrect` takes the least element from
`WellFoundedInduction`. `CallInv` adds the calls in progress: a slot found stays that
category's slot for good (`SlotOK`), a logger that saw no entry had no promise to obey
(`NoSlotNoPromise`), an acknowledged override is in the table (`PromiseKept`), nothing is
promised while its call is in flight (`InFlight`), and promises carry the number of the
call that made them, so that a promise noted before the present call is never mistaken for
the one it is about to make (`Calls`). Then the filter's verdict is the conjunction of the two
levels (`FilterObeys`), and a call behind it meets both (`PassedMeets`). On top of that `BInv`: what a bucket granted and what it still holds
together never exceed a burst and a rate for the time up to its last use (`Bounded`), with
burst and rate taken from *some* snapshots, since a reload may change them between two
uses. A refill at rate r after a stretch at rate d is at most both stretches at the higher
of the two (`TwoRates`); a fresh bucket grants because a burst is at least 1. Theorems:
`RoutesAreCurrent`, `RegistryIsUnique`, `OverridesAreKept`, `BucketsAreBounded`.

**SinkQueueProofs.** `QInv` is inductive: `TypeOK`, `RingInv`, `SweepInv`, `StatInv`.
`RingInv` says that what lies between two cursors is a stream of whole packed records
(`Ring`) and that it holds exactly the events that are queued, each once (`Holds`). It is
stated of any pair of cursors, so that one set of lemmas serves a push (`PutOutside`,
`PutInside`), the discarding of the oldest record and the copy of the sweep. `SweepInv`
carries the same over to the linear copy from where the decoder stands (`Decodable`), and
says which events are in the rest of it and in the batch (`Accounted`): the worker decodes
without the mutex, so nothing of the ring may be used for that. `StatInv` counts: a step
that moves one event between two fates changes one counter by one. Theorems:
`QueueIsSound`, `QueueLosesNothing`, `QueueCountsExactly`.

**NetSinksProofs.** Three layers. `DInv` (`CallInv`, `StreamInv`): a call works through the
latest events in order; what was sent is in order and before what waits in the buffer, which
is in order and before what the call has not reached (`Delivering`). At most once follows,
since a record leaves the buffer or the call with the step that may have sent it. `CutsEnd`
needs that every step after a cut frame closes the connection in the same step. `CountInv`
rests on `DInv`: what would be claimed if the call ended now (`Claimed`) is at most what
arrived. A record in the buffer is done and not claimed; a flush that got through adds as
many arrivals as it makes claims, because the records of the buffer are distinct and none had
arrived (`SentCount`, for http `AnswerCount`). `GateInv` is independent of both: a sink that
is not connected has a backoff between its keys. `BodyFits` is inductive given `DInv`:
a record is added after the test of its length only, and the length of a body is that of its
records, its commas and its brackets; since `SumOf` is a fold, its value is taken from the
number of cells of a set (`CellsFinite`). Theorems: `StreamsAreOrdered`,
`CutFramesEndConnections`, `BodiesFit`, `NothingOverclaimed`, `SocketsBackOffHolds`.

**FileOutputProofs.** `FileInv` has a conjunct per concern, over a common part: where an
operation can be (`CallOK`: `after` remembers where a flush returns to), which files exist
(`FilesOK`: none after the one that is open or the one at the path), and that the pending
lines are younger than all that was written (`BufferOK`). Every step changes the files in
one of five ways, nothing, a new file, lines appended to the open one, a sync, or a crash
that cuts each file to what is on the medium (`Kind`), and the lemmas about lines are stated
of these. `LinesOK`: every line that was handed over is in a file, pending, in hand, or
reported. `OrderOK`: if a line stands before an older one, in one file or in an earlier one,
the younger was written again after it (a failed write may leave lines that are still pending,
and the retry writes them once more). `EntryOK`: with a sync for every entry the line whose
sync is due is in the file that is open, not in one that a rotation closed. `BehindOK`: the
lines that went to a file no longer at the path number at most those since the last look at
it, plus one for the line under way. `SizeOK`: without failures `file_size` is the size of the
file, and the file was below its limit before its last line (`Followed`). `ArchivesOK`: what
exceeds the archives to be kept is about to be pruned. Theorems: `LinesAccounted`,
`LinesStayInOrder`, `ReplacementIsNoticed`, `DiskIsBounded`, `EntriesSurvive`.

**RuntimeProofs.** `ControlInv` says who may be where: one thread holds the reload slot,
main goes on to free only with the slot empty or its own deadline behind it (`PhaseOK`), a
reload that is left when the runtime is gone is one that shutdown stopped waiting for
(`LeftBehind`), and if there is none main starts again from nothing (`QuietBetween`); a forked child has nobody but main until it
has rebuilt. `SnapInv` says which snapshots are alive: the active one, the one under
construction by whoever holds the slot, and in a child what a fork abandoned. Every step is
one of a few effects on the heap (`Effect`), so that the layers above need not look at the
code again. `LifeInv` gives `StaleOnlyWhenOverdue`, for builds without throttling
(`~Throttled`): the only way to a stale snapshot is a shutdown whose 6 s ran out before the
reload it waited for was done (`Runtime_drain` shows that way, `Runtime_stale` the other one of
the builds that throttle). `HandleInv` is about the
slots: `SlotsOK` (a handle was opened for its slot, or kept from a snapshot that is freed, for
an output with the same path and rotation, which composes over a chain of reloads),
`UniqueOK`, `OpenOK`, and `PlanOK`, that a plan takes each handle at most once, because a
checked file has no two outputs with one path. `CheckedOK` says that whatever is active passed
its checks; `ActiveIsSound` then shows that the checks of init, of a reload (a second list in
the code) and of a rebuild each imply what the code behind them relies on. Theorems:
`StaleOnlyWhenOverdue`, `HandlesHaveOneOwner`, `HandlesFitTheirOutputs`, `ActiveIsSound`.

**Only model-checked**: liveness (all of it; fairness is outside the prover's reach) and what
the folds of `Config` over lists of lines compute, which needs induction over data and enters `RuntimeProofs` as the assumptions
named above. Every invariant that a passing run checks has a theorem, and so have both
refinements of `RingContract`. `AckCertifies`,
`NoThreadLeft`, `RecordsIntact` and other named parts of the inductive invariants are proved
and not run by themselves.

## 5. Not modelled

- *Formatting* (`format.c`): layout of text without state shared between calls.
- *Console, syslog and null sinks*: one call to the system per line.
- *Signal-safe logging*: one write under a flag.
- *Platform layer*: mutexes and condition variables are modelled as `RingLocked` uses them,
  sockets as `NetSinks` does, the file watcher as "a change is noticed in the end"; the rest
  wraps system calls. The Windows and macOS back ends differ in those wrappers only.
- *Of the pipeline*: rendering of the record, its fields, source location and context.
- *Of the sink framework*: registration of custom types, field filtering, the statistics
  report and the periodic calls.
- *Hardware*: store buffers (`RingLockfree`), torn reads of the counters.

## 6. Observations

Met while modelling. Some are visible in a module or stated there as a definition that is
not part of a run (named in brackets); all can be followed in the code at the place given.

Rings and consumers
- The claim of an MPMC consumer compares with a word that may be payload of a later lap
  [`RingLockfree!NeverClaimsPayload`; with `JunkMayMatch = {"marker", "claim"}`, one producer and
  records of 2, 4 and 4 words TLC finds a claim that lands in one].
- `hpu_consumer_stop` bounds its wait for `consumer_alive` and then joins without a bound
  (`consumer.c:373-381`), so a sink that blocks holds `hpulogc_shutdown` beyond
  `shutdown_timeout_ms`. Its deadline, like that of `hpu_sink_queue_flush_wait`
  (`sink_queue.c:447`), adds `~0` to the clock for a timeout of 0 and wraps: the wait
  documented as infinite ends at once [`SinkQueue!Deadline`].
- A lock-free consumer that announces its sleep looks at the cursors only, so a close or a
  kick of that moment is noticed at its timeout (`ringbuf_lockfree.c:253-261`, `Recheck`).
- A producer of the lock-free ring keeps a length extended to the boundary over a lost
  reservation, and may be refused by an open ring that holds nothing but a pad, although
  `ringbuf.h:141-142` knows a full and a closed ring only (`ringbuf_lockfree.c:525`, `total` in
  `LoadEnq`). It takes a ring of 10 words with a header of 3, two producers and records of 3, 3,
  5 and 5: one producer extends its record of 5 to 7, loses the reservation, the other goes
  around behind a pad of 4 and is read, and the first one asks for 7 words where 6 are free. Or
  it comes around to offset 4, puts a pad of 6 in front of its 7 words, and a record of 5 of the
  other finds 4 words free. The run's memory of 8 is too small for either [`RingLockfree!RefuseExtended`].
- `max_log_length` may be 65536, one more than the 16-bit length of a packed event holds
  (`conf_model.c:500`, `sink_queue.c:107`).

Sinks
- The rest of a lap of the sink queue may be shorter than a pad [`SinkQueue!BridgeFits`]; an
  event that does not fit before the end of memory is discarded also by an empty queue
  (`sink_queue.c:97`, `DeliverFull`); `hpu_sink_queue_flush_wait` returns when head and tail
  meet, which the worker brings about before it emits what it swept (`sink_queue.c:287`, `454`).
- An index freed by a removal is used again, so the newest archive can be pruned as the
  oldest [`FileOutput!NewestArchiveKept`].
- When a flush fails inside an emit whose line is already in the buffer, that line is counted
  twice in `failed` (`output_file.c:133`, `442`; `LosePending`). With `fsync = true` a line of at
  least `FLUSH_THRESHOLD` bytes is written and not synced (`output_file.c:416-419`, `Buffer`), and
  neither is a file that is closed by a rotation or a reopening (`Archive`, `Swap`); `EntryDurable`
  is stated for the lines below the threshold. A removal of archives that dies between the rename
  and the pruning is made up for by the next rotation only, not by the next start.
- After a planned close of its connection http reconnects without backoff
  [`NetSinks!HttpBacksOff`]. A sink whose start failed, and a fifo that waits for its reader,
  close descriptor 0 on destruction [`NetSinks!ClosesOnlyItsOwn`]. A fifo behind a queue counts a
  failed record twice.

Configuration, reload, fork
- A backslash at the very end of a line continues it from a buffer and not from a file, where
  the newline that `fgets` keeps stands behind it (`ini.c:128-132`); `ini.h:50` promises the same
  rules. A line with a comment behind the backslash is continued by both
  [`Ini!BackslashHidden`, `Ini!SameLexing`]. And a line of 1023 characters
  is accepted from a buffer and refused from a file.
- The global throttle bucket lives in the locals of `throttle_pass` and never limits, against
  `rd_v0.6.md:1513`. A category that found the registry full has no bucket either, and the
  warning that it "routes by the fallback rule only" (`registry.c:115`) is not what happens: its
  rules are scanned for every record.
- A record that no output takes is counted as lost, not as written (`pipeline.c:418`), so accepted
  may differ from the sum of the outcomes of `rd_v0.6.md:467-468`; and the counters are read one by
  one, although `hpulogc.h` promises a consistent snapshot.
- `hpulogc_strerror` indexes its table at 6 for code -6, one past the end (`api.c:73`).
- The saved structure keeps borrowed pointers (`truncation_marker`, `sinks`), and an
  `init_default` leaves none: a `reinit` child then cannot rebuild, and stops logging for good
  where `rd_v0.6.md:1255` speaks of one record (`Rebuildable`, `Borrowed`).
- `fork_behavior` takes effect at init only; `rd_v0.6.md:1667` names it among the keys a reload
  applies. In a child `watcher_started` and the reload slot are inherited; `fork_dirty` is cleared
  before the rebuild; an `inherit` child that shuts down before it logs writes the parent's pending lines.
- A reload is refused where a lenient init tolerates (a generic sink that cannot open); a failed
  reload is reported once and not retried; a reload that changes parameters has the file open
  twice for a moment; it resets the level that `set_level` chose. The reuse plan looks at paths and
  rotation parameters and ignores queue size, asynchrony and crash safety, although
  `rd_v0.6.md:1661` allows reuse only where async did not change (`HandleFitsOutput` says which).
- An explicit trigger between its check of the state and the reload slot, while a shutdown
  completes, would lock a destroyed mutex; `CallersSettled` excludes it.
- A buffer size from a file is not raised to two records of the longest length, as one from code
  is (`conf_model.c:339`, `LiveIsSound`), against `rd_v0.6.md:1253` and `1642`; the queue size from
  code is not clamped.
- An override below the global level has no effect: the filter asks for both levels
  (`pipeline.c:489-498`), where `hpulogc.h:725`, `rd_v0.6.md:105` and `953` and the filter's own
  comment (`pipeline.c:485`) say that the override wins, and `examples/multi_category.c:64` uses it
  to let trace records of one category through (`OverrideHolds`).
- A shutdown waits 6 s for a reload in flight and then goes on (`core.c:856-862`). A reload that
  hangs in `getaddrinfo` or `connect` for longer finds its snapshot freed and `conf_lock` destroyed
  (the finding of `Runtime_drain`). In the same way a watcher that has waited 5 s for an explicit
  reload gives up on the change it was woken for, without a message, and nothing repeats it
  (`hotreload.c:53-55`); the explicit trigger at least returns an error. `EditsTakeEffect` names
  that outcome.

## 7. Further work

`Format` (truncation and escaping bounds) as pure functions; a model of store buffers for the
sleep counter of the lock-free ring.
