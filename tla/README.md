# MiniKV in TLA+

MiniKV (`github.com/bretuobay/mini-kv`) is an embedded key-value store in Go: a
map in memory, a write-ahead log (WAL) in segments, snapshots that replace old
segments, a MANIFEST that says which snapshot to start from, keys that expire,
and two background workers. This directory models it, checks the models with
TLC, and proves with TLAPS every safety property the passing runs check.

    tlc -workers 2 -config Storage_core.cfg MCStorage     # a run
    tlapm StorageProofs.tla                                # a proof

`PROJECT.json` lists the runs, the source lines behind every definition, the
hazards and the theorems.

## 1. The system

| part | state | operations | what makes it correct |
|---|---|---|---|
| `DB` handle: `open.go`, `close.go`, `minikv.go` | `closed`, `mu` (RWMutex), `flock`, `manifest` | Open, Close | one process at a time; nothing uses a handle after Close; Close returns |
| write path: `set.go`, `delete.go`, `ttl_internal.go`, `batch.go`, `atomic.go`, `ttl.go` | none of its own | check, append to the log, change the index, all under `mu` | what was acknowledged survives; a batch is all or nothing |
| WAL: `internal/wal` | `currentFile`, `currentSeq`, `currentSize`, the segment files | AppendRaw, rotate, Sync, Close, ReadWAL | records are read back in order; a torn tail does no harm; a segment is bounded |
| compaction: `compact.go`, `internal/snapshot` | `compacting`, the snapshot files | capture, write, delete segments, refresh the manifest | no record leaves the disk before a snapshot has it |
| manifest: `manifest_update.go`, `internal/manifest` | `MANIFEST`, `MANIFEST.tmp` | refreshManifest, ReadManifest | replaced atomically, never by an older one |
| index: `internal/index` | `data`, `size`, `mu` | Get, SetEntry, Delete, Scan, Keys, Count | an entry vanishes at its deadline; lazy deletion is invisible; `size` is exact |
| workers: `sync.go`, `ttl_worker.go` | two tickers, `stopCh`, `wg` | Sync, cleanupExpired | they stop with the handle; nobody waits for ever |
| batch object: `batch.go` | ops, size, sticky error, closed | Set, SetWithTTL, Delete, Write, Discard | what was asked reaches the log whole and in order; a batch is written successfully at most once |
| statistics: `stats.go` | counters, two rings of samples | Stats, DumpKeys | percentiles of the last samples; no effect on the data |
| options, context: `options.go`, `context.go` | none | defaults, one look at the context | defaults replace only what was not set |

**How they interact.** A write takes `db.mu`, calls `AppendRecord` (which takes
`WALManager.mu`), and then `SetEntry` (which takes `MemIndex.mu`). When the record
does not fit, AppendRaw rotates to a new segment and calls the rotation hook with
both locks held; the hook starts a compaction goroutine and rewrites the
manifest. Compact takes `db.mu.RLock` only to copy the index and the current
sequence, and does the rest, files and all, without a lock. The sync worker calls
`DB.Sync`; the TTL worker takes `db.mu`, releases it, and then calls
`index.Count`. Close takes `db.mu`, sets `closed`, stops the workers and waits
for them, closes the log and releases the file lock. It does not wait for a
compaction.

**What is hard.** Compactions beside writers, beside rotations and beside a later
handle; crashes between any two file operations; files that are read back after
a fault, with lengths no checksum covers; batches that are written again after
a failure; deadlines that pass while the database is down; the order of deleting, naming
and syncing; rotation steps that fail half way; expired entries that several
goroutines decide to remove; a Close that waits for workers that wait for it.
`PROJECT.json` ("hazards") has each one with its line.

## 2. The modules

| module | models | lines of code |
|---|---|---|
| `ManifestFile` | one refreshManifest call as file operations, for any number of goroutines | manifest_update.go, internal/manifest |
| `ManifestDir` | the manifest in a directory where snapshots appear; EXTENDS ManifestFile | as above |
| `Storage` | Open, Close, crash, writes record by record, rotation, Compact; EXTENDS ManifestFile | open.go, close.go, compact.go, batch.go, ttl_internal.go, wal.go, snapshot.go |
| `StorageInvariant`, `MCStorage`, `StorageProofs` | its inductive invariant, instances and proofs; the proofs about `ManifestDir` are at the end | |
| `DurableKV` | abstract: a map that survives restarts | SPECIFICATION.md, 7 and 12 |
| `WAL`, `WALProofs` | the log on a disk that fails; proofs | internal/wal, batch.go, open.go |
| `Codec`, `MCCodec`, `CodecProofs` | the formats of a segment and of a snapshot, and reading them back after a fault; proofs | wal/format.go, wal/reader.go, snapshot/format.go |
| `Batch`, `MCBatch`, `BatchProofs` | the batch object, failed writes and their repetition, several handles; proofs | batch.go |
| `TimedStore`, `TimedStoreProofs` | deadlines and counters through log, snapshot and recovery; proofs | ttl.go, atomic.go, open.go, compact.go, snapshot.go |
| `MemIndex`, `MCMemIndex`, `MemIndexProofs` | the index, lock by lock, with readers, the writer and the TTL worker; proofs | internal/index, get.go, iterator.go, ttl.go, atomic.go, stats.go |
| `ExpiringMap` | abstract: a map whose entries vanish at their deadline | SPECIFICATION.md, 15 |
| `Lifecycle` | locks, workers, compaction goroutine, Close | sync.go, ttl_worker.go, close.go, stats.go |
| `Glob` | the pattern matcher | internal/index/glob.go |
| `Latency` | the ring of latencies and its percentiles | stats.go |
| `MCSequential` | an instance of `Glob` and `Latency` side by side | |
| `HandleProofs` | proofs about `Glob`, `Latency` and `Lifecycle` | |
| `SetLemmas` | lemmas the proofs share: greatest and least member of a set of numbers, induction over a set of numbers, existence and uniqueness of what a recursion defines | |

**Storage.** The log is one sequence of records tagged with their segment
(`seg`); `segments` is the set of files that exist, so deleting a file makes its
records unreachable. A value is the position of the record that wrote it, so that
losing, repeating or reordering any write changes the state. `Recovered(s)` is
what Open builds from snapshot `s`. A batch is appended one record per step
(`AppendRecord`), with `Rotate` in between when a segment is full, and reaches
the index in one step (`Apply`), because nobody can read before `db.mu` is
released. Compact is one action per step of the code: begin, capture, create the
file, finish it or fail, delete one segment, refresh, end. `mine` says that the
compaction belongs to the handle that is open; Close clears it, and the
compaction goes on. Two compactions that write one snapshot file at the same
time may leave a mixture, which is a nondeterministic choice. Three history
variables say which records a state is made of: `live` has those the index was
built from, `holds` those of each snapshot file, and `dropped` those an Open has
left out.

**ManifestFile.** A manifest is its `last_snapshot_seq`. The temporary file keeps
its identity when it is renamed: a refresher that still has it open goes on
writing to what is now MANIFEST. `Garbled` is a file two refreshers wrote into;
0 is a missing or an empty one, both of which load as "no snapshot".
In `ManifestDir` the history variables `shared` and `overtaken` have the calls
that had MANIFEST.tmp open while another call had, and those after whose listing
another call changed MANIFEST. Snapshots may appear in any order, since a
compaction that outlives its handle may be late.

**WAL.** Calls run alone, as they do under `db.mu`, and each file operation may
fail: a write that leaves nothing or a torn record, the Sync, the Close or the
OpenFile of a rotation, a kill, and a loss of power that keeps any prefix of what
was not synced, with or without a torn record at the cut. A failed rotation
leaves `currentFile` closed and `currentSeq` as far as it got, as in
wal.go:109-129. Compact is one step here: Storage interleaves it. `maxSize` is
the option MaxWALSize, any of `WALSizes`, counted in records; a record is one unit,
so that one larger than MaxWALSize, which AppendRaw writes all the same, is left
out. `dropped` (history)
has the records of the segments that a Compact deletes although the manifest goes
on naming a later snapshot (`Abandoned`): a rotation that fails to open its
segment raises `currentSeq`, a compaction publishes a snapshot under that number,
and after a restart the log goes on below it. Compactions write snapshots with
lower numbers then, which refreshManifest does not choose (manifest_update.go),
and delete the segments they cover.

**MemIndex.** Each use of `MemIndex.mu` is one atomic step. `Get` is three of
them (look up, test the deadline, lock again and remove), `Scan` one per key.
`Keys` holds the lock for the whole listing and reads the clock anew for each
key; `Stats` counts under one lock and adds up the size under another.
`call[p]` is the program counter and the locals of goroutine `p`, and `start`
(history) what could be seen when its call began. Reads exclude writes through
`db.mu`; the TTL worker excludes nobody while it sweeps. A value is its length,
which is what `size` adds up.

**TimedStore.** One call is one step, and what it stores is computed as the code
computes it: IncrBy adds as int64 does, modulo `2 * MaxInt + 2`, `SetWithTTL` adds the TTL to a
clock it read earlier, and a sum that wraps below zero means no deadline. The
index treats a deadline of 0 as none, recovery and snapshots treat it as past.
The clock goes on while the database is down. `truth` (history) is what clients
were told, in unbounded integers. A compaction is two steps, since the deadlines
are tested against the clock twice; the segments it deletes are among those
recovery skips anyway. What is written after a capture into the segment the
snapshot is named after is lost (`Skipped`, the gap of `Storage`); clients see
that at the next Open, and `truth` follows.

**Batch.** `batch[b]` is the object: its operations, size, sticky error, `closed`,
and `db`, the handle it is bound to. Write is one step per record, since each
append may fail, and ends in `Apply`, in `AppendFails` or in `SyncFails`; after a
failure the object is open as before, with all its operations. Another object or
a direct write may come before it is written again. `tries` (history) has every
write begun, what its caller had asked for, and how it ended.

**Codec.** A file is a sequence of cells: in a segment every byte, the bytes of
varints and times included, with the checksum as one cell; in a snapshot the
bytes of keys and values, and each field of fixed length as one cell. Varints,
times and integers are computed digit by digit as encoding/binary does, with the
base, the longest varint and the bytes of a time as constants, so that
conversions and sums wrap around as `n+int(length)` does. A checksum cell carries
what it was computed from: it is equal only to one of the same content; taken for
a byte it looks like any of `ChecksumBytes`. `CodecInit` chooses what was written and
one fault: cut anywhere, with or without later appends; one cell changed; zeros
from any place to the end; garbage after the end. `DecodeWALRecord`, `readEntry`
and the rest give a record, a refusal or a panic. `TornTail` is what lets `WAL`
take a torn record for one cell that ends the reading, except where it was torn
within its length or the reader panics (section 5).

**Lifecycle.** A Go RWMutex: `Announce` (a writer makes itself known, which keeps
new readers out), then `Lock` when the readers have left. A ticker's channel
holds one tick, and stopping the ticker does not take it back. `select` with both
cases ready takes either.

**Glob.** One action per branch of the loop, against a recursive function that
defines what a pattern means.

**Latency.** `add`, the copy under the lock of the ring, and the percentiles, which
are computed from the copy while more samples are added. `Order` is any order that
sorts. `int(float64(n-1)*p)` is the integer quotient for every n up to the
capacity of 1024.

## 3. The runs

| run | question | bounds, and what they let happen |
|---|---|---|
| `storage_core` | Can a crash, at any moment, lose or bring back anything for a reason other than the three that are known? Is a segment ever deleted too early? Does the invariant of the proof hold? | two keys, two segments, two records, batches of up to two, one compaction goroutine (any number of compactions, one at a time): a batch that spans a rotation, a compaction captured before, between and after, one that outlives its handle, crashes at every step |
| `storage_durable` | Without compactions, is the engine the abstract map? | two keys, three segments, four records, batches of up to two that may span a rotation, crashes and restarts |
| `storage_lost` | "No acknowledged write is lost" (SPECIFICATION.md:281) | violation: Compact, Set, Close, Open |
| `manifest_overlap` | Which overlaps of refreshManifest can spoil MANIFEST, or make it name an older snapshot? | three refreshers, three snapshots, crashes: two that share MANIFEST.tmp while a third publishes, one that is overtaken, what they leave behind for later calls; 224,512 states |
| `wal_faults` | What can any sequence of faults do to index and log? | three segments of one record or of two, five records, batches of two, every fault: a failed rotation, a compaction above it, a restart below it and another compaction |
| `memindex_calls` | Does lazy deletion show? Does every answer of Get, Scan, Keys, Count and Stats lie between what could be seen at its begin and at its end? | two readers, the writer, the TTL worker, two keys, deadlines around a clock of three instants, limits 0 and 1 |
| `lifecycle_calls` | Are locks released, is closing final, does everybody get on? | two clients, the TTL worker, the compaction goroutine |
| `lifecycle_close` | "prevent deadlocks" (requirements.md:172) | violation: both workers on |
| `sequential_parts` | Is the greedy matcher right, and does it return? Are the percentiles those of the last samples? | all patterns up to 4 of two letters, `*`, `?`; all names up to 5 of two letters and `*`; a ring of four, three durations, up to six samples: empty, partly filled, full, wrapped |
| `batch_retry` | What of a batch reaches log and index, through refused operations, failures, repetitions and restarts? | one object of up to two operations, the writes of others, two keys, three writes, a log of four records, two handles: a failure after any record, a repetition before and after another write, an object that outlives its handle, a size at and above the limit |
| `timed_restart` | Is each key there exactly until its deadline, also when the database is opened later? | one key, integers from -8 to 7, a clock of three instants, TTLs of 1, 2 and the largest, three records in two segments: a sum that wraps, a deadline beyond the integers, one that passes before, during and after a compaction |
| `codec_faults` | What is read back from a damaged segment or snapshot? | up to three records with values of 0, 1 and 8 bytes, up to eight appended behind a tear, snapshots of up to two entries; bytes of four bits (`Half = 8`), varints of up to three bytes, integers of seven bits, times of one byte, slices of up to ten elements, checksums that look like 0 or 9: every fault at every place, lengths of one and two bytes, sums that wrap; 128,098 states |

`MaxSeq`, `MaxLog`, `MaxRecords` and `MaxTime` bound counters that the code lets
grow. In Storage a rotation beyond `MaxSeq` does not happen and the segment grows
instead; the other bounds stop calls from beginning. Storage was also run with
one key, three segments and three records (5.7 million states) and Lifecycle with both workers and
`Periodic = TRUE` (245384 states), with the same result; they are not kept
because they take minutes. Batch was also run with three operations of one object
(12.2 million states), with the same result.

In `timed_restart` one key is enough: two keys meet only in the order of the log
and in the segments, which the records of one key show as well, and recovery
treats each key apart. In `codec_faults` a change of one cell is any change of
one field; two damaged places are not tried. In `batch_retry` a second object
adds nothing that the direct writes do not: an object meets others only through
`db.mu`, the log and the index.

`LossConfined` would be violated in `storage_core` without any one of the three
causes it names, and `NeverGoesBack` in `manifest_overlap` without either of the
two: the run reaches each case.

`storage_core` has one compaction goroutine because `DeletionCovered` is false
with two: a compaction of a closed handle can truncate the snapshot a compaction
of the open one relies on, before its segments are deleted. `Inductive` and
`LossConfined` do not need the restriction and are proved without it;
`DeletionCovered` is proved for compactions that do not overlap.

Deadlock is checked except where the system may stop: `WAL_faults` (Open refuses a
damaged snapshot for ever), `Sequential_parts` and `Codec_faults` (the algorithms
end), `Batch_retry` (the last handle is closed) and Lifecycle (the cycle of
`lifecycle_close` itself; `Progress` says what deadlock freedom would).

**Fairness** is assumed in two places. `Lifecycle!FairSpec`: a goroutine that
can run does run (WF of `Run`); locks do not pass one goroutine over for ever
(SF of `Acquire`: Go's mutexes hand over to a waiter that starves, and an
announced writer keeps readers out); and a worker takes the closed channel in
the end (WF of `SelectStop`: once the tickers are stopped at most one tick is
left). No call, tick or compaction has to begin. `MCSequential!PartsSpec`: the
loop of the matcher goes on.
Every other specification is a safety specification.

## 4. What is proved

Every safety property the passing runs check is a theorem, for every value of the
constants; so are the two refinements. Each proof
has the same form: an inductive invariant, which holds initially, is kept by
every action (one step of the proof per action), and implies the property.

| module | theorems | inductive invariant |
|---|---|---|
| `StorageProofs` | `TypeCorrect`, `InductiveInvariant`, `LossConfinedAlways`; `DeletionCoveredByOne`, `ImplementsDurable` | `Inductive`, with `WrittenInv` and with `CalmInv` |
| | `DirTypeCorrect`; `NeverTornAlways`, `NeverGoesBackAlways` | `OrderInv` |
| `WALProofs` | `TypeCorrect`, `SegmentsBounded`, `DifferencesExplained`, `SyncedStay` | `WALInv` |
| `MemIndexProofs` | `TypeCorrect`, `SizeCorrect`, `AnswersCorrect`, `Implements` | `IndexInv` |
| `BatchProofs` | `TypeCorrect`, `OnlyFailuresRepeat`, `IndexCorrect`, `LogCorrect` | `BatchInv` |
| `TimedStoreProofs` | `TypeCorrect`, `KeptAlways`, `KeptWhenReopened` | `TimedInv` |
| `CodecProofs` | `CodecType`, `TornTailAlways`, `NothingIsInvented`; `SnapshotIsWhole` | `LogInv`; `SnapInv` |
| `HandleProofs` | `GlobAnswersRight` | `Typed`, `Sound`, `Greedy` |
| | `PercentilesAlwaysRight` | `LatencyInv` |
| | `SafeAlways`, `ClosedAlways` | `Safe` |

**Storage**, for any keys, segments, batches, records and compactions.
*LossConfined* speaks of every state in which no writer holds `db.mu`, those in
the middle of a compaction or of a refresh included: if the process died now,
Open would refuse the directory (a manifest that does not parse, a snapshot
that is not complete) or rebuild each key as the index has it, but for keys
whose newest record has one of three fates. It was written behind the capture
into the segment the published snapshot is named after (`Skipped`); its segment
was deleted for a snapshot that is not published (`Unpublished`: the crash
between compact.go:48 and 52, or a manifest that has gone back); or an earlier
Open left it out for one of these reasons (`dropped`), and a snapshot captured
before that Open may bring it back. It is not inductive: it speaks only of the
published snapshot, and a refresh can publish any snapshot in the directory.
`Inductive` (of `StorageInvariant`) says why it holds. `IndexInv`: the index is a
replay of the records in `live`, and any other is in `dropped`. `CaptureInv` and
`SnapInv`: every capture and **every** complete snapshot is a replay of known
records, which include all those of earlier segments but the dropped ones
(`Cut`). `CutInv`: the position of the capture separates records of earlier
segments from records of later ones (this needs `db.mu` at the capture: a batch in
flight would break it). `LogInv`: a segment that is gone is older than a snapshot
file that is there. `SeqInv`: nothing has a number beyond the current segment.
`LockInv`: how far the index may be behind the log. The lemmas on `Replayed`
carry the step for `Apply` and for recovery (`ReplayedTwice`: in two parts or at
once), and the last argument: where two replays of the same log differ, the newest
record of the key is missing from one of them (`NewestDiffers`).

*DeletionCovered* (a segment is deleted only by a compaction whose own snapshot is
complete on disk and has all of the segment) is proved from `[]OneCompaction`: at
no time do two compactions run. `compacting` ensures that inside one handle; a
compaction that outlives its handle breaks it, and so does the property. What
has to be added to `Inductive` is `WrittenInv`: the file of a running compaction
holds what that compaction has written.

*DurableSpec* (the engine implements `DurableKV`) is proved from `[]Calm`: no
compaction runs. With one the refinement is false, which is what `storage_lost`
shows. `CalmInv` says that there is then no snapshot, that every segment is there,
and that the index is the log up to the last write applied. A step of the engine
is one operation of the map for the record it appends, or a stutter.

**ManifestDir**, for any number of refreshers, however their calls overlap.
*NeverTorn*: MANIFEST is only replaced by a complete manifest that names a
snapshot on disk, but by a call in `shared`. *NeverGoesBack*: it names an older
snapshot only by a call in `shared` or `overtaken`. Without the exceptions both
are false (section 5), since nothing in the code serialises refreshManifest. A
call may be cut off anywhere, and what it leaves in MANIFEST.tmp is no obstacle to
the next; nor is what two calls made of it together. `OrderInv` has, for each
step of a call, that what it has listed exists, that MANIFEST names nothing later
unless the call was overtaken, and what the temporary file holds unless it is
shared.

**WAL**, for any segments, records, batches, sizes and any set of faults. *Explained*
speaks of a database at rest; `WALInv` extends it to the middle of a call (what
is appended and not yet acknowledged is in a segment, `Found`) and adds where
the log stands: it is written at its last segment, all earlier ones are as they
are synced (`Segments`), `currentSize` counts what is in the current one
(`Counted`), and what was acknowledged before a Sync is within what a loss of
power leaves (`Placed`). *SyncedStays* is an action property and follows step by
step. The first attempt at this proof failed at Compact, because *Explained* did
not hold there: the case described under WAL in section 2, which takes three
segments and five records to reach. The bounds of `wal_faults` now let TLC reach it
too, and *Explained* names it (`dropped`).

**MemIndex**, for any readers, any finite set of keys, any lengths and clock. *SizeExact* is
inductive with the types. *AnswersAgree* is not: it speaks of finished calls.
`CallInv` has, for each program point of each call, what its locals have to do
with the entries there were when it began (`start`): what has been visible ever
since is in the answer or has still to be met, and what is in the answer was
visible at the beginning. It needs that nothing but expiry removes an entry
beside a reader, which is `LockInv`: the writer and a reader are never inside
together. *VanishAtDeadline* is the refinement of `ExpiringMap`: each step is a
call of the abstract map, a tick, or invisible.

**Batch**, for any objects, keys, handles and batches. *WrittenOnce* and
*IndexExplained* are inductive with the rest. *InLog* speaks of an unbroken range
of positions for each write: `Blocks` has it for every write begun, and `Holding`
what the write that holds `db.mu` has appended so far and still has to. An object
whose operations were refused keeps a sticky error and differs from what its
caller asked for: `Faithful` says when the two agree.

**TimedStore**, for any keys, values, TTLs, number of segments and range of
integers. `Kept` is what a client sees of the running database, and
`KeptAcrossRestarts` what it would see after a restart at any later time.
`TimedInv` adds the same statement for the snapshot on disk and for the one a
compaction is writing, replayed with the segments after it (`SnapInv`,
`CompInv`), and that no deadline of 0 is ever stored (`Typed`), which the index
would take for none and recovery for past. The lemmas about `Wrap` (the remainder
modulo `2 * MaxInt + 2`, shifted to the signed range) carry IncrBy and the sum of
clock and TTL.

**Lifecycle**, for any number of application goroutines. `Safe` is inductive: each
lock is held exactly by the goroutines whose program counter is between taking
and releasing it (`LocksMatch`), only a Close that has set `closed` is past the
test (`CloseInv`), and nobody else is inside a closed handle (`ClosedForGood`).

**Codec**, for bytes, varints, integers and times of any width, segments and
snapshots of any length and whatever fault `CodecInit` allows. The numbers come
first: a time or a varint that is written and read gives itself, whatever follows
it, and the size computed apart by `uvarintSize` is the size of the encoding.
Three lemmas about one record carry the rest. `WholeRecord`: a record that lies in
front of the reader whole is read, and consumed exactly. `CutRecord`: one whose
end is missing is refused, without a panic. `DecodeSound`: whatever is read ends
in a checksum cell of exactly the bytes in front of it. For a segment `LogInv`
has what no step changes (`StaticLog`: the checksums that occur in the file are
those of records written, in their order), that each whole prefix of records at the
start of the file is read (`ReadsAhead`), that the records read are numbered in
the order written and none of them is still to come (`InOrder`), and that nothing is
read at a tear (`TornStops`). The last needs the argument of `StopsAtTear`: a record that
straddles the tear would have to end in the checksum of an appended record, which
covers exactly the bytes of that record behind its own length. Those begin behind the tear,
but what a straddling record has under its checksum begins before it, so the
number of bytes cannot be the same. For a snapshot
`SnapInv` says that as long as the cells read are as they were written, so are
the entries (`Following`); the only checksum cell in the file is the one written,
so that the comparison at the end can succeed only there, or on a file of
no entries (`NotEmpty`).

**Glob**, for patterns and names of any length and any set of runes. `Sound`: what
has been read is matched by the part of the pattern read, and the place to go back
to by the part up to the last star; so a yes is always right. `Greedy`
is why a no is right: the part up to the last star matches all prefixes from some
length on, and none of those tried so far can be continued (`Dead`), because
between two stars the pattern is a plain word. It holds unless a star of the
pattern meets a star of the name (`StarsMeet`: what comes before the one matches
what comes before the other). There the code's first test takes the pattern's
star for a plain rune, and a match may be missed (`AllKeysMatched` in section 5).

**Latency**, for any capacity and any samples. `RingInv` says where in the ring the
last samples are, `CopyInv` that the copy holds those of its window in another
order. The rest is arithmetic: a sorting order exists, and the numbers of samples
below and up to the one chosen follow from its place.

The assumptions are those the modules state about their constants: bounds are
naturals, the values that stand for nothing, for a damaged file or for the
remains of a record differ from the values proper (`StorageConstants`,
`ManifestConstants`, `WALConstants`, `IndexConstants` and `NoneIsNoEntry`, `BatchConstants`, `TimedConstants` and
`NoneIsNothing`, `LifecycleConstants`, `CodecConstants`, `GlobConstants`,
`LatencyConstants`). TLC evaluates each of them in a run.
`OneCompaction` and `Calm` are hypotheses about behaviours, stated in the theorems
that have them, and behaviours that satisfy them exist: the runs `storage_core` and
`storage_durable` have one compaction goroutine and none, so that all of their
behaviours do.

**Model-checked only.**

- Liveness: `Progress` and `MatchReturns`. Fairness speaks of ENABLED, which is
  beyond the prover.
- Nothing else. With compactions that overlap `DeletionCovered` is false, and with
  any compaction `DurableSpec` is; `Inductive` and `LossConfined` hold there.

**Induction.** The library's induction theorems take an operator as a parameter,
which no backend instantiates. The proofs about data of any length use sets of
numbers instead: `AllFrom` of `SetLemmas` says that a set which holds `a`, and
with each number its successor, holds all from `a` on, and follows from the least
number outside it. `Recursion` gives a function that satisfies a recursive
definition and `SolutionsAgree` that there is only one, so that the recursive
functions of `Codec`, `Glob` and `Latency` can be used as they are defined.

## 5. Where the code and its documents disagree

Two runs end in a counterexample; `PROJECT.json` ("findings") quotes the
documents. `storage_lost`: a compaction names its snapshot after the segment that
is still written to, and replay skips that segment. `lifecycle_close`: Close
waits, with `db.mu` held, for a worker that waits for `db.mu`.

The modules state more such sentences, which TLC also finds violated on the
instances below. They are documented here and are not among the runs.

| property | sentence | instance | what happens |
|---|---|---|---|
| `Storage!PublishedBeforeDeleted` | SPECIFICATION.md:299-300 | as `storage_core`, one key | compact.go deletes the segments and then refreshes the manifest |
| `Storage!HalfBatchInvisible` | requirements.md:124 | `MaxSeq = 1`, `MaxLog = 2`, no compaction | a crash between two records of a batch applies the first |
| `Storage!OnlyTheHolderWrites` | requirements.md:31 | one key, `MaxSeq = 1`, `MaxLog = 1`, `MaxBatch = 1`, `MaxWALRecords = 1`, `ManualCompact = TRUE` | a compaction outlives its handle and writes beside the next one |
| `Storage!OpenSurvivesPartialSnapshot` | requirements.md:80 | the same | a snapshot in progress is listed by another refresh; crash; every later Open fails |
| `ManifestDir!NeverEmptied` | internal/manifest/manifest.go:82 | as `manifest_overlap` | two refreshes share one temporary file, and one truncates what the other has renamed |
| `ManifestDir!NewestStays` | design.md:524 | the same | a refresh that listed earlier publishes later |
| `WAL!SyncedReplayed` | SPECIFICATION.md:281 | `Faults = {"open"}`, three segments of one record | rotate raises `currentSeq` before the segment exists; a snapshot is named after it, and the next Open starts below it |
| `WAL!DeletedIsReplaced` | SPECIFICATION.md:281 | as `wal_faults` | once the log goes on below the snapshot the manifest names, a Compact deletes segments that no snapshot the next Open starts from replaces |
| `WAL!SyncedReplayed` | requirements.md:76 | `Faults = {"power"}`, `MaxSeq = 3`, `MaxRecords = 2`, `MaxBatch = 1`, `WALSizes = {2}` | a torn tail is not cut off, and what is appended behind it is never read |
| `WAL!BatchRolledBack` | requirements.md:123 | `Faults = {"write"}`, batches of two | the records before the failed one come back at the next Open |
| `WAL!SnapshotSurvives` | SPECIFICATION.md:298 | `Faults = {"power"}` | the snapshot is never synced, and the log it replaces is gone |
| `WAL!AlwaysSynced` | requirements.md:61 | `SyncMode = "always"`, no faults | SyncAlways is the zero value, which withDefaults replaces |
| `MemIndex!ScanAtOneInstant` | requirements.md:138 | one reader, values of length 1 | the TTL worker sweeps between two lookups of a scan |
| `Batch!NothingDropped` | requirements.md:123 | as `batch_retry` | an operation on the empty key is left out in silence, and the rest is written |
| `TimedStore!CounterExact` | requirements.md:156 | as `timed_restart` | IncrBy wraps around |
| `TimedStore!EveryTTLEnds` | design.md:536 | as `timed_restart` | a TTL that passes the end of int64 becomes no deadline |
| `Codec!StopsAtCorrupt` | reader.go:12-13, design.md:320 | as `codec_faults` | the length of a record is not under its checksum: a damaged one may skip the next record and reading goes on |
| `Codec!TornTailStops` | requirements.md:76 | as `codec_faults` | a torn record is not cut off; what is appended behind it is read as its rest, two lengths taken from it add up to a sum that wraps around, and the slice made with them panics, at that Open and at each later one |
| `Glob!AllKeysMatched` | internal/index/iterator.go:25 | names with a `*` | the key's `*` is taken for a plain rune of the pattern: `*` does not match `*a` |

What the passing runs say holds although these do not: `LossConfined`,
`NeverTorn`, `NeverGoesBack`, `AnswerRight`, `Explained`, `AnswersAgree`, `InLog`, `IndexExplained`, `Kept`,
`NothingInvented` and `SnapshotWhole` bound how far each disagreement goes.

A tear within the length of a record is a case `TornTail` leaves out: the bytes
appended behind it may complete the length, and the first record appended is
then skipped, or read, as its bytes happen to be. `NothingInvented` holds there too.

## 6. What is left out

- A checksum is ideal in `Codec`: two contents never have the same one, and no key
  or value holds an encoded record or a checksum. A snapshot's header lies in one block, so a
  lost block leaves none or all of it: the checksum of no entries is 0, and a
  snapshot that kept its magic and lost everything after it would be read as an
  empty one.
- The pool of encoding buffers holds nothing between two calls. The encoding of
  the manifest is left out, and the manifest reduced to the one field recovery
  uses.
- Values are positions in `Storage`, lengths in `MemIndex`, writers in `Batch`, and
  integers or text in `TimedStore`.
- The wall clock does not run backwards. Syncing of directories is not modelled.
- ScanRange is Scan with another filter, DumpKeys a Scan that is written out, TTL a
  Get and a subtraction. The context wrappers look at the context once and then
  call. Argument checks before `db.mu` are in `Batch`, and elsewhere left out;
  likewise `ReadOnly`.
- The counters of `Stats` and the sizes of the directories: atomics and directory
  listings that nothing in the database reads back.
- Examples and benchmarks.

## 7. Plan

Of the system one composition is left: the faults of `WAL` inside `Storage`, for
the disagreements that need a failing disk and a compaction in progress. The
product of the two is beyond TLC as they stand; it needs a `Storage` whose log is
cut down to what a fault can reach.

More proofs:

1. The composition above, once it is there: what `Inductive` and `WALInv` say of
   the two parts, about the whole.
2. Liveness under fairness stays with TLC, for the reason given in section 4.
