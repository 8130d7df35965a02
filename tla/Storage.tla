------------------------------- MODULE Storage -------------------------------
(***************************************************************************)
(* The storage engine of MiniKV: the write path, the write-ahead log and   *)
(* its segments, compaction into snapshots, the MANIFEST, and recovery.    *)
(*                                                                         *)
(* Actors: the writer that holds db.mu (setWithExpiresAtLocked, Delete,    *)
(* Batch.Write), the compactions (Compact, called by the application or    *)
(* started by the rotation hook), the goroutines inside refreshManifest    *)
(* (module ManifestFile), and the process that opens, closes and crashes.  *)
(*                                                                         *)
(* The log is one sequence of records tagged with the segment file each    *)
(* was written to; a segment file holds the records with its tag.  A value *)
(* is the position of the record that wrote it, so any two writes differ;  *)
(* 0 is an absent key.  Expiry is the subject of MemIndex, disk errors and *)
(* torn records are the subject of WAL.                                    *)
(***************************************************************************)
EXTENDS ManifestFile, Sequences

CONSTANTS
    Keys,
    Compactors,     \* goroutines that run Compact
    Main,           \* the refresher of Open and of the rotation hook
    MaxLog,         \* bound: records ever appended
    MaxBatch,       \* bound: operations in one Batch.Write
    MaxWALRecords,  \* Options.MaxWALSize, counted in records
    ManualCompact   \* does the application call Compact itself?

ASSUME StorageConstants ==
    /\ Refreshers = Compactors \cup {Main}
    /\ Main \notin Compactors
    /\ MaxLog \in Nat
    /\ MaxBatch \in Nat \ {0}
    /\ MaxWALRecords \in Nat \ {0}
    /\ ManualCompact \in BOOLEAN

VARIABLES
    phase,      \* of the process: "closed", "loading", "opening", "open"
    man,        \* the manifest Open has read (DB.manifest)
    locked,     \* a writer holds db.mu
    pend,       \* the operations that writer has not appended yet
    index,      \* MemIndex: key -> value
    applied,    \* the records up to this one are in index
    cur,        \* WALManager.currentSeq
    log,        \* every record appended
    segments,   \* the segment files present
    snap,       \* the snapshot files
    live,       \* history: positions of the records index was built from
    holds,      \* history: the same of each snapshot file
    dropped,    \* history: positions of the records an Open has left out
    spawned,    \* compaction goroutines started and not yet running
    comp        \* the state of each running Compact

walVars == <<cur, log, segments>>
writerVars == <<locked, pend, index, applied>>
compVars == <<spawned, comp>>
histVars == <<live, holds, dropped>>
vars == <<phase, man, writerVars, walVars, snap, histVars, compVars, manifestVars>>

-----------------------------------------------------------------------------
(* Data *)

Op == [key : Keys, del : BOOLEAN]

Batches == UNION {[1..n -> Op] : n \in 1..MaxBatch}

\* more: another record of the same batch follows.
Record == [key : Keys, del : BOOLEAN, more : BOOLEAN, seg : Seqs]

Positions == 1..Len(log)

State == [Keys -> Nat]

Empty == [k \in Keys |-> 0]

NoSnapshot == [st |-> "none", map |-> Empty]

Partial == [st |-> "partial", map |-> Empty]

Done(m) == [st |-> "done", map |-> m]

\* at and held are history: the end of the log and live at the capture.
IdleCompact ==
    [pc |-> "idle", cap |-> Empty, seq |-> 0, at |-> 0, held |-> {}, mine |-> FALSE]

CompactState ==
    [pc : {"idle", "begun", "captured", "writing", "deleting", "refreshing"},
     cap : State, seq : 0..MaxSeq, at : Nat, held : SUBSET Nat, mine : BOOLEAN]

Value(l, i) == IF l[i].del THEN 0 ELSE i

\* base with the records of l at the positions P applied in order.
Replayed(l, base, P) ==
    [k \in Keys |->
        LET S == {i \in P : l[i].key = k}
        IN  IF S = {} THEN base[k] ELSE Value(l, Max(S))]

Base(s) == IF s = 0 THEN Empty ELSE snap[s].map

\* A variant that skips one segment more than it should.
RecoveredLate(s) ==
    Replayed(log, Base(s), {i \in Positions : log[i].seg \in segments /\ log[i].seg > s + 1})

\* A variant that replays the newest segment only.
RecoveredNewest(s) ==
    Replayed(log, Base(s), {i \in Positions : log[i].seg = cur /\ log[i].seg > s})

\* What Open builds from a manifest whose last snapshot is s (replayWAL):
\* the snapshot, then every later segment that is still there.
Recovered(s) ==
    Replayed(log, Base(s), {i \in Positions : log[i].seg \in segments /\ log[i].seg > s})

Files == {s \in Seqs : snap[s].st # "none"}

Loadable(s) == s # 0 => snap[s].st = "done"

SegmentRecords(g) == Cardinality({i \in Positions : log[i].seg = g})

Full == SegmentRecords(cur) >= MaxWALRecords

Working(c) == comp[c].pc # "idle"

OldSegments(c) == {g \in segments : g < comp[c].seq}

-----------------------------------------------------------------------------
Init ==
    /\ ManifestInit
    /\ phase = "closed" /\ man = 0
    /\ locked = FALSE /\ pend = << >>
    /\ index = Empty /\ applied = 0
    /\ cur = 1 /\ log = << >> /\ segments = {}
    /\ snap = [s \in Seqs |-> NoSnapshot]
    /\ live = {} /\ dropped = {}
    /\ holds = [s \in 0..MaxSeq |-> {}]
    /\ spawned = 0
    /\ comp = [c \in Compactors |-> IdleCompact]

-----------------------------------------------------------------------------
(* Opening, closing, crashing *)

\* A variant in which OpenWAL begins a segment each time.
OpenLoadNext ==
    /\ phase = "closed"
    /\ cur' = Max(segments \cup {0}) + 1
    /\ segments' = segments \cup {cur'}
    /\ IF manifest = Garbled THEN UNCHANGED <<phase, man>>
       ELSE phase' = "loading" /\ man' = manifest
    /\ UNCHANGED <<writerVars, log, snap, histVars, compVars, manifestVars>>

\* OpenWAL continues the greatest segment, or creates the first one.  A
\* manifest that does not parse makes Open fail.
OpenLoad ==
    /\ phase = "closed"
    /\ cur' = Max(segments \cup {1})
    /\ segments' = segments \cup {cur'}
    /\ IF manifest = Garbled THEN UNCHANGED <<phase, man>>
       ELSE phase' = "loading" /\ man' = manifest
    /\ UNCHANGED <<writerVars, log, snap, histVars, compVars, manifestVars>>

\* LoadSnapshot fails on an incomplete file, and Open with it.
OpenFails ==
    /\ phase = "loading"
    /\ ~Loadable(man)
    /\ phase' = "closed" /\ man' = 0
    /\ UNCHANGED <<writerVars, walVars, snap, histVars, compVars, manifestVars>>

\* The records that recovery from snapshot s brings back.
Kept(s) ==
    holds[s] \cup {i \in Positions : log[i].seg \in segments /\ log[i].seg > s}

\* replayWAL skips the segment snapshot s is named after, and record i was
\* appended to it after the index was captured.
Skipped(s, i) == log[i].seg = s /\ i \notin holds[s]

\* The segment of record i was deleted, and the snapshot it was deleted for
\* is not the one the manifest names.
Unpublished(s, i) ==
    /\ log[i].seg > s /\ log[i].seg \notin segments
    /\ \E t \in Files : t > log[i].seg

LeftOut(s) == {i \in Positions \ Kept(s) : Skipped(s, i) \/ Unpublished(s, i)}

OpenReplay ==
    /\ phase = "loading"
    /\ Loadable(man)
    /\ phase' = "opening"
    /\ index' = Recovered(man)
    /\ applied' = Len(log)
    /\ live' = Kept(man)
    /\ dropped' = dropped \cup LeftOut(man)
    /\ ref' = Calling(Main)
    /\ UNCHANGED <<man, locked, pend, walVars, snap, holds, compVars, manifest, tmp>>

OpenDone ==
    /\ phase = "opening"
    /\ RefreshIdle(Main)
    /\ phase' = "open"
    /\ UNCHANGED <<man, writerVars, walVars, snap, histVars, compVars, manifestVars>>

Down ==
    /\ phase' = "closed" /\ man' = 0
    /\ locked' = FALSE /\ pend' = << >>
    /\ index' = Empty /\ applied' = 0
    /\ spawned' = 0
    /\ live' = {}
    /\ UNCHANGED <<walVars, snap, holds, dropped>>

\* Close does not wait for compactions: they go on beside the next Open.
\* One that has not taken its snapshot yet will find db.closed set.
Close ==
    /\ phase = "open"
    /\ ~locked
    /\ Down
    /\ comp' = [c \in Compactors |-> [comp[c] EXCEPT !.mine = FALSE]]
    /\ UNCHANGED manifestVars

\* The process dies; what it wrote to its files stays.
Crash ==
    /\ Down
    /\ comp' = [c \in Compactors |-> IdleCompact]
    /\ ManifestCrash

-----------------------------------------------------------------------------
(* The write path: Set, Delete and Batch.Write *)

Write(ops) ==
    /\ phase = "open"
    /\ ~locked
    /\ Len(log) + Len(ops) <= MaxLog
    /\ locked' = TRUE
    /\ pend' = ops
    /\ UNCHANGED <<phase, man, index, applied, walVars, snap, histVars, compVars, manifestVars>>

\* The hook starts a compaction and refreshes the manifest before the record
\* that did not fit is appended.
Rotate ==
    /\ locked /\ pend # << >>
    /\ RefreshIdle(Main)
    /\ Full
    /\ cur < MaxSeq
    /\ cur' = cur + 1
    /\ segments' = segments \cup {cur'}
    /\ spawned' = spawned + 1
    /\ ref' = Calling(Main)
    /\ UNCHANGED <<phase, man, writerVars, log, snap, histVars, comp, manifest, tmp>>

AppendRecord ==
    /\ locked /\ pend # << >>
    /\ RefreshIdle(Main)
    /\ Full => cur = MaxSeq
    /\ log' = Append(log, [key |-> Head(pend).key, del |-> Head(pend).del,
                           more |-> Len(pend) > 1, seg |-> cur])
    /\ pend' = Tail(pend)
    /\ UNCHANGED <<phase, man, locked, index, applied, cur, segments, snap, histVars,
                   compVars, manifestVars>>

\* Every operation goes into the index under db.mu, which is then released.
Apply ==
    /\ locked /\ pend = << >>
    /\ index' = Replayed(log, index, (applied + 1)..Len(log))
    /\ applied' = Len(log)
    /\ live' = live \cup ((applied + 1)..Len(log))
    /\ locked' = FALSE
    /\ UNCHANGED <<phase, man, pend, walVars, snap, holds, dropped, compVars, manifestVars>>

-----------------------------------------------------------------------------
(* Compact *)

AnotherRuns == \E c \in Compactors : Working(c) /\ comp[c].mine

Begin(c) ==
    /\ phase = "open"
    /\ ~Working(c)
    /\ ~AnotherRuns
    /\ \/ spawned > 0 /\ spawned' = spawned - 1
       \/ ManualCompact /\ UNCHANGED spawned
    /\ comp' = [comp EXCEPT ![c] = [IdleCompact EXCEPT !.pc = "begun", !.mine = TRUE]]
    /\ UNCHANGED <<phase, man, writerVars, walVars, snap, histVars, manifestVars>>

\* beginCompaction refuses while another compaction of this database runs;
\* the trigger is not remembered.
DropTrigger ==
    /\ spawned > 0
    /\ AnotherRuns
    /\ spawned' = spawned - 1
    /\ UNCHANGED <<phase, man, writerVars, walVars, snap, histVars, comp, manifestVars>>

\* A variant that does not take db.mu.
CaptureUnlocked(c) ==
    /\ comp[c].pc = "begun"
    /\ comp[c].mine
    /\ comp' = [comp EXCEPT ![c].pc = "captured", ![c].cap = index,
                            ![c].seq = cur, ![c].at = applied, ![c].held = live]
    /\ UNCHANGED <<phase, man, writerVars, walVars, snap, histVars, spawned, manifestVars>>

\* Under db.mu.RLock: the whole index and the current segment.
Capture(c) ==
    /\ comp[c].pc = "begun"
    /\ comp[c].mine
    /\ ~locked
    /\ comp' = [comp EXCEPT ![c].pc = "captured", ![c].cap = index,
                            ![c].seq = cur, ![c].at = applied, ![c].held = live]
    /\ UNCHANGED <<phase, man, writerVars, walVars, snap, histVars, spawned, manifestVars>>

CaptureClosed(c) ==
    /\ comp[c].pc = "begun"
    /\ ~comp[c].mine
    /\ comp' = [comp EXCEPT ![c] = IdleCompact]
    /\ UNCHANGED <<phase, man, writerVars, walVars, snap, histVars, spawned, manifestVars>>

\* os.Create truncates a snapshot of the same sequence.
CreateFile(c) ==
    /\ comp[c].pc = "captured"
    /\ comp' = [comp EXCEPT ![c].pc = "writing"]
    /\ snap' = [snap EXCEPT ![comp[c].seq] = Partial]
    /\ UNCHANGED <<phase, man, writerVars, walVars, histVars, spawned, manifestVars>>

\* Two goroutines that write the same file at once may leave a mixture.
SharesFile(c) ==
    \/ snap[comp[c].seq].st = "done"
    \/ \E d \in Compactors \ {c} :
          comp[d].pc = "writing" /\ comp[d].seq = comp[c].seq

FinishSnapshot(c) ==
    /\ comp[c].pc = "writing"
    /\ comp' = [comp EXCEPT ![c].pc = "deleting"]
    /\ \E file \in {Done(comp[c].cap)} \cup (IF SharesFile(c) THEN {Partial} ELSE {}) :
          snap' = [snap EXCEPT ![comp[c].seq] = file]
    /\ holds' = [holds EXCEPT ![comp[c].seq] = comp[c].held]
    /\ UNCHANGED <<phase, man, writerVars, walVars, live, dropped, spawned, manifestVars>>

\* A variant in which Compact does not look at the error.
FailSnapshotIgnored(c) ==
    /\ comp[c].pc = "writing"
    /\ comp' = [comp EXCEPT ![c].pc = "deleting"]
    /\ UNCHANGED <<phase, man, writerVars, walVars, snap, histVars, spawned, manifestVars>>

\* A write error ends the compaction; the file stays as it is.
FailSnapshot(c) ==
    /\ comp[c].pc = "writing"
    /\ comp' = [comp EXCEPT ![c] = IdleCompact]
    /\ UNCHANGED <<phase, man, writerVars, walVars, snap, histVars, spawned, manifestVars>>

\* deleteOldWALSegments, in increasing order.
DeleteOne(c) ==
    /\ comp[c].pc = "deleting"
    /\ OldSegments(c) # {}
    /\ segments' = segments \ {Min(OldSegments(c))}
    /\ UNCHANGED <<phase, man, writerVars, cur, log, snap, histVars, compVars, manifestVars>>

CallRefresh(c) ==
    /\ comp[c].pc = "deleting"
    /\ OldSegments(c) = {}
    /\ comp' = [comp EXCEPT ![c].pc = "refreshing"]
    /\ ref' = Calling(c)
    /\ UNCHANGED <<phase, man, writerVars, walVars, snap, histVars, spawned, manifest, tmp>>

EndCompact(c) ==
    /\ comp[c].pc = "refreshing"
    /\ RefreshIdle(c)
    /\ comp' = [comp EXCEPT ![c] = IdleCompact]
    /\ UNCHANGED <<phase, man, writerVars, walVars, snap, histVars, spawned, manifestVars>>

CompactStep(c) ==
    \/ Capture(c) \/ CaptureClosed(c)
    \/ CreateFile(c) \/ FinishSnapshot(c) \/ FailSnapshot(c)
    \/ DeleteOne(c)
    \/ CallRefresh(c) \/ EndCompact(c)

Refresh(r) ==
    /\ RefreshStep(r, Files)
    /\ UNCHANGED <<phase, man, writerVars, walVars, snap, histVars, compVars>>

-----------------------------------------------------------------------------
Next ==
    \/ OpenLoad \/ OpenFails \/ OpenReplay \/ OpenDone
    \/ Close \/ Crash
    \/ \E ops \in Batches : Write(ops)
    \/ Rotate \/ AppendRecord \/ Apply
    \/ DropTrigger
    \/ \E c \in Compactors : Begin(c) \/ CompactStep(c)
    \/ \E r \in Refreshers : Refresh(r)

Spec == Init /\ [][Next]_vars

-----------------------------------------------------------------------------
(* Properties *)

TypeOK ==
    /\ ManifestTypeOK
    /\ phase \in {"closed", "loading", "opening", "open"}
    /\ man \in 0..MaxSeq
    /\ locked \in BOOLEAN
    /\ pend \in Seq(Op)
    /\ index \in State
    /\ applied \in Nat
    /\ cur \in Seqs
    /\ log \in Seq(Record)
    /\ segments \subseteq Seqs
    /\ snap \in [Seqs -> [st : {"none", "partial", "done"}, map : State]]
    /\ live \subseteq Nat /\ dropped \subseteq Nat
    /\ holds \in [0..MaxSeq -> SUBSET Nat]
    /\ spawned \in Nat
    /\ comp \in [Compactors -> CompactState]

Quiet == phase = "open" /\ ~locked

\* Open returns an error: nothing is read, nothing on disk is changed.
Refused == manifest = Garbled \/ ~Loadable(manifest)

(***************************************************************************)
(* If the process died now, Open would refuse the directory, or rebuild    *)
(* every key exactly as the index has it but for the keys whose newest     *)
(* record, in the index or in what Open would rebuild, is                  *)
(*   - in the segment the published snapshot is named after, appended      *)
(*     there after the index was captured: Compact goes on appending to    *)
(*     that segment (compact.go:25), replayWAL skips it (open.go:155); or  *)
(*   - in a segment later than the published snapshot that was deleted for *)
(*     a snapshot not published: Compact deletes first (compact.go:48) and *)
(*     publishes after (compact.go:52); or                                 *)
(*   - one that an earlier Open left out for one of these two reasons,     *)
(*     which a snapshot may bring back or leave out again.                 *)
(* Nothing else is lost, nothing else that was deleted or lost comes back, *)
(* whatever the interleaving of writers, rotations, compactions that       *)
(* outlive their handle, overlapping refreshes, crashes and restarts.      *)
(***************************************************************************)
Explained(k) ==
    \E i \in Positions :
        /\ log[i].key = k
        /\ i >= index[k] /\ i >= Recovered(manifest)[k]
        /\ Skipped(manifest, i) \/ Unpublished(manifest, i) \/ i \in dropped

LossConfined ==
    Quiet /\ ~Refused => \A k \in Keys : Recovered(manifest)[k] = index[k] \/ Explained(k)

(***************************************************************************)
(* A segment is deleted only by a compaction whose own snapshot is         *)
(* complete on disk, is named after a later segment, and was captured      *)
(* after every record of the deleted segment had reached the index, the    *)
(* records of a batch that spans a rotation included (compact.go:18-52).   *)
(***************************************************************************)
Covers(c, g) ==
    /\ comp[c].pc = "deleting" /\ comp[c].seq > g
    /\ snap[comp[c].seq] = Done(comp[c].cap)
    /\ \A i \in Positions : log[i].seg = g => i <= comp[c].at

DeletionCovered ==
    [][\A g \in segments \ segments' : \E c \in Compactors : Covers(c, g)]_vars

(***************************************************************************)
(* The map a client sees, or would see after a restart.  While a writer    *)
(* holds db.mu nobody can read, and what counts is what recovery finds: an *)
(* operation takes effect when its record is appended.                     *)
(***************************************************************************)
Surviving == IF Quiet THEN index ELSE Recovered(manifest)

Durable == INSTANCE DurableKV WITH store <- Surviving, ops <- Len(log)

(***************************************************************************)
(* Where no compaction runs, the engine implements the durable map, one    *)
(* operation for each record: no crash, restart or rotation loses an       *)
(* acknowledged write, invents one or brings a deleted key back.           *)
(***************************************************************************)
DurableSpec == Durable!Spec

-----------------------------------------------------------------------------
(* What the repository's documents say and the code does not do *)

Settled ==
    /\ Quiet
    /\ \A c \in Compactors : ~Working(c)
    /\ \A r \in Refreshers : RefreshIdle(r)

(***************************************************************************)
(* SPECIFICATION.md:281, "No acknowledged write is lost": with nothing in  *)
(* progress, reopening the database gives the state it has.                *)
(***************************************************************************)
NoAckedWriteLost ==
    Settled /\ manifest # Garbled /\ Loadable(manifest) => Recovered(manifest) = index

(***************************************************************************)
(* SPECIFICATION.md:299-300, "3. Update MANIFEST  4. Delete old WAL        *)
(* files": a segment that is gone is older than the published snapshot.    *)
(***************************************************************************)
PublishedBeforeDeleted ==
    \A i \in Positions :
        log[i].seg \notin segments => manifest \in Seqs /\ manifest > log[i].seg

(***************************************************************************)
(* requirements.md:80, "WHEN a snapshot file is corrupt, THE DB SHALL fall *)
(* back to an older snapshot": Open is never stopped by a snapshot whose   *)
(* writing was cut short.                                                  *)
(***************************************************************************)
OpenSurvivesPartialSnapshot == phase = "loading" => Loadable(man)

(***************************************************************************)
(* requirements.md:122 and 124, "apply all operations atomically" and "in  *)
(* a single atomic write": a key never holds a value of a batch of which   *)
(* the last records were never written.                                    *)
(***************************************************************************)
HalfBatchInvisible ==
    Quiet /\ log # << >> /\ log[Len(log)].more
        => \A k \in Keys : index[k] # Len(log)

(***************************************************************************)
(* requirements.md:31, "acquire an exclusive file lock to prevent          *)
(* concurrent access": while a database is open, no goroutine of an        *)
(* earlier handle still writes into its directory.                         *)
(***************************************************************************)
OnlyTheHolderWrites ==
    phase # "closed" =>
        \A c \in Compactors :
            comp[c].pc \in {"writing", "deleting", "refreshing"} => comp[c].mine

=============================================================================
