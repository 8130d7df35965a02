-------------------------------- MODULE WAL --------------------------------
(***************************************************************************)
(* The write-ahead log on a disk that fails: WALManager (internal/wal),    *)
(* the calls that append to it, and recovery.  Storage takes the disk for  *)
(* granted and interleaves the goroutines; here a call runs alone, as it   *)
(* does under db.mu, and each of its file operations may fail, be cut by a *)
(* kill of the process, or be followed by a loss of power that takes what  *)
(* was not synced.                                                         *)
(*                                                                         *)
(* A record is a number, every record sets a key of its own, and a record  *)
(* is one unit long.  The index is the set of the records applied.         *)
(***************************************************************************)
EXTENDS Integers, Sequences, FiniteSetsExt

CONSTANTS
    MaxSeq,      \* bound on segment sequence numbers
    MaxRecords,  \* bound on the records ever encoded
    MaxBatch,    \* bound on the records of one call
    WALSizes,    \* what Options.MaxWALSize may be, in records
    SyncMode,    \* Options.SyncMode: "always", "periodic" or "manual"
    Faults,      \* what may fail: "write", "sync", "close", "open", "power"
    Torn         \* the remains of a record

ASSUME WALConstants ==
    /\ {MaxSeq, MaxRecords, MaxBatch} \cup WALSizes \subseteq Nat \ {0}
    /\ SyncMode \in {"always", "periodic", "manual"}
    /\ Faults \subseteq {"write", "sync", "close", "open", "power"}
    /\ Torn \notin Int

VARIABLES
    file,     \* currentFile: "nil", "open", or "stale" when rotate has closed it
    seq,      \* currentSeq
    size,     \* currentSize
    maxSize,  \* the MaxWALSize this log is opened with, every time
    disk,     \* the content of each segment
    exists,   \* the segments there are
    synced,   \* how much of each segment a loss of power leaves
    snap,     \* the snapshot the manifest names, and its sequence
    pc,       \* the call in progress: "idle", "append" or "sync"
    todo,     \* its records not appended yet
    mine,     \* its records
    encoded,  \* records encoded so far
    index,    \* the records in the index
    acked,    \* history: those whose call returned nil
    refused,  \* history: those whose call returned an error
    safe,     \* history: those acknowledged before some Sync returned nil
    dropped   \* history: those of the segments that were deleted when the
              \* manifest went on naming a later snapshot

fileVars == <<file, seq, size, maxSize>>
diskVars == <<disk, exists, synced>>
callVars == <<pc, todo, mine, encoded>>
history == <<acked, refused, safe, dropped>>
vars == <<fileVars, diskVars, snap, callVars, index, history>>

Seqs == 1..MaxSeq
Records == 1..MaxRecords

\* The zero value of SyncMode is SyncAlways.
withDefaults(mode) == IF mode = "always" THEN "periodic" ELSE mode

NoSnapshot == [seq |-> 0, set |-> {}, ok |-> TRUE, durable |-> TRUE]

Init ==
    /\ file = "nil" /\ seq = 0 /\ size = 0 /\ maxSize \in WALSizes
    /\ disk = [g \in Seqs |-> << >>] /\ exists = {} /\ synced = [g \in Seqs |-> 0]
    /\ snap = NoSnapshot
    /\ pc = "idle" /\ todo = {} /\ mine = {} /\ encoded = 0
    /\ index = {}
    /\ acked = {} /\ refused = {} /\ safe = {} /\ dropped = {}

-----------------------------------------------------------------------------
(* Recovery *)

\* ReadWAL stops at the first record that does not decode.
Readable(g) ==
    {disk[g][i] : i \in {j \in DOMAIN disk[g] : \A h \in 1..j : disk[g][h] # Torn}}

\* The snapshot and the segments after it.
Recovered == snap.set \cup UNION {Readable(g) : g \in {h \in exists : h > snap.seq}}

\* A variant that forgets what the segment already holds.
OpenEmpty ==
    /\ file = "nil"
    /\ snap.ok
    /\ seq' = Max(exists \cup {1})
    /\ exists' = exists \cup {seq'}
    /\ file' = "open" /\ size' = 0
    /\ index' = Recovered
    /\ UNCHANGED <<maxSize, disk, synced, snap, callVars, history>>

\* A damaged snapshot makes Open fail, and the files stay as they are.
Open ==
    /\ file = "nil"
    /\ snap.ok
    /\ seq' = Max(exists \cup {1})
    /\ exists' = exists \cup {seq'}
    /\ file' = "open" /\ size' = Len(disk[seq'])
    /\ index' = Recovered
    /\ UNCHANGED <<maxSize, disk, synced, snap, callVars, history>>

-----------------------------------------------------------------------------
(* A write: AppendRaw for each record, Sync, the index *)

Begin(n) ==
    /\ file # "nil" /\ pc = "idle"
    /\ encoded + n <= MaxRecords /\ seq + n <= MaxSeq
    /\ mine' = encoded + 1..encoded + n
    /\ todo' = mine'
    /\ encoded' = encoded + n
    /\ pc' = "append"
    /\ UNCHANGED <<fileVars, diskVars, snap, index, history>>

\* A variant in which the next call finds what this one left.
RefuseKeeps ==
    /\ pc' = "idle" /\ mine' = {} /\ UNCHANGED todo
    /\ refused' = refused \cup mine
    /\ UNCHANGED <<encoded, index, acked, safe, dropped>>

\* The call returns an error.
Refuse ==
    /\ pc' = "idle" /\ todo' = {} /\ mine' = {}
    /\ refused' = refused \cup mine
    /\ UNCHANGED <<encoded, index, acked, safe, dropped>>

Full == size + 1 > maxSize

Flushed(g) == [synced EXCEPT ![g] = Len(disk[g])]

\* A variant that leaves the segment it closes to the operating system.
RotateUnsynced ==
    /\ pc = "append" /\ Full
    /\ file = "open"
    /\ seq' = seq + 1
    /\ exists' = exists \cup {seq'}
    /\ size' = Len(disk[seq'])
    /\ UNCHANGED <<file, maxSize, disk, synced, snap, callVars, index, history>>

Rotate ==
    /\ pc = "append" /\ Full
    /\ file = "open"
    /\ synced' = Flushed(seq)
    /\ seq' = seq + 1
    /\ exists' = exists \cup {seq'}
    /\ size' = Len(disk[seq'])
    /\ UNCHANGED <<file, maxSize, disk, snap, callVars, index, history>>

\* Sync fails, as it always does on a file that is closed already.
RotateSyncFails ==
    /\ pc = "append" /\ Full
    /\ file = "stale" \/ "sync" \in Faults
    /\ Refuse
    /\ UNCHANGED <<fileVars, diskVars, snap>>

\* The file is closed by now, and currentFile goes on naming it.
RotateCloseFails ==
    /\ pc = "append" /\ Full
    /\ file = "open" /\ "close" \in Faults
    /\ synced' = Flushed(seq)
    /\ file' = "stale"
    /\ Refuse
    /\ UNCHANGED <<seq, size, maxSize, disk, exists, snap>>

\* OpenFile fails, or Stat after it, which leaves an empty segment behind.
RotateOpenFails ==
    /\ pc = "append" /\ Full
    /\ file = "open" /\ "open" \in Faults
    /\ synced' = Flushed(seq)
    /\ file' = "stale"
    /\ seq' = seq + 1
    /\ exists' \in {exists, exists \cup {seq'}}
    /\ Refuse
    /\ UNCHANGED <<size, maxSize, disk, snap>>

Write ==
    /\ pc = "append" /\ ~Full
    /\ file = "open"
    /\ disk' = [disk EXCEPT ![seq] = Append(@, Min(todo))]
    /\ size' = size + 1
    /\ todo' = todo \ {Min(todo)}
    /\ pc' = IF todo' = {} THEN "sync" ELSE "append"
    /\ UNCHANGED <<file, seq, maxSize, exists, synced, snap, mine, encoded, index, history>>

\* Nothing or a part of the record is written; currentSize does not count it.
WriteFails ==
    /\ pc = "append" /\ ~Full
    /\ \/ file = "stale" /\ UNCHANGED disk
       \/ /\ file = "open" /\ "write" \in Faults
          /\ \/ disk' = [disk EXCEPT ![seq] = Append(@, Torn)]
             \/ UNCHANGED disk
    /\ Refuse
    /\ UNCHANGED <<fileVars, exists, synced, snap>>

\* The branch of SyncAlways, which withDefaults leaves unreachable, and then
\* the index; db.mu is released and the call returns nil.
Finish ==
    /\ pc = "sync"
    /\ IF withDefaults(SyncMode) = "always"
       THEN synced' = Flushed(seq) /\ safe' = safe \cup mine
       ELSE UNCHANGED <<synced, safe>>
    /\ index' = index \cup mine
    /\ acked' = acked \cup mine
    /\ pc' = "idle" /\ todo' = {} /\ mine' = {}
    /\ UNCHANGED <<fileVars, disk, exists, snap, encoded, refused, dropped>>

-----------------------------------------------------------------------------
(* Sync, Compact, Close, and the end of a process *)

\* DB.Sync, called by the application or by the worker.
Sync ==
    /\ pc = "idle" /\ file = "open"
    /\ synced' = Flushed(seq)
    /\ safe' = safe \cup (acked \cap index)
    /\ UNCHANGED <<fileVars, disk, exists, snap, callVars, index, acked, refused, dropped>>

\* The records that a Compact deletes while its own snapshot, of a sequence
\* below the one the manifest names, is of no use.
Abandoned ==
    IF seq >= snap.seq THEN {}
    ELSE (UNION {{disk[g][i] : i \in DOMAIN disk[g]} : g \in {h \in exists : h < seq}}) \ {Torn}

\* A variant that deletes the segment being written too.
CompactCurrent ==
    /\ file # "nil" /\ pc = "idle"
    /\ snap' = IF seq >= snap.seq
               THEN [seq |-> seq, set |-> index, ok |-> TRUE, durable |-> FALSE] ELSE snap
    /\ exists' = {g \in exists : g > seq}
    /\ disk' = [g \in Seqs |-> IF g \in exists' THEN disk[g] ELSE << >>]
    /\ synced' = [g \in Seqs |-> IF g \in exists' THEN synced[g] ELSE 0]
    /\ dropped' = dropped \cup Abandoned
    /\ UNCHANGED <<fileVars, callVars, index, acked, refused, safe>>

\* The manifest names the greatest snapshot there is, the new one or not.
\* Nothing syncs the snapshot.
Compact ==
    /\ file # "nil" /\ pc = "idle"
    /\ snap' = IF seq >= snap.seq
               THEN [seq |-> seq, set |-> index, ok |-> TRUE, durable |-> FALSE] ELSE snap
    /\ exists' = {g \in exists : g >= seq}
    /\ disk' = [g \in Seqs |-> IF g \in exists' THEN disk[g] ELSE << >>]
    /\ synced' = [g \in Seqs |-> IF g \in exists' THEN synced[g] ELSE 0]
    /\ dropped' = dropped \cup Abandoned
    /\ UNCHANGED <<fileVars, callVars, index, acked, refused, safe>>

Down ==
    /\ file' = "nil" /\ seq' = 0 /\ size' = 0 /\ UNCHANGED maxSize
    /\ pc' = "idle" /\ todo' = {} /\ mine' = {}
    /\ index' = {}
    /\ UNCHANGED <<encoded, history>>

\* Close goes on when Sync fails.
Close ==
    /\ file # "nil" /\ pc = "idle"
    /\ \/ file = "open" /\ synced' = Flushed(seq)
       \/ (file = "stale" \/ "sync" \in Faults) /\ UNCHANGED synced
    /\ Down
    /\ UNCHANGED <<disk, exists, snap>>

\* What the process has written stays.
Kill ==
    /\ file # "nil"
    /\ Down
    /\ UNCHANGED <<diskVars, snap>>

\* What a loss of power may leave of a segment: the record at the cut is gone
\* or torn.
Cut(g) ==
    UNION {{SubSeq(disk[g], 1, n)} \cup
           (IF n < Len(disk[g]) THEN {Append(SubSeq(disk[g], 1, n), Torn)} ELSE {})
              : n \in synced[g]..Len(disk[g])}

PowerLoss ==
    /\ "power" \in Faults
    /\ LET U == {g \in exists : synced[g] < Len(disk[g])}
       IN  \E d \in [U -> UNION {Cut(g) : g \in U}] :
              /\ \A g \in U : d[g] \in Cut(g)
              /\ disk' = [g \in Seqs |-> IF g \in U THEN d[g] ELSE disk[g]]
    /\ synced' = [g \in Seqs |-> Len(disk'[g])]
    /\ \/ snap' = [snap EXCEPT !.durable = TRUE]
       \/ ~snap.durable /\ snap' = [snap EXCEPT !.ok = FALSE]
    /\ Down
    /\ UNCHANGED exists

-----------------------------------------------------------------------------
Next ==
    \/ Open \/ Close \/ Kill \/ PowerLoss
    \/ \E n \in 1..MaxBatch : Begin(n)
    \/ Rotate \/ RotateSyncFails \/ RotateCloseFails \/ RotateOpenFails
    \/ Write \/ WriteFails \/ Finish
    \/ Sync \/ Compact

Spec == Init /\ [][Next]_vars

-----------------------------------------------------------------------------
(* Properties *)

Content == Records \cup {Torn}

TypeOK ==
    /\ file \in {"nil", "open", "stale"} /\ seq \in 0..MaxSeq /\ size \in Nat
    /\ disk \in [Seqs -> Seq(Content)] /\ exists \subseteq Seqs
    /\ synced \in [Seqs -> Nat]
    /\ snap \in [seq : 0..MaxSeq, set : SUBSET Records, ok : BOOLEAN, durable : BOOLEAN]
    /\ pc \in {"idle", "append", "sync"}
    /\ todo \subseteq mine /\ mine \subseteq Records /\ encoded \in 0..MaxRecords
    /\ index \subseteq Records
    /\ maxSize \in WALSizes /\ dropped \subseteq Records
    /\ acked \subseteq Records /\ refused \subseteq Records /\ safe \subseteq acked

\* Behind a torn record, or in a segment that replayWAL skips.
Unread(r) ==
    \E g \in exists : \E i \in DOMAIN disk[g] :
        disk[g][i] = r /\ (g <= snap.seq \/ \E j \in 1..i : disk[g][j] = Torn)

(***************************************************************************)
(* Between two calls, what the index holds and a restart would not find is *)
(* still in a segment, hidden by a torn record that Open did not cut off   *)
(* (reader.go:30) or skipped because its segment is not later than the     *)
(* snapshot (open.go:155), or a Compact deleted it whose own snapshot is   *)
(* earlier than the one the manifest names (compact.go:48); and what a     *)
(* restart would bring up beyond the index was refused with an error after *)
(* it had reached the log.                                                 *)
(***************************************************************************)
Explained ==
    file # "nil" /\ pc = "idle" =>
        /\ \A r \in index \ Recovered : Unread(r) \/ r \in dropped
        /\ Recovered \ index \subseteq refused

(***************************************************************************)
(* A segment holds no more complete records than fit MaxWALSize, across    *)
(* restarts, failed writes that currentSize does not count (wal.go:72-76)  *)
(* and segments that Open continues.                                       *)
(***************************************************************************)
SegmentBounded ==
    \A g \in Seqs : Cardinality({i \in DOMAIN disk[g] : disk[g][i] # Torn}) <= maxSize

(***************************************************************************)
(* A record that recovery would find and that was acknowledged before a    *)
(* Sync stays where recovery finds it, whatever fails and loses power,     *)
(* unless the snapshot itself is damaged.  Sync reaches only the current   *)
(* segment (wal.go:81-88): this rests on the Sync of each rotation.        *)
(***************************************************************************)
SyncedStays ==
    [][\A r \in safe \cap Recovered : r \in Recovered' \/ ~snap'.ok]_vars

-----------------------------------------------------------------------------
(* What the repository's documents say and the code does not do *)

(***************************************************************************)
(* SPECIFICATION.md:281, "No acknowledged write is lost": here only of a   *)
(* write in the current segment that was acknowledged and then synced.     *)
(* The segment the snapshot is named after is left out: Storage shows what *)
(* becomes of that one when nothing fails.                                 *)
(***************************************************************************)
InCurrent(r) == \E i \in DOMAIN disk[seq] : disk[seq][i] = r

SyncedReplayed ==
    file = "open" /\ snap.ok /\ seq # snap.seq
        => \A r \in safe : InCurrent(r) => r \in Recovered

(***************************************************************************)
(* SPECIFICATION.md:281 again, of what Compact deletes: an acknowledged    *)
(* write in a deleted segment is in the snapshot the manifest names.       *)
(***************************************************************************)
DeletedIsReplaced == file # "nil" /\ pc = "idle" => dropped \cap acked \subseteq snap.set

(***************************************************************************)
(* requirements.md:123, "IF any operation in a batch fails, THEN THE DB    *)
(* SHALL roll back all operations in the batch".                           *)
(***************************************************************************)
BatchRolledBack == file # "nil" /\ pc = "idle" => refused \cap Recovered = {}

(***************************************************************************)
(* SPECIFICATION.md:298, "2. fsync snapshot": a published snapshot         *)
(* survives a loss of power.                                               *)
(***************************************************************************)
SnapshotSurvives == snap.ok

(***************************************************************************)
(* requirements.md:61, "WHEN Sync_Mode is SyncAlways, THE DB SHALL call    *)
(* fsync after every write operation": an acknowledged write is synced.    *)
(***************************************************************************)
AlwaysSynced ==
    SyncMode = "always" =>
        \A r \in acked : \A g \in exists : \A i \in DOMAIN disk[g] :
            disk[g][i] = r => i <= synced[g]

=============================================================================
