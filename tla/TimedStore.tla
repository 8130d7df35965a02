----------------------------- MODULE TimedStore -----------------------------
(***************************************************************************)
(* Deadlines and counters across restarts: the calls that compute what     *)
(* they store (SetWithTTL, Expire, Persist, SetNX, IncrBy,                 *)
(* CompareAndSwap, GetAndSet), the log that keeps values and deadlines,    *)
(* the snapshot that leaves out what has expired, and recovery at a later  *)
(* time.  Integers end at MaxInt and wrap around, as Go's int64 does.      *)
(*                                                                         *)
(* Each call holds db.mu and is one step here; MemIndex has the steps of a *)
(* call, Storage those of a compaction and compactions that outlive their  *)
(* handle, WAL the failures of the disk.  The clock does not run backwards.*)
(***************************************************************************)
EXTENDS Integers, Sequences, FiniteSetsExt

CONSTANTS
    Keys,
    MaxInt,   \* the greatest int64
    Values,   \* values clients store: integers of that range, or Text
    Text,     \* a value that is not a number
    Deltas,   \* arguments of IncrBy
    TTLs,     \* time.Duration arguments that are positive
    MaxTime,  \* bound on the clock
    MaxLog,   \* bound on the records of the log
    MaxSeq,   \* bound on the segments
    None      \* no entry, no compaction

Ints == (-MaxInt - 1)..MaxInt

ASSUME TimedConstants ==
    /\ MaxInt \in Nat
    /\ Text \notin Int /\ None \notin Int /\ None # Text
    /\ Values \subseteq Ints \cup {Text}
    /\ Deltas \subseteq Ints /\ TTLs \subseteq 1..MaxInt
    /\ MaxTime \in 1..MaxInt /\ MaxLog \in Nat /\ MaxSeq \in Nat \ {0}

VARIABLES
    now,    \* time.Now().UnixNano()
    phase,  \* "closed" or "open"
    index,  \* MemIndex: key -> entry or None
    log,    \* the records of the segments, in order
    cur,    \* WALManager.currentSeq
    snap,   \* the snapshot the manifest names
    comp,   \* the compaction that has captured the index, or None
    truth   \* history: what clients were told, in unbounded integers

vars == <<now, phase, index, log, cur, snap, comp, truth>>

-----------------------------------------------------------------------------
(* Data *)

NoTTL == -1

\* How many integers there are.
Modulus == 2 * MaxInt + 2

Wrap(x) == ((x + MaxInt + 1) % Modulus) - MaxInt - 1

\* time.Now().Add(ttl).UnixNano(), the clock read at time t.
Deadline(t, ttl) == Wrap(t + ttl)

Entry == [val : Ints \cup {Text}, exp : Ints]

Image == [Keys -> Entry \cup {None}]

Empty == [k \in Keys |-> None]

\* MemIndex: a deadline of 0 or less is none.
isExpired(exp, t) == exp > 0 /\ t >= exp

\* Open, replayWAL and CreateSnapshot: 0 is a deadline too.
Past(exp, t) == exp >= 0 /\ exp <= t

Get(k) == IF index[k] # None /\ isExpired(index[k].exp, now) THEN None ELSE index[k]

NoSnapshot == [seq |-> 0, map |-> Empty, at |-> 0]

Later(m, t) == [k \in Keys |-> IF m[k] # None /\ Past(m[k].exp, t) THEN None ELSE m[k]]

\* A variant that passes over the records that have expired.
RecoveredPassing(t) ==
    LET live == {i \in DOMAIN log : log[i].seg > snap.seq
                       /\ ~(log[i].entry # None /\ Past(log[i].entry.exp, t))}
    IN  [k \in Keys |->
            LET P == {i \in live : log[i].key = k}
            IN  IF P = {} THEN Later(snap.map, t)[k] ELSE log[Max(P)].entry]

\* What Open builds at time t: the snapshot without what has expired, then
\* every record of a later segment; a Set that has expired deletes the key.
Recovered(t) ==
    [k \in Keys |->
        LET P == {i \in DOMAIN log : log[i].key = k /\ log[i].seg > snap.seq}
        IN  IF P = {} THEN Later(snap.map, t)[k]
            ELSE LET e == log[Max(P)].entry
                 IN  IF e # None /\ Past(e.exp, t) THEN None ELSE e]

\* The keys written after the capture of the snapshot into the segment it is
\* named after, which recovery skips.
Skipped == {log[i].key : i \in {j \in DOMAIN log : j > snap.at /\ log[j].seg = snap.seq}}

-----------------------------------------------------------------------------
(* What clients are told: values and deadlines in unbounded integers, Never  *)
(* for no deadline                                                           *)

Never == -1

Promised(v, d) == [val |-> v, exp |-> d]

Promises == [val : Int \cup {Text}, exp : {d \in Int : d = Never \/ d > 0}]

ASSUME NoneIsNothing ==
    None \notin Entry \cup Promises \cup [seq : Nat, map : Image, at : Nat]

AliveAt(e, t) == e # None /\ (e.exp = Never \/ t < e.exp)

Wrapped(v) == IF v = Text THEN Text ELSE Wrap(v)

\* Entry e of the program is what was promised, as seen at time t: there or
\* not, the value modulo 2^64, and the deadline, unless it is beyond what
\* an int64 can hold.
Agrees(e, p, t) ==
    /\ (e # None /\ ~isExpired(e.exp, t)) <=> AliveAt(p, t)
    /\ AliveAt(p, t) =>
         /\ e.val = Wrapped(p.val)
         /\ IF p.exp = Never \/ p.exp > MaxInt THEN e.exp < 0 ELSE e.exp = p.exp

\* What a client finds when it first looks at an entry.
Found(e) == IF e = None THEN None ELSE [e EXCEPT !.exp = IF @ < 0 THEN Never ELSE @]

-----------------------------------------------------------------------------
Init ==
    /\ now = 1
    /\ phase = "closed"
    /\ index = Empty
    /\ log = << >> /\ cur = 1
    /\ snap = NoSnapshot /\ comp = None
    /\ truth = Empty

Tick ==
    /\ now < MaxTime
    /\ now' = now + 1
    /\ UNCHANGED <<phase, index, log, cur, snap, comp, truth>>

-----------------------------------------------------------------------------
(* The writes *)

\* setWithExpiresAtLocked and Delete: the record, in a new segment if it does
\* not fit the current one, then the index.  p is what the client is told.
Put(k, e, p) ==
    /\ Len(log) < MaxLog
    /\ cur' \in {cur, cur + 1} /\ cur' <= MaxSeq
    /\ log' = Append(log, [key |-> k, entry |-> e, seg |-> cur'])
    /\ index' = [index EXCEPT ![k] = e]
    /\ truth' = [truth EXCEPT ![k] = p]
    /\ UNCHANGED <<now, phase, snap, comp>>

Stored(v, exp) == [val |-> v, exp |-> exp]

\* Also GetAndSet.
Set(k, v) ==
    /\ phase = "open"
    /\ Put(k, Stored(v, NoTTL), Promised(v, Never))

\* The clock is read at time t, before db.mu is taken; Batch.SetWithTTL reads
\* it long before.
SetWithTTL(k, v, ttl, t) ==
    /\ phase = "open"
    /\ Put(k, Stored(v, Deadline(t, ttl)), Promised(v, t + ttl))

Delete(k) ==
    /\ phase = "open"
    /\ Put(k, None, None)

SetNX(k, v) ==
    /\ phase = "open" /\ Get(k) = None
    /\ Put(k, Stored(v, NoTTL), Promised(v, Never))

Expire(k, ttl) ==
    /\ phase = "open" /\ Get(k) # None
    /\ Put(k, Stored(Get(k).val, Deadline(now, ttl)), Promised(truth[k].val, now + ttl))

Persist(k) ==
    /\ phase = "open" /\ Get(k) # None
    /\ Put(k, Stored(Get(k).val, NoTTL), Promised(truth[k].val, Never))

\* A key that is not there counts from 0; the deadline is dropped.  A value
\* that is no number is refused.
IncrBy(k, delta) ==
    /\ phase = "open"
    /\ LET current == IF Get(k) = None THEN 0 ELSE Get(k).val
           sum == IF AliveAt(truth[k], now) THEN truth[k].val ELSE 0
       IN  /\ current # Text
           /\ Put(k, Stored(Wrap(current + delta), NoTTL), Promised(sum + delta, Never))

\* A variant that stores the new value without the deadline.
CompareAndSwapForever(k, old, v) ==
    /\ phase = "open" /\ Get(k) # None /\ Get(k).val = old
    /\ Put(k, Stored(v, NoTTL), Promised(v, truth[k].exp))

CompareAndSwap(k, old, v) ==
    /\ phase = "open" /\ Get(k) # None /\ Get(k).val = old
    /\ Put(k, Stored(v, Get(k).exp), Promised(v, truth[k].exp))

\* A read that meets an expired entry, or the TTL worker.
Purge(k) ==
    /\ phase = "open" /\ index[k] # None /\ isExpired(index[k].exp, now)
    /\ index' = [index EXCEPT ![k] = None]
    /\ UNCHANGED <<now, phase, log, cur, snap, comp, truth>>

-----------------------------------------------------------------------------
(* Compaction, the end of the process, and the next Open *)

\* Compact scans the index, which leaves out what has expired.
Capture ==
    /\ phase = "open" /\ comp = None
    /\ comp' = [seq |-> cur, map |-> [k \in Keys |-> Get(k)], at |-> Len(log)]
    /\ UNCHANGED <<now, phase, index, log, cur, snap, truth>>

\* A variant that names the snapshot after the segment that comes next.
WriteSnapshotNext ==
    /\ comp # None
    /\ snap' = [comp EXCEPT !.map = Later(@, now), !.seq = @ + 1]
    /\ comp' = None
    /\ UNCHANGED <<now, phase, index, log, cur, truth>>

\* The clock is read again; what has expired since the scan is left out.  The
\* segments that are deleted are among those recovery skips.
WriteSnapshot ==
    /\ comp # None
    /\ snap' = [comp EXCEPT !.map = Later(@, now)]
    /\ comp' = None
    /\ UNCHANGED <<now, phase, index, log, cur, truth>>

\* Close and the end of the process, or its death.
Stop ==
    /\ phase = "open"
    /\ phase' = "closed" /\ index' = Empty /\ comp' = None
    /\ UNCHANGED <<now, log, cur, snap, truth>>

\* Clients learn what has become of the keys in Skipped.
Open ==
    /\ phase = "closed"
    /\ phase' = "open"
    /\ index' = Recovered(now)
    /\ truth' = [k \in Keys |-> IF k \in Skipped THEN Found(index'[k]) ELSE truth[k]]
    /\ UNCHANGED <<now, log, cur, snap, comp>>

Update(k) ==
    \/ \E v \in Values : Set(k, v) \/ SetNX(k, v)
    \/ \E v \in Values, ttl \in TTLs, t \in {now - 1, now} : SetWithTTL(k, v, ttl, t)
    \/ Delete(k)
    \/ \E ttl \in TTLs : Expire(k, ttl)
    \/ Persist(k)
    \/ \E d \in Deltas : IncrBy(k, d)
    \/ \E old \in Ints \cup {Text}, v \in Values : CompareAndSwap(k, old, v)

Next ==
    \/ Tick
    \/ \E k \in Keys : Update(k) \/ Purge(k)
    \/ Capture \/ WriteSnapshot
    \/ Stop \/ Open

Spec == Init /\ [][Next]_vars

-----------------------------------------------------------------------------
(* Properties *)

TypeOK ==
    /\ now \in 1..MaxTime
    /\ phase \in {"closed", "open"}
    /\ index \in Image
    /\ \A i \in DOMAIN log : log[i].key \in Keys /\ log[i].entry \in Entry \cup {None}
                             /\ log[i].seg \in 1..cur
    /\ cur \in 1..MaxSeq
    /\ snap.seq \in 0..cur /\ snap.map \in Image /\ snap.at \in 0..Len(log)
    /\ comp # None => comp.seq \in 1..cur /\ comp.map \in Image

(***************************************************************************)
(* A running database shows each key exactly until its deadline, with the  *)
(* value the calls add up to, modulo 2^64: CompareAndSwap keeps a          *)
(* deadline, every other write replaces it, and a deadline beyond the      *)
(* range of int64 never makes a key vanish early (ttl.go, atomic.go).      *)
(***************************************************************************)
Kept ==
    phase = "open" => \A k \in Keys : Agrees(index[k], truth[k], now)

(***************************************************************************)
(* Whenever the database is opened again, at any later time, it shows what *)
(* clients were promised: no expired key comes back with an older value,   *)
(* no deadline is lost or moved by the log or a snapshot, and no counter   *)
(* changes; apart from the keys replayWAL skips (open.go:155).             *)
(***************************************************************************)
KeptAcrossRestarts ==
    \A t \in now..MaxTime, k \in Keys \ Skipped : Agrees(Recovered(t)[k], truth[k], t)

-----------------------------------------------------------------------------
(* What the repository's documents say and the code does not do *)

(***************************************************************************)
(* requirements.md:156, "WHEN a developer calls IncrBy with a delta, THE   *)
(* DB SHALL increment the value by delta": a counter is the sum.           *)
(***************************************************************************)
CounterExact ==
    phase = "open" =>
        \A k \in Keys : AliveAt(truth[k], now) => index[k].val = truth[k].val

(***************************************************************************)
(* design.md:536, "For any key set with TTL, after the TTL duration has    *)
(* elapsed, Get(key) should return ErrNotFound": a TTL leaves a deadline.  *)
(***************************************************************************)
EveryTTLEnds ==
    phase = "open" =>
        \A k \in Keys : truth[k] # None /\ truth[k].exp # Never /\ index[k] # None
            => index[k].exp > 0

=============================================================================
