------------------------------ MODULE MemIndex ------------------------------
(***************************************************************************)
(* The in-memory index (internal/index) and the calls that reach it: the   *)
(* reads of the DB (Get, Scan, Keys, Count, Stats), its writes, those that *)
(* read first included (Expire, Persist, SetNX, IncrBy, CompareAndSwap,    *)
(* GetAndSet), and the TTL worker.                                         *)
(*                                                                         *)
(* Two locks meet here.  A read holds db.mu.RLock and a write db.mu.Lock   *)
(* for the whole call, but the TTL worker calls Count with db.mu already   *)
(* released.  Inside the index each use of MemIndex.mu is one atomic step, *)
(* but for the loop of Keys, which reads the clock for every key; between  *)
(* two steps time passes and expired entries are removed by whoever meets  *)
(* them.  The wall clock is assumed not to run backwards.                  *)
(*                                                                         *)
(* Key k has k bytes, and the keys sort as their numbers.  A value is      *)
(* abstracted to its length.                                               *)
(***************************************************************************)
EXTENDS Integers, FiniteSetsExt, SequencesExt

CONSTANTS
    Keys,
    Lengths,   \* of values
    Readers,   \* goroutines that read
    Writer,    \* the goroutine that holds db.mu.Lock
    Cleaner,   \* the TTL worker
    Limits,    \* limits of Scan, 0 for none
    MaxTime,   \* bound on the clock
    None

ASSUME IndexConstants ==
    /\ Keys \subseteq Nat \ {0} /\ IsFiniteSet(Keys)
    /\ Lengths \subseteq Nat
    /\ Limits \subseteq Nat
    /\ Writer # Cleaner /\ {Writer, Cleaner} \cap Readers = {}
    /\ MaxTime \in Nat

VARIABLES
    data,      \* MemIndex.data: key -> entry or None
    size,      \* MemIndex.size
    now,       \* time.Now()
    call       \* the call each goroutine is in

vars == <<data, size, now, call>>

Procs == Readers \cup {Writer, Cleaner}

NoTTL == -1

Deadlines == {NoTTL} \cup 1..(MaxTime + 1)

Entries == [len : Lengths, exp : Deadlines]

ASSUME NoneIsNoEntry == None \notin Entries

Map == [Keys -> Entries \cup {None}]

NoEntries == [k \in Keys |-> None]

(***************************************************************************)
(* op: the operation.  key, seen: the key of Get and the entry it found.   *)
(* at: the time it tested deadlines against.  todo, got, limit: of Scan    *)
(* and Keys.  count, bytes: of Count and Stats.  start (history): what     *)
(* could be seen when the call began.                                      *)
(***************************************************************************)
Idle == [op |-> "none", pc |-> "idle", key |-> 0, seen |-> None, at |-> 0,
         limit |-> 0, todo |-> << >>, got |-> NoEntries, count |-> 0, bytes |-> 0,
         start |-> NoEntries]

\* A variant that takes -1, no deadline, for a time long past.
isExpiredAlways(exp, t) == t >= exp

isExpired(exp, t) == IF exp <= 0 THEN FALSE ELSE t >= exp

entrySize(k, e) == k + e.len

Expired(k, t) == data[k] # None /\ isExpired(data[k].exp, t)

\* What can be seen of entries m at time t, and what can be seen now: stated
\* without isExpired, which is part of what is checked.
VisibleAt(m, t) ==
    [k \in Keys |->
        IF m[k] # None /\ m[k].exp # NoTTL /\ m[k].exp <= t THEN None ELSE m[k]]

Visible == VisibleAt(data, now)

Present(m) == {k \in Keys : m[k] # None}

\* The bytes that entries m hold, one pair of a key and a position for each.
Bytes(m) == UNION {{k} \X (1..entrySize(k, m[k])) : k \in Present(m)}

SizeOf(m) == Cardinality(Bytes(m))

\* delete(m.data, k) and the bookkeeping of size, for every k of K.
Drop(K) ==
    LET gone == [k \in Keys |-> IF k \in K THEN data[k] ELSE None]
    IN  /\ data' = [k \in Keys |-> IF k \in K THEN None ELSE data[k]]
        /\ size' = size - SizeOf(gone)

-----------------------------------------------------------------------------
Init ==
    /\ data = NoEntries
    /\ size = 0
    /\ now = 0
    /\ call = [p \in Procs |-> Idle]

At(p, pc) == call[p].pc = pc

Reading == \E p \in Readers : ~At(p, "idle")

Writing == ~At(Writer, "idle")

\* A goroutine is in the loop of Keys and holds MemIndex.mu for reading.
Listing == \E p \in Readers : At(p, "match")

Goto(p, pc) == call' = [call EXCEPT ![p].pc = pc]

Return(p) == call' = [call EXCEPT ![p] = Idle]

Tick ==
    /\ now < MaxTime
    /\ now' = now + 1
    /\ UNCHANGED <<data, size, call>>

-----------------------------------------------------------------------------
(* MemIndex.Get *)

\* Takes db.mu for reading and starts one of the read operations.
StartRead(p, c) ==
    /\ At(p, "idle")
    /\ ~Writing
    /\ call' = [call EXCEPT ![p] = c]
    /\ UNCHANGED <<data, size, now>>

StartGet(p, k) ==
    StartRead(p, [Idle EXCEPT !.op = "get", !.pc = "look", !.key = k, !.start = Visible])

Look(p) ==
    /\ At(p, "look")
    /\ LET e == data[call[p].key]
       IN  call' = [call EXCEPT ![p].seen = e,
                                ![p].pc = IF e = None THEN "absent" ELSE "check"]
    /\ UNCHANGED <<data, size, now>>

Check(p) ==
    /\ At(p, "check")
    /\ call' = [call EXCEPT ![p].at = now,
                    ![p].pc = IF isExpired(call[p].seen.exp, now) THEN "recheck" ELSE "found"]
    /\ UNCHANGED <<data, size, now>>

\* A variant that removes the entry it saw without looking it up again.
RecheckBlind(p) ==
    /\ At(p, "recheck") /\ ~Listing
    /\ data' = [data EXCEPT ![call[p].key] = None]
    /\ size' = size - entrySize(call[p].key, call[p].seen)
    /\ Goto(p, "absent")
    /\ UNCHANGED now

\* Under the write lock the entry is looked up again: another goroutine may
\* have removed it in the meantime.
Recheck(p) ==
    /\ At(p, "recheck") /\ ~Listing
    /\ IF Expired(call[p].key, now) THEN Drop({call[p].key}) ELSE UNCHANGED <<data, size>>
    /\ Goto(p, "absent")
    /\ UNCHANGED now

\* db.mu.RUnlock, and the answer: DB.Get tests the deadline of what it found
\* once more, which can only turn it into ErrNotFound.
Answer(p) ==
    /\ p \in Readers
    /\ call[p].pc \in {"found", "absent", "scanned", "listed", "counted", "measured"}
    /\ At(p, "counted") => call[p].op = "count"
    /\ Return(p)
    /\ UNCHANGED <<data, size, now>>

-----------------------------------------------------------------------------
(* MemIndex.Scan *)

StartScan(p, n) ==
    StartRead(p, [Idle EXCEPT !.op = "scan", !.pc = "collect", !.at = now, !.limit = n,
                              !.start = Visible])

InOrder(keys) == \A i, j \in 1..Len(keys) : i < j => keys[i] < keys[j]

\* The first n keys, all of them for 0.
Cut(keys, n) == IF n > 0 /\ Len(keys) > n THEN SubSeq(keys, 1, n) ELSE keys

\* A variant that cuts the keys at the limit before it sorts them.
CollectUnsorted(p) ==
    /\ At(p, "collect")
    /\ \E order, keys \in SetToSeqs(Present(data)) :
          LET kept == Cut(order, call[p].limit)
          IN  /\ InOrder(keys)
              /\ call' = [call EXCEPT ![p].pc = "visit",
                             ![p].todo = IF kept # order THEN kept ELSE keys]
    /\ UNCHANGED <<data, size, now>>

\* The limit cuts the sorted keys before any deadline is looked at.
Collect(p) ==
    /\ At(p, "collect")
    /\ \E keys \in SetToSeqs(Present(data)) :
          /\ InOrder(keys)
          /\ call' = [call EXCEPT ![p].pc = "visit", ![p].todo = Cut(keys, call[p].limit)]
    /\ UNCHANGED <<data, size, now>>

Visit(p) ==
    /\ At(p, "visit")
    /\ call[p].todo # << >>
    /\ LET k == Head(call[p].todo)
       IN  IF Expired(k, call[p].at)
           THEN Goto(p, "purge")
           ELSE call' = [call EXCEPT ![p].got[k] = data[k], ![p].todo = Tail(@)]
    /\ UNCHANGED <<data, size, now>>

Purge(p) ==
    /\ At(p, "purge") /\ ~Listing
    /\ LET k == Head(call[p].todo)
       IN  IF Expired(k, call[p].at) THEN Drop({k}) ELSE UNCHANGED <<data, size>>
    /\ call' = [call EXCEPT ![p].pc = "visit", ![p].todo = Tail(@)]
    /\ UNCHANGED now

EndScan(p) ==
    /\ At(p, "visit")
    /\ call[p].todo = << >>
    /\ Goto(p, "scanned")
    /\ UNCHANGED <<data, size, now>>

-----------------------------------------------------------------------------
(* MemIndex.Keys, for a pattern that every key matches *)

StartKeys(p) ==
    StartRead(p, [Idle EXCEPT !.op = "keys", !.pc = "list", !.start = Visible])

\* The lock is taken; a map is iterated in any order.
List(p) ==
    /\ At(p, "list")
    /\ \E order \in SetToSeqs(Present(data)) :
          call' = [call EXCEPT ![p].pc = "match", ![p].todo = order]
    /\ UNCHANGED <<data, size, now>>

Match(p) ==
    /\ At(p, "match") /\ call[p].todo # << >>
    /\ LET k == Head(call[p].todo)
       IN  call' = [call EXCEPT ![p].got[k] = IF Expired(k, now) THEN None ELSE data[k],
                                ![p].todo = Tail(@)]
    /\ UNCHANGED <<data, size, now>>

EndKeys(p) ==
    /\ At(p, "match") /\ call[p].todo = << >>
    /\ Goto(p, "listed")
    /\ UNCHANGED <<data, size, now>>

-----------------------------------------------------------------------------
(* MemIndex.Count, called by DB.Count, by the TTL worker, and by DB.Stats,   *)
(* which asks for the size with another lock                                 *)

StartCount(p, op) ==
    StartRead(p, [Idle EXCEPT !.op = op, !.pc = "sweep", !.at = now, !.start = Visible])

\* cleanupExpired waits for db.mu, looks at db.closed and releases it again;
\* other calls may begin before Count reads the clock.
StartClean ==
    /\ At(Cleaner, "idle")
    /\ ~Reading /\ ~Writing
    /\ call' = [call EXCEPT ![Cleaner] = [Idle EXCEPT !.op = "count", !.pc = "released"]]
    /\ UNCHANGED <<data, size, now>>

CleanNow ==
    /\ At(Cleaner, "released")
    /\ call' = [call EXCEPT ![Cleaner].pc = "sweep", ![Cleaner].at = now]
    /\ UNCHANGED <<data, size, now>>

Sweep(p) ==
    /\ At(p, "sweep") /\ ~Listing
    /\ LET K == {k \in Keys : Expired(k, call[p].at)}
       IN  /\ Drop(K)
           /\ IF p = Cleaner THEN Return(p)
              ELSE call' = [call EXCEPT ![p].pc = "counted",
                               ![p].count = Cardinality(Present(data) \ K)]
    /\ UNCHANGED now

Measure(p) ==
    /\ At(p, "counted") /\ call[p].op = "stats"
    /\ call' = [call EXCEPT ![p].pc = "measured", ![p].bytes = size]
    /\ UNCHANGED <<data, size, now>>

-----------------------------------------------------------------------------
(* The writes *)

SetEntry(k, e) ==
    /\ data' = [data EXCEPT ![k] = e]
    /\ size' = (size - (IF data[k] = None THEN 0 ELSE entrySize(k, data[k]))) + entrySize(k, e)

\* SetWithTTL and Batch compute the deadline before they have db.mu: it may
\* have passed when the entry is stored.
Set(k, e) ==
    /\ ~Reading /\ ~Writing
    /\ SetEntry(k, e)
    /\ UNCHANGED <<now, call>>

Delete(k) ==
    /\ ~Reading /\ ~Writing
    /\ IF data[k] # None THEN Drop({k}) ELSE UNCHANGED <<data, size>>
    /\ UNCHANGED <<now, call>>

Updates == {"Expire", "Persist", "SetNX", "IncrBy", "CompareAndSwap", "GetAndSet"}

StartUpdate(op, k) ==
    /\ ~Reading /\ ~Writing
    /\ call' = [call EXCEPT ![Writer] =
                   [Idle EXCEPT !.op = op, !.pc = "look", !.key = k, !.start = Visible]]
    /\ UNCHANGED <<data, size, now>>

\* A variant in which Persist clears the deadline to 0.
StoredZero(op, e, t) ==
    CASE op = "Expire" -> {f \in Entries : e # None /\ f.len = e.len /\ f.exp > t}
      [] op = "Persist" -> {f \in [len : Lengths, exp : {0}] : e # None /\ f.len = e.len}
      [] op = "CompareAndSwap" -> {f \in Entries : e # None /\ f.exp = e.exp}
      [] op = "SetNX" -> {f \in Entries : e = None /\ f.exp = NoTTL}
      [] OTHER -> {f \in Entries : f.exp = NoTTL}

\* The entries an update may store, given what it found at time t (None if
\* nothing).
Stored(op, e, t) ==
    CASE op = "Expire" -> {f \in Entries : e # None /\ f.len = e.len /\ f.exp > t}
      [] op = "Persist" -> {f \in Entries : e # None /\ f.len = e.len /\ f.exp = NoTTL}
      [] op = "CompareAndSwap" -> {f \in Entries : e # None /\ f.exp = e.exp}
      [] op = "SetNX" -> {f \in Entries : e = None /\ f.exp = NoTTL}
      [] OTHER -> {f \in Entries : f.exp = NoTTL}

Store ==
    /\ call[Writer].pc \in {"found", "absent"}
    /\ LET c == call[Writer]
           found == IF c.pc = "found" THEN c.seen ELSE None
       IN  \E e \in Stored(c.op, found, c.at) : SetEntry(c.key, e)
    /\ Return(Writer)
    /\ UNCHANGED now

\* The key is missing (or present, for SetNX), the old value differs or the
\* stored one is no number: nothing is written.
Refuse ==
    /\ \/ At(Writer, "absent") /\ call[Writer].op \in {"Expire", "Persist", "CompareAndSwap"}
       \/ At(Writer, "found") /\ call[Writer].op \in {"SetNX", "CompareAndSwap", "IncrBy"}
    /\ Return(Writer)
    /\ UNCHANGED <<data, size, now>>

-----------------------------------------------------------------------------
ReadStep(p) ==
    \/ \E k \in Keys : StartGet(p, k)
    \/ \E n \in Limits : StartScan(p, n)
    \/ StartKeys(p) \/ List(p) \/ Match(p) \/ EndKeys(p)
    \/ \E op \in {"count", "stats"} : StartCount(p, op)
    \/ Measure(p)
    \/ Collect(p) \/ Visit(p) \/ Purge(p) \/ EndScan(p)
    \/ Answer(p)

WriteStep ==
    \/ \E k \in Keys : \E e \in Entries : Set(k, e)
    \/ \E k \in Keys : Delete(k)
    \/ \E op \in Updates, k \in Keys : StartUpdate(op, k)
    \/ Store \/ Refuse

Next ==
    \/ Tick
    \/ \E p \in Readers : ReadStep(p)
    \/ \E p \in Readers \cup {Writer} : Look(p) \/ Check(p) \/ Recheck(p)
    \/ StartClean \/ CleanNow
    \/ \E p \in Readers \cup {Cleaner} : Sweep(p)
    \/ WriteStep

Spec == Init /\ [][Next]_vars

-----------------------------------------------------------------------------
(* Properties *)

Calls ==
    [op : {"none", "get", "scan", "keys", "count", "stats"} \cup Updates,
     pc : {"idle", "look", "check", "recheck", "found", "absent", "collect", "visit",
           "purge", "scanned", "list", "match", "listed", "released", "sweep", "counted",
           "measured"},
     key : Keys \cup {0}, seen : Entries \cup {None}, at : 0..MaxTime,
     limit : Limits \cup {0}, todo : Seq(Keys), got : Map, count : 0..Cardinality(Keys),
     bytes : Nat, start : Map]

TypeOK ==
    /\ data \in Map
    /\ size \in Int
    /\ now \in 0..MaxTime
    /\ call \in [Procs -> Calls]

(***************************************************************************)
(* MemIndex.size is the size of what is stored, although several           *)
(* goroutines may each decide to remove the same expired entry: every      *)
(* removal looks the entry up again under the write lock.                  *)
(***************************************************************************)
SizeExact == size = SizeOf(data)

(***************************************************************************)
(* The index implements a map whose entries vanish at their deadline: lazy *)
(* deletion by Get and Scan, the sweep of Count and the TTL worker never   *)
(* change what can be seen, and a write changes only its own key.          *)
(***************************************************************************)
Promise == INSTANCE ExpiringMap WITH store <- Visible, clock <- now

VanishAtDeadline == Promise!Spec

Answered(c) ==
    /\ c.pc = "found" => c.seen = c.start[c.key]
    /\ c.pc = "absent" => Visible[c.key] = None
    /\ c.pc = "counted" =>
         Cardinality(Present(Visible)) <= c.count /\ c.count <= Cardinality(Present(c.start))
    /\ c.pc = "measured" => SizeOf(Visible) <= c.bytes /\ c.bytes <= SizeOf(c.start)

Listed(c) ==
    \A k \in Keys :
        /\ c.got[k] # None => c.got[k] = c.start[k]
        /\ Visible[k] # None => c.got[k] = Visible[k]

Scanned(c) ==
    \A k \in Keys :
        /\ c.got[k] # None => c.got[k] = c.start[k]
        /\ c.limit = 0 \/ (\E j \in Present(c.got) : k < j)
             => Visible[k] \in {None, c.got[k]}

(***************************************************************************)
(* What a call that still holds db.mu answers: a value was visible when    *)
(* the call began, a key that is not found is not visible now, and a scan  *)
(* neither invents an entry nor leaves a gap before the last key it        *)
(* returns; Keys lists all that can be seen throughout; Stats counts and   *)
(* measures no less than can be seen now and no more than at its begin.    *)
(***************************************************************************)
AnswersAgree ==
    \A p \in Procs :
        /\ Answered(call[p])
        /\ At(p, "scanned") => Scanned(call[p])
        /\ At(p, "listed") => Listed(call[p])

(***************************************************************************)
(* requirements.md:138, "WHEN iterating, THE Iterator SHALL provide a      *)
(* snapshot-consistent view": what an unlimited scan returns is what could *)
(* be seen at one instant of the call.                                     *)
(***************************************************************************)
ScanAtOneInstant ==
    \A p \in Readers : At(p, "scanned") /\ call[p].limit = 0 =>
        \E t \in call[p].at..now : call[p].got = VisibleAt(call[p].start, t)

=============================================================================
