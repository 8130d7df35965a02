--------------------------- MODULE MemIndexProofs ---------------------------
(***************************************************************************)
(* Proofs about MemIndex for any keys, values, deadlines and number of     *)
(* readers.                                                                *)
(***************************************************************************)
EXTENDS MemIndex, TLAPS, FiniteSetTheorems, SequenceTheorems

-----------------------------------------------------------------------------
(* The operators *)

\* Entries m without those of the keys outside K.
Only(m, K) == [k \in Keys |-> IF k \in K THEN m[k] ELSE None]

LEMMA EntrySizeType ==
    ASSUME NEW k \in Keys, NEW e \in Entries
    PROVE  entrySize(k, e) \in Nat
<1>1. k \in Nat /\ e.len \in Nat
  <2>1. e.len \in Lengths
    BY DEF Entries
  <2> QED BY <2>1, IndexConstants
<1> QED BY <1>1 DEF entrySize

\* What is stored takes a finite number of bytes.
LEMMA BytesFinite ==
    ASSUME NEW m \in Map
    PROVE  IsFiniteSet(Bytes(m)) /\ SizeOf(m) \in Nat
<1> DEFINE of(k) == {k} \X (1..entrySize(k, m[k]))
           f == [k \in Present(m) |-> of(k)]
           T == {of(k) : k \in Present(m)}
<1>1. IsFiniteSet(Present(m))
  BY IndexConstants, FS_Subset DEF Present
<1>2. f \in Surjection(Present(m), T)
  BY DEF Surjection
<1>3. IsFiniteSet(T)
  <2> HIDE DEF f, T
  <2> QED BY <1>1, <1>2, FS_Surjection
<1>4. ASSUME NEW k \in Present(m) PROVE IsFiniteSet(of(k))
  <2>1. entrySize(k, m[k]) \in Int /\ 1 \in Int
    BY EntrySizeType DEF Present, Map
  <2>2. IsFiniteSet(1..entrySize(k, m[k]))
    BY <2>1, FS_Interval
  <2>3. IsFiniteSet({k})
    BY FS_Singleton
  <2> QED BY <2>2, <2>3, FS_Product
<1>5. \A x \in T : IsFiniteSet(x)
  BY <1>4
<1>6. IsFiniteSet(UNION T)
  <2> HIDE DEF T
  <2> QED BY <1>3, <1>5, FS_UNION
<1> QED BY <1>6, FS_CardinalityType DEF Bytes, SizeOf

\* Fewer entries take no more bytes.
LEMMA SizeMonotone ==
    ASSUME NEW m \in Map, NEW o \in Map, \A k \in Keys : o[k] \in {None, m[k]}
    PROVE  SizeOf(o) <= SizeOf(m)
<1>1. Bytes(o) \subseteq Bytes(m)
  BY DEF Bytes, Present
<1> QED BY <1>1, BytesFinite, FS_Subset DEF SizeOf

\* The entries of some keys and those of the others.
LEMMA SizeSplit ==
    ASSUME NEW m \in Map, NEW K
    PROVE  /\ Only(m, K) \in Map /\ Only(m, Keys \ K) \in Map
           /\ SizeOf(m) = SizeOf(Only(m, K)) + SizeOf(Only(m, Keys \ K))
<1>1. Only(m, K) \in Map /\ Only(m, Keys \ K) \in Map
  BY DEF Only, Map
<1>2. Bytes(m) = Bytes(Only(m, K)) \cup Bytes(Only(m, Keys \ K))
  <2>1. \A k \in Keys : k \in K => Only(m, K)[k] = m[k] /\ Only(m, Keys \ K)[k] = None
    BY DEF Only
  <2>2. \A k \in Keys : k \notin K => Only(m, K)[k] = None /\ Only(m, Keys \ K)[k] = m[k]
    BY DEF Only
  <2> QED BY <2>1, <2>2 DEF Bytes, Present
<1>3. Bytes(Only(m, K)) \cap Bytes(Only(m, Keys \ K)) = {}
  <2>1. \A o, b : b \in Bytes(o) => b[1] \in Present(o)
    BY DEF Bytes
  <2>2. Present(Only(m, K)) \cap Present(Only(m, Keys \ K)) = {}
    BY DEF Present, Only
  <2> QED BY <2>1, <2>2
<1>4. Cardinality({}) = 0
  BY FS_EmptySet
<1>5. SizeOf(m) = SizeOf(Only(m, K)) + SizeOf(Only(m, Keys \ K)) - 0
  BY <1>1, <1>2, <1>3, <1>4, BytesFinite, FS_Union, ZenonT(40) DEF SizeOf
<1> QED BY <1>1, <1>5, BytesFinite

\* One entry takes entrySize, and none nothing.
LEMMA SizeOfOne ==
    ASSUME NEW m \in Map, NEW k \in Keys, \A j \in Keys \ {k} : m[j] = None
    PROVE  SizeOf(m) = IF m[k] = None THEN 0 ELSE entrySize(k, m[k])
<1>1. CASE m[k] = None
  <2>1. Bytes(m) = {}
    BY <1>1 DEF Bytes, Present
  <2> QED BY <1>1, <2>1, FS_EmptySet DEF SizeOf
<1>2. CASE m[k] # None
  <2>1. entrySize(k, m[k]) \in Nat
    BY <1>2, EntrySizeType DEF Map
  <2>2. Bytes(m) = {k} \X (1..entrySize(k, m[k]))
    BY <1>2 DEF Bytes, Present
  <2> DEFINE I == 1..entrySize(k, m[k])
  <2>3. IsFiniteSet(I) /\ Cardinality(I) = entrySize(k, m[k])
    BY <2>1, FS_Interval
  <2>4. IsFiniteSet({k}) /\ Cardinality({k}) = 1
    BY FS_Singleton
  <2>5. Cardinality({k} \X I) = Cardinality({k}) * Cardinality(I)
    <3> HIDE DEF I
    <3> QED BY <2>3, <2>4, FS_Product
  <2>6. Cardinality(Bytes(m)) = 1 * entrySize(k, m[k])
    BY <2>2, <2>3, <2>4, <2>5
  <2> QED BY <1>2, <2>1, <2>6 DEF SizeOf
<1> QED BY <1>1, <1>2

-----------------------------------------------------------------------------
(* The inductive invariant *)

\* What each goroutine can be doing, and that db.mu keeps writes and reads apart.
LockInv ==
    /\ call[Cleaner].pc \in {"idle", "released", "sweep"}
    /\ call[Writer].pc \in {"idle", "look", "check", "recheck", "found", "absent"}
    /\ \A p \in Readers : call[p].pc # "released"
    /\ \A p \in Procs : call[p].at <= now
    /\ Reading => ~Writing

\* While c holds db.mu entries can only vanish: what can be seen is what could
\* be seen when c began.
SinceBegin(c) == \A k \in Keys : Visible[k] \in {None, c.start[k]}

\* The one entry that Get and the updates look at.
Looking(c) ==
    /\ c.pc \in {"look", "check", "recheck", "found", "absent"} => c.key \in Keys
    /\ c.pc \in {"check", "recheck"} =>
         /\ c.seen # None /\ data[c.key] \in {None, c.seen}
         /\ c.seen = c.start[c.key] \/ isExpired(c.seen.exp, now)
    /\ c.pc = "recheck" => isExpired(c.seen.exp, c.at)
    /\ c.pc = "found" => c.seen # None /\ c.seen = c.start[c.key]
    /\ c.pc = "absent" => Visible[c.key] = None

\* Scan, Count and Stats read the clock when they begin: an entry that had not
\* expired then is one that could be seen.
Timed(c) ==
    c.pc \in {"collect", "visit", "purge", "sweep", "counted"} =>
        \A k \in Keys :
            data[k] = None \/ isExpired(data[k].exp, c.at) \/ data[k] = c.start[k]

Counting(c) ==
    /\ c.pc = "counted" =>
         /\ \A k \in Keys : data[k] \in {None, c.start[k]}
         /\ Cardinality(Present(Visible)) <= c.count
         /\ c.count <= Cardinality(Present(c.start))
    /\ c.pc = "measured" => SizeOf(Visible) <= c.bytes /\ c.bytes <= SizeOf(c.start)

Left(c, k) == \E i \in 1..Len(c.todo) : c.todo[i] = k

\* What an iteration has met, what it has still to meet, and, of a scan with a
\* limit, that everything else sorts after these.
Iterating(c) ==
    /\ c.pc \in {"collect", "list"} => c.got = NoEntries
    /\ c.pc \in {"visit", "purge", "scanned", "match", "listed"} =>
         \A k \in Keys : c.got[k] \in {None, c.start[k]}
    /\ c.pc \in {"visit", "purge", "scanned"} =>
         \A k \in Keys :
            \/ Visible[k] \in {None, c.got[k]}
            \/ Left(c, k)
            \/ /\ c.limit # 0
               /\ \A j \in Keys : c.got[j] # None \/ Left(c, j) => j < k
    /\ c.pc \in {"visit", "purge"} =>
         /\ InOrder(c.todo)
         /\ \A j \in Present(c.got), i \in 1..Len(c.todo) : j < c.todo[i]
    /\ c.pc = "purge" =>
         /\ c.todo # << >>
         /\ data[Head(c.todo)] = None \/ isExpired(data[Head(c.todo)].exp, c.at)
    /\ c.pc \in {"match", "listed"} =>
         \A k \in Keys : Visible[k] \in {None, c.got[k]} \/ Left(c, k)
    /\ c.pc \in {"scanned", "listed"} => c.todo = << >>

CallInv(c) ==
    c.pc # "idle" =>
        SinceBegin(c) /\ Looking(c) /\ Timed(c) /\ Counting(c) /\ Iterating(c)

IndexInv ==
    /\ TypeOK
    /\ SizeExact
    /\ LockInv
    /\ \A p \in Readers \cup {Writer} : CallInv(call[p])

-----------------------------------------------------------------------------
(* What can be seen *)

LEMMA ExpiredStays ==
    ASSUME NEW x \in Int, NEW t \in Int, NEW u \in Int, t <= u, isExpired(x, t)
    PROVE  isExpired(x, u)
BY DEF isExpired

LEMMA EntryFields ==
    ASSUME NEW e \in Entries
    PROVE  e # None /\ e.exp \in Deadlines /\ e.exp \in Int
<1>1. e.exp \in Deadlines /\ e # None
  BY NoneIsNoEntry DEF Entries
<1> QED BY <1>1, IndexConstants DEF Deadlines, NoTTL

\* isExpired, as the code computes it, tells what can be seen.
LEMMA VisibleIs ==
    ASSUME NEW m \in Map, NEW t \in 0..MaxTime
    PROVE  /\ VisibleAt(m, t) \in Map
           /\ \A k \in Keys : VisibleAt(m, t)[k] =
                IF m[k] # None /\ isExpired(m[k].exp, t) THEN None ELSE m[k]
<1>1. ASSUME NEW k \in Keys
      PROVE  VisibleAt(m, t)[k] =
               IF m[k] # None /\ isExpired(m[k].exp, t) THEN None ELSE m[k]
  <2>1. m[k] = None \/ m[k].exp \in Deadlines
    BY EntryFields DEF Map
  <2>2. t \in Int /\ MaxTime \in Nat
    BY IndexConstants
  <2>3. ASSUME NEW x \in Deadlines PROVE isExpired(x, t) <=> x # NoTTL /\ x <= t
    BY <2>2 DEF Deadlines, NoTTL, isExpired
  <2> QED BY <2>1, <2>3 DEF VisibleAt
<1>2. VisibleAt(m, t) \in Map
  BY DEF VisibleAt, Map
<1> QED BY <1>1, <1>2

\* Nothing appears while entries are only removed and time passes.
LEMMA SeenLess ==
    ASSUME NEW m \in Map, NEW o \in Map, NEW t \in 0..MaxTime, NEW u \in t..MaxTime,
           \A k \in Keys : o[k] \in {None, m[k]}
    PROVE  \A k \in Keys : VisibleAt(o, u)[k] \in {None, VisibleAt(m, t)[k]}
<1> SUFFICES ASSUME NEW k \in Keys
             PROVE  VisibleAt(o, u)[k] \in {None, VisibleAt(m, t)[k]}
  OBVIOUS
<1>1. t \in Int /\ u \in Int /\ t <= u /\ u \in 0..MaxTime
  BY IndexConstants
<1>2. CASE o[k] = None
  BY <1>1, <1>2, VisibleIs
<1>3. CASE o[k] # None
  <2>1. o[k] = m[k] /\ m[k] \in Entries /\ m[k].exp \in Int
    BY <1>3, EntryFields DEF Map
  <2>2. isExpired(m[k].exp, t) => isExpired(m[k].exp, u)
    BY <1>1, <2>1, ExpiredStays
  <2> QED BY <1>1, <1>3, <2>1, <2>2, VisibleIs
<1> QED BY <1>2, <1>3

\* Fewer keys, fewer of them present.
LEMMA PresentLess ==
    ASSUME NEW m \in Map, NEW o \in Map, \A k \in Keys : o[k] \in {None, m[k]}
    PROVE  /\ Cardinality(Present(o)) \in Nat /\ Cardinality(Present(m)) \in Nat
           /\ Cardinality(Present(o)) <= Cardinality(Present(m))
<1>1. IsFiniteSet(Present(m)) /\ Present(o) \subseteq Present(m)
  BY IndexConstants, FS_Subset DEF Present
<1> QED BY <1>1, FS_Subset, FS_CardinalityType

-----------------------------------------------------------------------------
(* The frame of a step *)

\* Entries are only removed, and time does not run backwards.
Shrinks == (\A k \in Keys : data'[k] \in {None, data[k]}) /\ now <= now'

\* A step that only removes entries keeps what every other call has found.
LEMMA OthersKeep ==
    ASSUME TypeOK, TypeOK', Shrinks, NEW p \in Procs, call'[p] = call[p],
           CallInv(call[p])
    PROVE  CallInv(call[p])'
<1> DEFINE c == call[p]
<1>1. CASE c.pc = "idle"
  BY <1>1 DEF CallInv
<1>2. CASE c.pc # "idle"
  <2>1. SinceBegin(c) /\ Looking(c) /\ Timed(c) /\ Counting(c) /\ Iterating(c)
    BY <1>2 DEF CallInv
  <2>2. data \in Map /\ data' \in Map /\ now \in 0..MaxTime /\ now' \in now..MaxTime
    BY IndexConstants DEF TypeOK, Shrinks
  <2>3. now \in Int /\ now' \in Int /\ now <= now' /\ now' \in 0..MaxTime
    BY <2>2, IndexConstants
  <2>4. \A k \in Keys : Visible'[k] \in {None, Visible[k]}
    BY <2>2, SeenLess DEF Visible, Shrinks
  <2>5. Visible \in Map /\ Visible' \in Map
    BY <2>2, <2>3, VisibleIs DEF Visible
  <2>6. c \in Calls /\ c.start \in Map /\ c.count \in Nat /\ c.bytes \in Nat
    BY IndexConstants, FS_CardinalityType DEF TypeOK, Calls
  <2>7. SinceBegin(c)'
    BY <2>1, <2>4 DEF SinceBegin
  <2>8. Looking(c)'
    <3>1. c.seen # None => c.seen.exp \in Int
      BY <2>6, EntryFields DEF Calls
    <3>2. c.pc \in {"check", "recheck"} =>
             c.seen = c.start[c.key] \/ isExpired(c.seen.exp, now')
      BY <2>1, <2>3, <3>1, ExpiredStays DEF Looking
    <3> QED BY <2>1, <2>4, <3>2 DEF Looking, Shrinks
  <2>9. Timed(c)'
    BY <2>1 DEF Timed, Shrinks
  <2>10. Counting(c)'
    <3>1. /\ Cardinality(Present(Visible')) \in Nat /\ Cardinality(Present(Visible)) \in Nat
          /\ Cardinality(Present(Visible')) <= Cardinality(Present(Visible))
      BY <2>4, <2>5, PresentLess
    <3>2. /\ SizeOf(Visible') \in Nat /\ SizeOf(Visible) \in Nat
          /\ SizeOf(Visible') <= SizeOf(Visible)
      BY <2>4, <2>5, BytesFinite, SizeMonotone
    <3> QED BY <2>1, <2>6, <3>1, <3>2 DEF Counting, Shrinks
  <2>11. Iterating(c)'
    <3>1. \A k \in Keys : c.got[k] \in {None, c.start[k]} /\ Visible[k] \in {None, c.got[k]}
            => Visible'[k] \in {None, c.got[k]}
      BY <2>4
    <3>2. c.pc = "purge" => Head(c.todo) \in Keys
      BY <2>1, <2>6, HeadTailProperties DEF Iterating, Calls
    <3> QED BY <2>1, <2>4, <3>1, <3>2 DEF Iterating, Shrinks, Left
  <2> QED BY <2>7, <2>8, <2>9, <2>10, <2>11 DEF CallInv
<1> QED BY <1>1, <1>2

\* Only the call of p changes.
OnlyCall(p) == \A q \in Procs \ {p} : call'[q] = call[q]

\* db.mu after a step of p: a reader goes on only without a writer.
LEMMA LockFrame ==
    ASSUME TypeOK, TypeOK', LockInv, NEW p \in Procs, OnlyCall(p), now <= now',
           call'[p].at <= now',
           p = Cleaner => call'[p].pc \in {"idle", "released", "sweep"},
           p = Writer =>
             /\ call'[p].pc \in {"idle", "look", "check", "recheck", "found", "absent"}
             /\ call'[p].pc # "idle" => ~Reading,
           p \in Readers =>
             /\ call'[p].pc # "released"
             /\ call'[p].pc # "idle" => ~Writing
    PROVE  LockInv'
<1>1. \A q \in Procs : call[q].at \in Int /\ call'[q].at \in Int /\ now \in Int /\ now' \in Int
  BY IndexConstants, SMTT(30) DEF TypeOK, Calls
<1>2. \A q \in Procs : call'[q].at <= now'
  BY <1>1 DEF OnlyCall, LockInv
<1>3. Writer \in Procs /\ Cleaner \in Procs /\ Readers \subseteq Procs /\ Writer # Cleaner
        /\ Writer \notin Readers /\ Cleaner \notin Readers
  BY IndexConstants DEF Procs
<1>4. (Reading => ~Writing)'
  BY <1>3 DEF OnlyCall, LockInv, Reading, Writing, At
<1> QED BY <1>2, <1>3, <1>4 DEF OnlyCall, LockInv

\* A step of p that only removes entries keeps the invariant when it keeps
\* what p has found.
LEMMA CallFrame ==
    ASSUME IndexInv, TypeOK', SizeExact', LockInv', Shrinks, NEW p \in Procs, OnlyCall(p),
           p # Cleaner => CallInv(call[p])'
    PROVE  IndexInv'
<1> SUFFICES ASSUME NEW q \in Readers \cup {Writer} PROVE CallInv(call[q])'
  BY DEF IndexInv
<1>1. q \in Procs /\ q # Cleaner
  BY IndexConstants DEF Procs
<1>2. CASE q = p
  BY <1>1, <1>2
<1>3. CASE q # p
  BY <1>1, <1>3, OthersKeep DEF IndexInv, OnlyCall
<1> QED BY <1>2, <1>3

\* A step within a call that holds db.mu, or the first step of one.
LEMMA ReadFrame ==
    ASSUME IndexInv, NEW p \in Readers \cup {Writer}, OnlyCall(p),
           call[p].pc # "idle" \/ (~Writing /\ (p = Writer => ~Reading)),
           call' \in [Procs -> Calls], call'[p].at <= now, call'[p].pc # "released",
           p = Writer =>
             call'[p].pc \in {"idle", "look", "check", "recheck", "found", "absent"},
           data' \in Map, size' \in Int, now' = now, SizeExact',
           \A k \in Keys : data'[k] \in {None, data[k]},
           CallInv(call[p])'
    PROVE  IndexInv'
<1>1. TypeOK /\ TypeOK' /\ LockInv
  BY DEF IndexInv, TypeOK
<1>2. now \in Int /\ Shrinks
  BY <1>1, IndexConstants DEF Shrinks, TypeOK
<1>3. p \in Procs /\ p # Cleaner /\ Writer \notin Readers
  BY IndexConstants DEF Procs
<1>4. p = Writer /\ call'[p].pc # "idle" => ~Reading
  BY <1>1 DEF LockInv, Writing, At
<1>5. p \in Readers /\ call'[p].pc # "idle" => ~Writing
  BY <1>1 DEF LockInv, Reading, At
<1>6. LockInv'
  BY <1>1, <1>2, <1>3, <1>4, <1>5, LockFrame
<1> QED BY <1>1, <1>2, <1>3, <1>6, CallFrame

\* A write ends with nobody left who holds db.mu.
LEMMA WriteFrame ==
    ASSUME IndexInv, TypeOK', SizeExact', ~Reading, OnlyCall(Writer), now' = now,
           call'[Writer] = Idle \/ (~Writing /\ call' = call)
    PROVE  IndexInv'
<1>1. Writer \in Procs /\ Readers \subseteq Procs /\ Writer \notin Readers
        /\ Writer # Cleaner /\ now \in Nat
  BY IndexConstants DEF Procs, IndexInv, TypeOK
<1>2. call'[Writer].pc = "idle" /\ call'[Writer].at <= now'
  BY <1>1 DEF Idle, IndexInv, LockInv, Writing, At
<1>3. \A q \in Readers \cup {Writer} : call'[q].pc = "idle"
  BY <1>1, <1>2 DEF OnlyCall, Reading, At
<1>4. LockInv'
  BY <1>1, <1>2, LockFrame DEF IndexInv
<1> QED BY <1>3, <1>4 DEF IndexInv, CallInv

-----------------------------------------------------------------------------
(* The size *)

LEMMA DropStep ==
    ASSUME data \in Map, SizeExact, NEW K \in SUBSET Keys, Drop(K)
    PROVE  /\ data' \in Map /\ size' \in Int /\ SizeExact'
           /\ data' = Only(data, Keys \ K)
           /\ \A k \in Keys : data'[k] = IF k \in K THEN None ELSE data[k]
<1>1. data' = Only(data, Keys \ K) /\ size' = size - SizeOf(Only(data, K))
  BY DEF Drop, Only
<1>2. /\ Only(data, K) \in Map /\ Only(data, Keys \ K) \in Map
      /\ SizeOf(data) = SizeOf(Only(data, K)) + SizeOf(Only(data, Keys \ K))
  BY SizeSplit
<1>3. SizeOf(Only(data, K)) \in Nat /\ SizeOf(Only(data, Keys \ K)) \in Nat
  BY <1>2, BytesFinite
<1>4. size' = SizeOf(Only(data, Keys \ K))
  BY <1>1, <1>2, <1>3 DEF SizeExact
<1> QED BY <1>1, <1>2, <1>3, <1>4 DEF SizeExact, Only

LEMMA DropOne ==
    ASSUME data \in Map, SizeExact, NEW k \in Keys, Drop({k})
    PROVE  /\ data' \in Map /\ size' \in Int /\ SizeExact'
           /\ data'[k] = None
           /\ \A j \in Keys : j # k => data'[j] = data[j]
<1>1. {k} \in SUBSET Keys
  OBVIOUS
<1>2. /\ data' \in Map /\ size' \in Int /\ SizeExact'
      /\ \A j \in Keys : data'[j] = IF j \in {k} THEN None ELSE data[j]
  BY <1>1, DropStep
<1> QED BY <1>2

LEMMA SetStep ==
    ASSUME data \in Map, SizeExact, NEW k \in Keys, NEW e \in Entries, SetEntry(k, e)
    PROVE  data' \in Map /\ size' \in Int /\ SizeExact'
<1> DEFINE old == IF data[k] = None THEN 0 ELSE entrySize(k, data[k])
           rest == Only(data, Keys \ {k})
<1>1. data' = [data EXCEPT ![k] = e] /\ size' = (size - old) + entrySize(k, e)
  BY DEF SetEntry
<1>2. data' \in Map
  BY <1>1 DEF Map
<1>3. /\ Only(data, {k}) \in Map /\ rest \in Map
      /\ SizeOf(data) = SizeOf(Only(data, {k})) + SizeOf(rest)
  BY SizeSplit
<1>4. /\ Only(data', {k}) \in Map /\ Only(data', Keys \ {k}) \in Map
      /\ SizeOf(data') = SizeOf(Only(data', {k})) + SizeOf(Only(data', Keys \ {k}))
  BY <1>2, SizeSplit
<1>5. Only(data', Keys \ {k}) = rest
  BY <1>1 DEF Only, Map
<1>6. SizeOf(Only(data, {k})) = old
  <2>1. Only(data, {k})[k] = data[k] /\ \A j \in Keys \ {k} : Only(data, {k})[j] = None
    BY DEF Only
  <2> QED BY <1>3, <2>1, SizeOfOne
<1>7. SizeOf(Only(data', {k})) = entrySize(k, e)
  <2>1. Only(data', {k})[k] = e /\ \A j \in Keys \ {k} : Only(data', {k})[j] = None
    BY <1>1 DEF Only, Map
  <2> QED BY <1>4, <2>1, NoneIsNoEntry, SizeOfOne
<1>8. old \in Nat /\ entrySize(k, e) \in Nat /\ SizeOf(rest) \in Nat
  BY <1>3, EntrySizeType, BytesFinite DEF Map
<1> HIDE DEF old, rest
<1> QED BY <1>1, <1>2, <1>3, <1>4, <1>5, <1>6, <1>7, <1>8 DEF SizeExact

-----------------------------------------------------------------------------
(* The beginning of a call *)

LEMMA SeenNow ==
    ASSUME TypeOK
    PROVE  /\ Visible \in Map
           /\ \A k \in Keys : Visible[k] = IF Expired(k, now) THEN None ELSE data[k]
BY VisibleIs DEF TypeOK, Visible, Expired

LEMMA IdleType == Idle \in Calls /\ Idle.at = 0 /\ Idle.got = NoEntries
<1>1. NoEntries \in Map
  BY DEF NoEntries, Map
<1>2. 0 \in 0..Cardinality(Keys) /\ 0 \in 0..MaxTime
  BY IndexConstants, FS_CardinalityType
<1>3. << >> \in Seq(Keys)
  OBVIOUS
<1> QED BY <1>1, <1>2, <1>3 DEF Idle, Calls

\* The calls that goroutines begin: nothing found yet, and what can be seen
\* now taken down.
Begins ==
    {c \in Calls :
        /\ c.pc \in {"look", "collect", "list", "sweep"}
        /\ c.pc = "look" => c.key \in Keys
        /\ c.pc \in {"collect", "sweep"} => c.at = now
        /\ c.at \in {0, now}
        /\ c.got = NoEntries
        /\ c.start = Visible}

LEMMA BeginStep ==
    ASSUME IndexInv, NEW p \in Readers \cup {Writer}, NEW c \in Begins,
           ~Writing, p = Writer => ~Reading /\ c.pc = "look",
           call' = [call EXCEPT ![p] = c], UNCHANGED <<data, size, now>>
    PROVE  IndexInv'
<1>1. p \in Procs
  BY DEF Procs
<1>2. TypeOK /\ SizeExact /\ now \in Nat
  BY IndexConstants DEF IndexInv, TypeOK
<1>3. c \in Calls /\ call' \in [Procs -> Calls] /\ call'[p] = c /\ OnlyCall(p)
  BY <1>1, <1>2 DEF Begins, TypeOK, OnlyCall
<1>4. CallInv(call[p])'
  <2>1. c.start = Visible /\ Visible' = Visible
    BY DEF Begins, Visible
  <2>2. SinceBegin(call[p])'
    BY <1>3, <2>1 DEF SinceBegin
  <2>3. Timed(call[p])'
    <3>1. \A k \in Keys : data[k] = None \/ isExpired(data[k].exp, now) \/ data[k] = Visible[k]
      BY <1>2, SeenNow DEF Expired
    <3> QED BY <1>3, <2>1, <3>1 DEF Timed, Begins
  <2>4. Looking(call[p])' /\ Counting(call[p])' /\ Iterating(call[p])'
    BY <1>3 DEF Looking, Counting, Iterating, Begins
  <2> QED BY <2>2, <2>3, <2>4 DEF CallInv
<1>5. SizeExact'
  BY <1>2 DEF SizeExact
<1>6. c.at <= now /\ c.pc \in {"look", "collect", "list", "sweep"}
  BY <1>2 DEF Begins
<1> QED BY <1>2, <1>3, <1>4, <1>5, <1>6, ReadFrame DEF TypeOK

LEMMA StartStep ==
    ASSUME IndexInv, NEW p \in Readers,
           \/ \E k \in Keys : StartGet(p, k)
           \/ \E n \in Limits : StartScan(p, n)
           \/ StartKeys(p)
           \/ \E op \in {"count", "stats"} : StartCount(p, op)
    PROVE  IndexInv'
<1>1. Visible \in Map /\ now \in 0..MaxTime
  BY SeenNow DEF IndexInv, TypeOK
<1>2. ASSUME NEW c \in Begins, StartRead(p, c) PROVE IndexInv'
  <2>1. p # Writer
    BY IndexConstants
  <2> QED BY <1>2, <2>1, BeginStep DEF StartRead
<1>3. ASSUME NEW k \in Keys, StartGet(p, k) PROVE IndexInv'
  <2> DEFINE c == [Idle EXCEPT !.op = "get", !.pc = "look", !.key = k, !.start = Visible]
  <2>1. c \in Calls
    BY <1>1, IdleType, ZenonT(40) DEF Calls
  <2>2. c.pc = "look" /\ c.key = k /\ c.at = 0 /\ c.got = NoEntries /\ c.start = Visible
    BY <1>1, IdleType DEF Calls
  <2>3. c \in Begins
    <3> HIDE DEF c
    <3> QED BY <1>1, <2>1, <2>2 DEF Begins
  <2> QED BY <1>2, <1>3, <2>3 DEF StartGet
<1>4. ASSUME NEW n \in Limits, StartScan(p, n) PROVE IndexInv'
  <2> DEFINE c == [Idle EXCEPT !.op = "scan", !.pc = "collect", !.at = now, !.limit = n,
                     !.start = Visible]
  <2>1. c \in Calls
    BY <1>1, IdleType, ZenonT(40) DEF Calls
  <2>2. c.pc = "collect" /\ c.at = now /\ c.got = NoEntries /\ c.start = Visible
    BY <1>1, IdleType DEF Calls
  <2>3. c \in Begins
    <3> HIDE DEF c
    <3> QED BY <1>1, <2>1, <2>2 DEF Begins
  <2> QED BY <1>2, <1>4, <2>3 DEF StartScan
<1>5. CASE StartKeys(p)
  <2> DEFINE c == [Idle EXCEPT !.op = "keys", !.pc = "list", !.start = Visible]
  <2>1. c \in Calls
    BY <1>1, IdleType, ZenonT(40) DEF Calls
  <2>2. c.pc = "list" /\ c.at = 0 /\ c.got = NoEntries /\ c.start = Visible
    BY <1>1, IdleType DEF Calls
  <2>3. c \in Begins
    <3> HIDE DEF c
    <3> QED BY <1>1, <2>1, <2>2 DEF Begins
  <2> QED BY <1>2, <1>5, <2>3 DEF StartKeys
<1>6. ASSUME NEW op \in {"count", "stats"}, StartCount(p, op) PROVE IndexInv'
  <2> DEFINE c == [Idle EXCEPT !.op = op, !.pc = "sweep", !.at = now, !.start = Visible]
  <2>1. c \in Calls
    <3>1. op \in {"none", "get", "scan", "keys", "count", "stats"}
      OBVIOUS
    <3> QED BY <1>1, <3>1, IdleType, ZenonT(40) DEF Calls
  <2>2. c.pc = "sweep" /\ c.at = now /\ c.got = NoEntries /\ c.start = Visible
    BY <1>1, IdleType DEF Calls
  <2>3. c \in Begins
    <3> HIDE DEF c
    <3> QED BY <1>1, <2>1, <2>2 DEF Begins
  <2> QED BY <1>2, <1>6, <2>3 DEF StartCount
<1> QED BY <1>3, <1>4, <1>5, <1>6

LEMMA UpdateStep ==
    ASSUME IndexInv, NEW op \in Updates, NEW k \in Keys, StartUpdate(op, k)
    PROVE  IndexInv'
<1>1. TypeOK /\ Visible \in Map
  BY SeenNow DEF IndexInv
<1> DEFINE c == [Idle EXCEPT !.op = op, !.pc = "look", !.key = k, !.start = Visible]
<1>2. c \in Calls
  BY <1>1, IdleType, ZenonT(40) DEF Calls, TypeOK
<1>3. c.pc = "look" /\ c.key = k /\ c.at = 0 /\ c.got = NoEntries /\ c.start = Visible
  BY <1>1, IdleType DEF Calls
<1>4. c \in Begins
  <2> HIDE DEF c
  <2> QED BY <1>1, <1>2, <1>3 DEF Begins
<1>5. call' = [call EXCEPT ![Writer] = c] /\ UNCHANGED <<data, size, now>>
        /\ ~Reading /\ ~Writing
  BY DEF StartUpdate
<1> HIDE DEF c
<1> QED BY <1>3, <1>4, <1>5, BeginStep

-----------------------------------------------------------------------------
(* MemIndex.Get *)

LEMMA LookStep ==
    ASSUME IndexInv, NEW p \in Readers \cup {Writer}, Look(p)
    PROVE  IndexInv'
<1> DEFINE c == call[p]
           e == data[c.key]
<1>1. TypeOK /\ SizeExact /\ LockInv /\ CallInv(c) /\ c \in Calls /\ p \in Procs
  BY DEF IndexInv, Procs, TypeOK
<1>2. c.pc = "look" /\ c.key \in Keys /\ SinceBegin(c)
  BY <1>1 DEF Look, At, CallInv, Looking
<1>3. e \in Entries \cup {None}
  BY <1>1, <1>2 DEF TypeOK, Map
<1>4. /\ call' = [call EXCEPT ![p] = [c EXCEPT !.seen = e,
                                       !.pc = IF e = None THEN "absent" ELSE "check"]]
      /\ UNCHANGED <<data, size, now>> /\ Visible' = Visible
  BY DEF Look, Visible
<1>5. /\ call' \in [Procs -> Calls] /\ OnlyCall(p) /\ call'[p].at = c.at
      /\ call'[p].pc \in {"absent", "check"}
  BY <1>1, <1>3, <1>4 DEF TypeOK, OnlyCall, Calls
<1>6. c.at <= now
  BY <1>1 DEF LockInv
<1>7. CallInv(call[p])'
  <2>1. SinceBegin(call[p])'
    BY <1>1, <1>2, <1>4 DEF SinceBegin, TypeOK
  <2>2. Looking(call[p])'
    <3>1. Visible[c.key] = IF Expired(c.key, now) THEN None ELSE data[c.key]
      BY <1>1, <1>2, SeenNow
    <3>2. Visible[c.key] \in {None, c.start[c.key]}
      BY <1>2 DEF SinceBegin
    <3> QED BY <1>1, <1>2, <1>4, <3>1, <3>2 DEF Looking, TypeOK, Calls, Expired
  <2>3. Timed(call[p])' /\ Counting(call[p])' /\ Iterating(call[p])'
    BY <1>5 DEF Timed, Counting, Iterating
  <2> QED BY <2>1, <2>2, <2>3 DEF CallInv
<1>8. SizeExact' /\ data' \in Map /\ size' \in Int /\ now' = now
        /\ \A k \in Keys : data'[k] \in {None, data[k]}
  BY <1>1, <1>4 DEF SizeExact, TypeOK
<1>9. call[p].pc # "idle" /\ call'[p].at <= now /\ call'[p].pc # "released"
        /\ call'[p].pc \in {"idle", "look", "check", "recheck", "found", "absent"}
  BY <1>2, <1>5, <1>6
<1> QED BY <1>5, <1>7, <1>8, <1>9, ReadFrame

LEMMA CheckStep ==
    ASSUME IndexInv, NEW p \in Readers \cup {Writer}, Check(p)
    PROVE  IndexInv'
<1> DEFINE c == call[p]
           over == isExpired(c.seen.exp, now)
<1>1. TypeOK /\ SizeExact /\ LockInv /\ CallInv(c) /\ c \in Calls /\ p \in Procs
  BY DEF IndexInv, Procs, TypeOK
<1>2. c.pc = "check" /\ SinceBegin(c) /\ Looking(c)
  BY <1>1 DEF Check, At, CallInv
<1>3. /\ call' = [call EXCEPT ![p] = [c EXCEPT !.at = now,
                                       !.pc = IF over THEN "recheck" ELSE "found"]]
      /\ UNCHANGED <<data, size, now>> /\ Visible' = Visible
  BY DEF Check, Visible
<1>4. /\ call' \in [Procs -> Calls] /\ OnlyCall(p) /\ call'[p].at = now
      /\ call'[p].pc = IF over THEN "recheck" ELSE "found"
      /\ call'[p].key = c.key /\ call'[p].seen = c.seen /\ call'[p].start = c.start
  BY <1>1, <1>3 DEF TypeOK, OnlyCall, Calls
<1>5. now <= now
  BY <1>1, IndexConstants DEF TypeOK
<1>6. CallInv(call[p])'
  <2>1. SinceBegin(call[p])'
    BY <1>2, <1>3, <1>4 DEF SinceBegin
  <2>2. Looking(call[p])'
    BY <1>2, <1>3, <1>4 DEF Looking
  <2>3. Timed(call[p])' /\ Counting(call[p])' /\ Iterating(call[p])'
    BY <1>4 DEF Timed, Counting, Iterating
  <2> QED BY <2>1, <2>2, <2>3 DEF CallInv
<1>7. SizeExact' /\ data' \in Map /\ size' \in Int /\ now' = now
        /\ \A k \in Keys : data'[k] \in {None, data[k]}
  BY <1>1, <1>3 DEF SizeExact, TypeOK
<1>8. call[p].pc # "idle" /\ call'[p].at <= now /\ call'[p].pc # "released"
        /\ call'[p].pc \in {"idle", "look", "check", "recheck", "found", "absent"}
  BY <1>2, <1>4, <1>5
<1> QED BY <1>4, <1>6, <1>7, <1>8, ReadFrame

\* Whoever removed the entry meanwhile, it cannot be seen.
LEMMA RecheckStep ==
    ASSUME IndexInv, NEW p \in Readers \cup {Writer}, Recheck(p)
    PROVE  IndexInv'
<1> DEFINE c == call[p]
           k == c.key
<1>1. TypeOK /\ SizeExact /\ LockInv /\ CallInv(c) /\ c \in Calls /\ p \in Procs
  BY DEF IndexInv, Procs, TypeOK
<1>2. c.pc = "recheck" /\ SinceBegin(c) /\ Looking(c) /\ k \in Keys
  BY <1>1 DEF Recheck, At, CallInv, Looking
<1>3. call' = [call EXCEPT ![p].pc = "absent"] /\ now' = now
  BY DEF Recheck, Goto
<1>4. /\ call' \in [Procs -> Calls] /\ OnlyCall(p) /\ call'[p].at = c.at
      /\ call'[p].pc = "absent" /\ call'[p].key = k /\ call'[p].start = c.start
  BY <1>1, <1>3 DEF TypeOK, OnlyCall, Calls
<1>5. /\ data' \in Map /\ size' \in Int /\ SizeExact'
      /\ \A j \in Keys : data'[j] \in {None, data[j]}
      /\ data'[k] = IF Expired(k, now) THEN None ELSE data[k]
  <2>1. CASE Expired(k, now)
    <3>1. Drop({k}) /\ data \in Map
      BY <1>1, <2>1 DEF Recheck, TypeOK
    <3> QED BY <1>1, <1>2, <2>1, <3>1, DropOne
  <2>2. CASE ~Expired(k, now)
    BY <1>1, <2>2 DEF Recheck, SizeExact, TypeOK
  <2> QED BY <2>1, <2>2
<1>6. data \in Map /\ now \in 0..MaxTime /\ now \in now..MaxTime /\ c.at <= now
  BY <1>1, IndexConstants DEF TypeOK, LockInv
<1>7. \A j \in Keys : Visible'[j] \in {None, Visible[j]}
  BY <1>3, <1>5, <1>6, SeenLess DEF Visible
<1>8. Visible'[k] = None
  <2>1. data[k] \in {None, c.seen} /\ isExpired(c.seen.exp, c.at) /\ c.seen # None
    BY <1>2 DEF Looking
  <2>2. c.seen.exp \in Int /\ c.at \in Int /\ now \in Int
    BY <1>1, <2>1, EntryFields, IndexConstants DEF Calls, TypeOK
  <2>3. isExpired(c.seen.exp, now)
    BY <1>6, <2>1, <2>2, ExpiredStays
  <2>4. data'[k] = None
    BY <1>5, <2>1, <2>3 DEF Expired
  <2> QED BY <1>2, <1>3, <1>5, <1>6, <2>4, VisibleIs DEF Visible
<1>9. CallInv(call[p])'
  <2>1. SinceBegin(call[p])'
    BY <1>2, <1>4, <1>7 DEF SinceBegin
  <2>2. Looking(call[p])'
    BY <1>2, <1>4, <1>8 DEF Looking
  <2>3. Timed(call[p])' /\ Counting(call[p])' /\ Iterating(call[p])'
    BY <1>4 DEF Timed, Counting, Iterating
  <2> QED BY <2>1, <2>2, <2>3 DEF CallInv
<1>10. call[p].pc # "idle" /\ call'[p].at <= now /\ call'[p].pc # "released"
        /\ call'[p].pc \in {"idle", "look", "check", "recheck", "found", "absent"}
  BY <1>2, <1>4, <1>6
<1> QED BY <1>3, <1>4, <1>5, <1>9, <1>10, ReadFrame

\* The end of a call finds nothing.
LEMMA ReturnStep ==
    ASSUME IndexInv, NEW p \in Readers \cup {Writer}, Return(p), call[p].pc # "idle",
           UNCHANGED <<data, size, now>>
    PROVE  IndexInv'
<1>1. TypeOK /\ SizeExact /\ p \in Procs /\ now \in Nat
  BY IndexConstants DEF IndexInv, Procs, TypeOK
<1>2. call' \in [Procs -> Calls] /\ call'[p] = Idle /\ OnlyCall(p)
  BY <1>1, IdleType DEF Return, TypeOK, OnlyCall
<1>3. CallInv(call[p])' /\ call'[p].at <= now /\ call'[p].pc = "idle"
  BY <1>1, <1>2 DEF CallInv, Idle
<1>4. SizeExact' /\ data' \in Map /\ size' \in Int /\ now' = now
        /\ \A k \in Keys : data'[k] \in {None, data[k]}
  BY <1>1 DEF SizeExact, TypeOK
<1> QED BY <1>2, <1>3, <1>4, ReadFrame

LEMMA AnswerStep ==
    ASSUME IndexInv, NEW p \in Readers, Answer(p)
    PROVE  IndexInv'
<1>1. call[p].pc # "idle" /\ Return(p) /\ UNCHANGED <<data, size, now>>
  BY DEF Answer
<1> QED BY <1>1, ReturnStep

LEMMA RefuseStep == ASSUME IndexInv, Refuse PROVE IndexInv'
<1>1. call[Writer].pc # "idle" /\ Return(Writer) /\ UNCHANGED <<data, size, now>>
  BY DEF Refuse, At
<1> QED BY <1>1, ReturnStep

-----------------------------------------------------------------------------
(* MemIndex.Scan *)

\* SetToSeqs lists every element.
LEMMA SetToSeqsLists ==
    ASSUME NEW S, IsFiniteSet(S), NEW f \in SetToSeqs(S)
    PROVE  /\ f \in Seq(S) /\ Len(f) \in Nat
           /\ \A x \in S : \E i \in 1..Len(f) : f[i] = x
<1> DEFINE n == Cardinality(S)
<1>1. n \in Nat
  BY FS_CardinalityType
<1>2. f \in [1..n -> S] /\ \A i, j \in 1..n : i # j => f[i] # f[j]
  BY DEF SetToSeqs
<1>3. f \in Injection(1..n, S)
  BY <1>2 DEF Injection, IsInjective
<1>4. IsFiniteSet(1..n) /\ Cardinality(1..n) = n
  BY <1>1, FS_Interval
<1>5. f \in Surjection(1..n, S)
  BY <1>3, <1>4, FS_Injection
<1>6. f \in Seq(S)
  BY <1>1, <1>2, SeqDef
<1>7. DOMAIN f = 1..Len(f) /\ Len(f) \in Nat
  BY <1>6, LenProperties
<1> QED BY <1>2, <1>5, <1>6, <1>7 DEF Surjection

\* Sorted keys, cut at a limit: what is cut sorts after what is left.
LEMMA CutSorted ==
    ASSUME NEW s \in Seq(Keys), InOrder(s), NEW n \in Nat
    PROVE  /\ Cut(s, n) \in Seq(Keys) /\ InOrder(Cut(s, n))
           /\ \A i \in 1..Len(s) :
                 \/ \E j \in 1..Len(Cut(s, n)) : Cut(s, n)[j] = s[i]
                 \/ n # 0 /\ \A j \in 1..Len(Cut(s, n)) : Cut(s, n)[j] < s[i]
<1> DEFINE t == Cut(s, n)
<1>1. CASE ~(n > 0 /\ Len(s) > n)
  BY <1>1 DEF Cut
<1>2. CASE n > 0 /\ Len(s) > n
  <2>1. Len(s) \in Nat /\ \A i \in 1..n : s[i] \in Keys
    BY <1>2, ElementOfSeq, LenProperties
  <2>2. t = SubSeq(s, 1, n)
    BY <1>2 DEF Cut
  <2>3. t \in Seq(Keys) /\ Len(t) = n /\ \A i \in 1..n : t[i] = s[i]
    BY <1>2, <2>1, <2>2, SubSeqProperties
  <2> HIDE DEF t
  <2>4. InOrder(t)
    BY <1>2, <2>1, <2>3 DEF InOrder
  <2>5. ASSUME NEW i \in 1..Len(s)
        PROVE  \/ \E j \in 1..Len(t) : t[j] = s[i]
               \/ n # 0 /\ \A j \in 1..Len(t) : t[j] < s[i]
    <3>1. CASE i <= n
      <4>1. i \in 1..Len(t) /\ t[i] = s[i]
        BY <2>1, <2>3, <3>1
      <4> QED BY <4>1
    <3>2. CASE i > n
      BY <1>2, <2>1, <2>3, <3>2 DEF InOrder
    <3> QED BY <2>1, <3>1, <3>2
  <2> QED BY <2>3, <2>4, <2>5 DEF t
<1> QED BY <1>1, <1>2

LEMMA CollectStep ==
    ASSUME IndexInv, NEW p \in Readers, Collect(p)
    PROVE  IndexInv'
<1> DEFINE c == call[p]
<1>1. TypeOK /\ SizeExact /\ LockInv /\ CallInv(c) /\ c \in Calls /\ p \in Procs
  BY DEF IndexInv, Procs, TypeOK
<1>2. c.pc = "collect" /\ SinceBegin(c) /\ Timed(c) /\ c.got = NoEntries
  BY <1>1 DEF Collect, At, CallInv, Iterating
<1>3. PICK keys \in SetToSeqs(Present(data)) :
        InOrder(keys) /\ call' = [call EXCEPT ![p].pc = "visit", ![p].todo = Cut(keys, c.limit)]
  BY DEF Collect
<1> DEFINE t == Cut(keys, c.limit)
<1>4. IsFiniteSet(Present(data)) /\ Present(data) \subseteq Keys
  BY IndexConstants, FS_Subset DEF Present
<1>5. keys \in Seq(Present(data)) /\ \A k \in Present(data) : \E i \in 1..Len(keys) : keys[i] = k
  BY <1>4, SetToSeqsLists
<1>6. keys \in Seq(Keys) /\ c.limit \in Nat
  <2>1. c.limit \in Limits \cup {0}
    BY <1>1 DEF Calls
  <2>2. c.limit \in Nat
    <3>1. \A n \in Limits \cup {0} : n \in Nat
      BY IndexConstants
    <3> QED BY <2>1, <3>1
  <2>3. keys \in Seq(Keys)
    BY <1>4, <1>5, SeqMonotonic
  <2> QED BY <2>2, <2>3
<1>7. /\ t \in Seq(Keys) /\ InOrder(t)
      /\ \A i \in 1..Len(keys) :
            \/ \E j \in 1..Len(t) : t[j] = keys[i]
            \/ c.limit # 0 /\ \A j \in 1..Len(t) : t[j] < keys[i]
  BY <1>3, <1>6, CutSorted
<1>8. call' = [call EXCEPT ![p].pc = "visit", ![p].todo = t]
  BY <1>3
<1>9. UNCHANGED <<data, size, now>> /\ Visible' = Visible
  BY DEF Collect, Visible
<1> HIDE DEF t
<1>10. /\ call' \in [Procs -> Calls] /\ OnlyCall(p) /\ call'[p].at = c.at
       /\ call'[p].pc = "visit" /\ call'[p].todo = t /\ call'[p].start = c.start
       /\ call'[p].got = NoEntries /\ call'[p].limit = c.limit
  BY <1>1, <1>2, <1>7, <1>8 DEF TypeOK, OnlyCall, Calls
<1>11. CallInv(call[p])'
  <2>1. SinceBegin(call[p])' /\ Timed(call[p])'
    BY <1>2, <1>9, <1>10 DEF SinceBegin, Timed
  <2>2. Looking(call[p])' /\ Counting(call[p])'
    BY <1>10 DEF Looking, Counting
  <2>3. Present(NoEntries) = {} /\ \A k \in Keys : NoEntries[k] = None
    BY DEF Present, NoEntries
  <2>4. ASSUME NEW k \in Keys
        PROVE  \/ Visible[k] = None
               \/ \E j \in 1..Len(t) : t[j] = k
               \/ c.limit # 0 /\ \A j \in 1..Len(t) : t[j] < k
    <3>1. CASE k \notin Present(data)
      BY <1>1, <3>1, SeenNow DEF Present
    <3>2. CASE k \in Present(data)
      BY <1>5, <1>7, <3>2
    <3> QED BY <3>1, <3>2
  <2>5. Iterating(call[p])'
    BY <1>7, <1>9, <1>10, <2>3, <2>4 DEF Iterating, Left
  <2> QED BY <2>1, <2>2, <2>5 DEF CallInv
<1>12. SizeExact' /\ data' \in Map /\ size' \in Int /\ now' = now
        /\ \A k \in Keys : data'[k] \in {None, data[k]}
  BY <1>1, <1>9 DEF SizeExact, TypeOK
<1>13. call[p].pc # "idle" /\ call'[p].at <= now /\ call'[p].pc # "released" /\ p # Writer
  BY <1>1, <1>2, <1>10, IndexConstants DEF LockInv
<1> QED BY <1>10, <1>11, <1>12, <1>13, ReadFrame

\* The head of the keys that are left, and the tail.
LEMMA HeadAndTail ==
    ASSUME NEW s \in Seq(Keys), s # << >>
    PROVE  /\ Head(s) \in Keys /\ Tail(s) \in Seq(Keys)
           /\ \A j : (\E i \in 1..Len(s) : s[i] = j) =>
                        j = Head(s) \/ \E i \in 1..Len(Tail(s)) : Tail(s)[i] = j
           /\ \A j : (\E i \in 1..Len(Tail(s)) : Tail(s)[i] = j) =>
                        \E i \in 1..Len(s) : s[i] = j
           /\ \E i \in 1..Len(s) : s[i] = Head(s)
           /\ InOrder(s) => InOrder(Tail(s)) /\ \A i \in 1..Len(Tail(s)) : Head(s) < Tail(s)[i]
<1>1. /\ Head(s) \in Keys /\ Tail(s) \in Seq(Keys) /\ Len(Tail(s)) = Len(s) - 1
      /\ \A i \in 1..Len(Tail(s)) : Tail(s)[i] = s[i + 1]
  BY HeadTailProperties
<1>2. Len(s) \in Nat /\ Len(s) >= 1 /\ Head(s) = s[1]
  BY EmptySeq
<1>3. ASSUME NEW i \in 1..Len(s)
      PROVE  s[i] = Head(s) \/ \E j \in 1..Len(Tail(s)) : Tail(s)[j] = s[i]
  <2>1. CASE i = 1
    BY <1>2, <2>1
  <2>2. CASE i # 1
    <3>1. i - 1 \in 1..Len(Tail(s)) /\ Tail(s)[i - 1] = s[(i - 1) + 1] /\ (i - 1) + 1 = i
      BY <1>1, <1>2, <2>2
    <3> QED BY <3>1
  <2> QED BY <2>1, <2>2
<1>4. ASSUME NEW i \in 1..Len(Tail(s))
      PROVE  \E j \in 1..Len(s) : s[j] = Tail(s)[i]
  <2>1. i + 1 \in 1..Len(s) /\ Tail(s)[i] = s[i + 1]
    BY <1>1, <1>2
  <2> QED BY <2>1
<1>5. 1 \in 1..Len(s)
  BY <1>2
<1>6. ASSUME InOrder(s)
      PROVE  InOrder(Tail(s)) /\ \A i \in 1..Len(Tail(s)) : Head(s) < Tail(s)[i]
  <2>1. ASSUME NEW i \in 1..Len(Tail(s)), NEW j \in 1..Len(Tail(s)), i < j
        PROVE  Tail(s)[i] < Tail(s)[j]
    <3>1. i + 1 \in 1..Len(s) /\ j + 1 \in 1..Len(s) /\ i + 1 < j + 1
      BY <1>1, <1>2, <2>1
    <3> QED BY <1>1, <1>6, <3>1 DEF InOrder
  <2>2. ASSUME NEW i \in 1..Len(Tail(s)) PROVE Head(s) < Tail(s)[i]
    <3>1. i + 1 \in 1..Len(s) /\ 1 < i + 1
      BY <1>1, <1>2
    <3> QED BY <1>1, <1>2, <1>5, <1>6, <3>1 DEF InOrder
  <2> QED BY <2>1, <2>2 DEF InOrder
<1> QED BY <1>1, <1>2, <1>3, <1>4, <1>5, <1>6

LEMMA VisitStep ==
    ASSUME IndexInv, NEW p \in Readers, Visit(p)
    PROVE  IndexInv'
<1> DEFINE c == call[p]
           k == Head(c.todo)
<1>1. TypeOK /\ SizeExact /\ LockInv /\ CallInv(c) /\ c \in Calls /\ p \in Procs
  BY DEF IndexInv, Procs, TypeOK
<1>2. c.pc = "visit" /\ c.todo # << >> /\ SinceBegin(c) /\ Timed(c) /\ Iterating(c)
  BY <1>1 DEF Visit, At, CallInv
<1>3. UNCHANGED <<data, size, now>> /\ Visible' = Visible
  BY DEF Visit, Visible
<1>4. c.todo \in Seq(Keys)
  BY <1>1 DEF Calls
<1>5. k \in Keys /\ Tail(c.todo) \in Seq(Keys) /\ data[k] \in Entries \cup {None}
  BY <1>1, <1>2, <1>4, HeadAndTail DEF TypeOK, Map
<1>6. SizeExact' /\ data' \in Map /\ size' \in Int /\ now' = now
        /\ \A j \in Keys : data'[j] \in {None, data[j]}
  BY <1>1, <1>3 DEF SizeExact, TypeOK
<1>7. call[p].pc # "idle" /\ c.at <= now /\ p # Writer
  BY <1>1, <1>2, IndexConstants DEF LockInv
<1>8. CASE Expired(k, c.at)
  <2>1. call' = [call EXCEPT ![p].pc = "purge"]
    BY <1>8 DEF Visit, Goto
  <2>2. /\ call' \in [Procs -> Calls] /\ OnlyCall(p)
        /\ call'[p].pc = "purge" /\ call'[p].todo = c.todo /\ call'[p].start = c.start
        /\ call'[p].got = c.got /\ call'[p].limit = c.limit /\ call'[p].at = c.at
    BY <1>1, <2>1 DEF TypeOK, OnlyCall, Calls
  <2>3. SinceBegin(call[p])' /\ Timed(call[p])'
    BY <1>2, <1>3, <2>2 DEF SinceBegin, Timed
  <2>4. Looking(call[p])' /\ Counting(call[p])'
    BY <2>2 DEF Looking, Counting
  <2>5. Iterating(call[p])'
    BY <1>2, <1>3, <1>8, <2>2 DEF Iterating, Left, Expired
  <2>6. CallInv(call[p])'
    BY <2>3, <2>4, <2>5 DEF CallInv
  <2> QED BY <1>6, <1>7, <2>2, <2>6, ReadFrame
<1>9. CASE ~Expired(k, c.at)
  <2>1. call' = [call EXCEPT ![p] = [c EXCEPT !.got = [c.got EXCEPT ![k] = data[k]],
                                             !.todo = Tail(c.todo)]]
    BY <1>9 DEF Visit
  <2>2. [c.got EXCEPT ![k] = data[k]] \in Map /\ c.got \in Map
    BY <1>1, <1>5 DEF Calls, Map
  <2>3. /\ call' \in [Procs -> Calls] /\ OnlyCall(p)
        /\ call'[p].pc = "visit" /\ call'[p].todo = Tail(c.todo) /\ call'[p].start = c.start
        /\ call'[p].got = [c.got EXCEPT ![k] = data[k]]
        /\ call'[p].limit = c.limit /\ call'[p].at = c.at
    BY <1>1, <1>2, <1>5, <2>1, <2>2 DEF TypeOK, OnlyCall, Calls
  <2>4. \A j \in Keys : call'[p].got[j] = IF j = k THEN data[k] ELSE c.got[j]
    BY <2>2, <2>3 DEF Map
  <2>5. SinceBegin(call[p])' /\ Timed(call[p])'
    BY <1>2, <1>3, <2>3 DEF SinceBegin, Timed
  <2>6. Looking(call[p])' /\ Counting(call[p])'
    BY <2>3 DEF Looking, Counting
  <2>7. data[k] \in {None, c.start[k]}
    BY <1>2, <1>5, <1>9 DEF Timed, Expired
  <2>8. Visible[k] \in {None, data[k]}
    BY <1>1, <1>5, SeenNow
  <2>9. \A j : Left(c, j) => j = k \/ Left(call'[p], j)
    <3>1. \A j : (\E i \in 1..Len(c.todo) : c.todo[i] = j) =>
                   j = k \/ \E i \in 1..Len(Tail(c.todo)) : Tail(c.todo)[i] = j
      BY <1>2, <1>4, HeadAndTail
    <3> HIDE DEF k
    <3> QED BY <2>3, <3>1 DEF Left
  <2>10. (\A j : Left(call'[p], j) => Left(c, j)) /\ Left(c, k)
    BY <1>2, <1>4, <2>3, HeadAndTail DEF Left
  <2>11. InOrder(call'[p].todo) /\ \A i \in 1..Len(call'[p].todo) : k < call'[p].todo[i]
    BY <1>2, <1>4, <2>3, HeadAndTail DEF Iterating
  <2>12. \A j \in Present(c.got), i \in 1..Len(Tail(c.todo)) : j < Tail(c.todo)[i]
    <3>1. \A i \in 1..Len(Tail(c.todo)) :
             \E h \in 1..Len(c.todo) : c.todo[h] = Tail(c.todo)[i]
      BY <1>2, <1>4, HeadAndTail
    <3> QED BY <1>2, <3>1 DEF Iterating
  <2>13. \A j \in Keys : call'[p].got[j] \in {None, c.start[j]}
    BY <1>2, <2>4, <2>7 DEF Iterating
  <2>14. ASSUME NEW j \in Keys
         PROVE  \/ Visible[j] \in {None, call'[p].got[j]}
                \/ Left(call'[p], j)
                \/ /\ c.limit # 0
                   /\ \A i \in Keys : call'[p].got[i] # None \/ Left(call'[p], i) => i < j
    <3>1. CASE j = k
      BY <2>4, <2>8, <3>1
    <3>2. CASE j # k
      BY <1>2, <2>4, <2>9, <2>10, <3>2 DEF Iterating
    <3> QED BY <3>1, <3>2
  <2>15. Iterating(call[p])'
    BY <1>3, <2>3, <2>4, <2>11, <2>12, <2>13, <2>14 DEF Iterating, Left, Present
  <2>16. CallInv(call[p])'
    BY <2>5, <2>6, <2>15 DEF CallInv
  <2> QED BY <1>6, <1>7, <2>3, <2>16, ReadFrame
<1> QED BY <1>8, <1>9

LEMMA PurgeStep ==
    ASSUME IndexInv, NEW p \in Readers, Purge(p)
    PROVE  IndexInv'
<1> DEFINE c == call[p]
           k == Head(c.todo)
<1>1. TypeOK /\ SizeExact /\ LockInv /\ CallInv(c) /\ c \in Calls /\ p \in Procs
  BY DEF IndexInv, Procs, TypeOK
<1>2. c.pc = "purge" /\ c.todo # << >> /\ SinceBegin(c) /\ Timed(c) /\ Iterating(c)
  BY <1>1 DEF Purge, At, CallInv, Iterating
<1>3. c.todo \in Seq(Keys)
  BY <1>1 DEF Calls
<1>4. k \in Keys /\ Tail(c.todo) \in Seq(Keys)
  BY <1>2, <1>3, HeadAndTail
<1>5. call' = [call EXCEPT ![p].pc = "visit", ![p].todo = Tail(c.todo)] /\ now' = now
  BY DEF Purge
<1>6. /\ call' \in [Procs -> Calls] /\ OnlyCall(p)
      /\ call'[p].pc = "visit" /\ call'[p].todo = Tail(c.todo) /\ call'[p].start = c.start
      /\ call'[p].got = c.got /\ call'[p].limit = c.limit /\ call'[p].at = c.at
  BY <1>1, <1>4, <1>5 DEF TypeOK, OnlyCall, Calls
<1>7. /\ data' \in Map /\ size' \in Int /\ SizeExact'
      /\ \A j \in Keys : data'[j] \in {None, data[j]}
      /\ data'[k] = IF Expired(k, c.at) THEN None ELSE data[k]
  <2>1. CASE Expired(k, c.at)
    <3>1. Drop({k}) /\ data \in Map
      BY <1>1, <2>1 DEF Purge, TypeOK
    <3> QED BY <1>1, <1>4, <2>1, <3>1, DropOne
  <2>2. CASE ~Expired(k, c.at)
    BY <1>1, <2>2 DEF Purge, SizeExact, TypeOK
  <2> QED BY <2>1, <2>2
<1>8. data \in Map /\ now \in 0..MaxTime /\ now \in now..MaxTime /\ c.at <= now
  BY <1>1, IndexConstants DEF TypeOK, LockInv
<1>9. \A j \in Keys : Visible'[j] \in {None, Visible[j]}
  BY <1>5, <1>7, <1>8, SeenLess DEF Visible
<1>10. Visible'[k] = None
  <2>1. data'[k] = None
    BY <1>2, <1>7 DEF Iterating, Expired
  <2> QED BY <1>4, <1>5, <1>7, <1>8, <2>1, VisibleIs DEF Visible
<1>11. CallInv(call[p])'
  <2>1. SinceBegin(call[p])'
    BY <1>2, <1>6, <1>9 DEF SinceBegin
  <2>2. Timed(call[p])'
    BY <1>2, <1>6, <1>7 DEF Timed
  <2>3. Looking(call[p])' /\ Counting(call[p])'
    BY <1>6 DEF Looking, Counting
  <2>4. \A j : Left(c, j) => j = k \/ Left(call'[p], j)
    <3>1. \A j : (\E i \in 1..Len(c.todo) : c.todo[i] = j) =>
                   j = k \/ \E i \in 1..Len(Tail(c.todo)) : Tail(c.todo)[i] = j
      BY <1>2, <1>3, HeadAndTail
    <3> HIDE DEF k
    <3> QED BY <1>6, <3>1 DEF Left
  <2>5. \A j : Left(call'[p], j) => Left(c, j)
    BY <1>2, <1>3, <1>6, HeadAndTail DEF Left
  <2>6. InOrder(call'[p].todo)
    BY <1>2, <1>3, <1>6, HeadAndTail DEF Iterating
  <2>7. \A j \in Present(c.got), i \in 1..Len(Tail(c.todo)) : j < Tail(c.todo)[i]
    <3>1. \A i \in 1..Len(Tail(c.todo)) :
             \E h \in 1..Len(c.todo) : c.todo[h] = Tail(c.todo)[i]
      BY <1>2, <1>3, HeadAndTail
    <3> QED BY <1>2, <3>1 DEF Iterating
  <2>8. ASSUME NEW j \in Keys
         PROVE  \/ Visible'[j] \in {None, c.got[j]}
                \/ Left(call'[p], j)
                \/ /\ c.limit # 0
                   /\ \A i \in Keys : c.got[i] # None \/ Left(call'[p], i) => i < j
    <3>1. CASE j = k
      BY <1>10, <3>1
    <3>2. CASE j # k
      BY <1>2, <1>9, <2>4, <2>5, <3>2 DEF Iterating
    <3> QED BY <3>1, <3>2
  <2>9. \A j \in Keys : c.got[j] \in {None, c.start[j]}
    BY <1>2 DEF Iterating
  <2>10. Iterating(call[p])'
    BY <1>6, <2>6, <2>7, <2>8, <2>9 DEF Iterating, Left
  <2> QED BY <2>1, <2>2, <2>3, <2>10 DEF CallInv
<1>12. call[p].pc # "idle" /\ p # Writer
  BY <1>2, IndexConstants
<1> QED BY <1>5, <1>6, <1>7, <1>8, <1>11, <1>12, ReadFrame

LEMMA EndScanStep ==
    ASSUME IndexInv, NEW p \in Readers, EndScan(p)
    PROVE  IndexInv'
<1> DEFINE c == call[p]
<1>1. TypeOK /\ SizeExact /\ LockInv /\ CallInv(c) /\ c \in Calls /\ p \in Procs
  BY DEF IndexInv, Procs, TypeOK
<1>2. c.pc = "visit" /\ c.todo = << >> /\ SinceBegin(c) /\ Iterating(c)
  BY <1>1 DEF EndScan, At, CallInv
<1>3. UNCHANGED <<data, size, now>> /\ Visible' = Visible
        /\ call' = [call EXCEPT ![p].pc = "scanned"]
  BY DEF EndScan, Goto, Visible
<1>4. /\ call' \in [Procs -> Calls] /\ OnlyCall(p)
      /\ call'[p].pc = "scanned" /\ call'[p].todo = << >> /\ call'[p].start = c.start
      /\ call'[p].got = c.got /\ call'[p].limit = c.limit /\ call'[p].at = c.at
  BY <1>1, <1>2, <1>3 DEF TypeOK, OnlyCall, Calls
<1>5. SizeExact' /\ data' \in Map /\ size' \in Int /\ now' = now
        /\ \A j \in Keys : data'[j] \in {None, data[j]}
  BY <1>1, <1>3 DEF SizeExact, TypeOK
<1>6. call[p].pc # "idle" /\ c.at <= now /\ p # Writer
  BY <1>1, <1>2, IndexConstants DEF LockInv
<1>7. CallInv(call[p])'
  <2>1. SinceBegin(call[p])'
    BY <1>2, <1>3, <1>4 DEF SinceBegin
  <2>2. Timed(call[p])' /\ Looking(call[p])' /\ Counting(call[p])'
    BY <1>4 DEF Timed, Looking, Counting
  <2>3. Iterating(call[p])'
    BY <1>2, <1>3, <1>4 DEF Iterating, Left
  <2> QED BY <2>1, <2>2, <2>3 DEF CallInv
<1> QED BY <1>4, <1>5, <1>6, <1>7, ReadFrame

-----------------------------------------------------------------------------
(* MemIndex.Keys *)

LEMMA ListStep ==
    ASSUME IndexInv, NEW p \in Readers, List(p)
    PROVE  IndexInv'
<1> DEFINE c == call[p]
<1>1. TypeOK /\ SizeExact /\ LockInv /\ CallInv(c) /\ c \in Calls /\ p \in Procs
  BY DEF IndexInv, Procs, TypeOK
<1>2. c.pc = "list" /\ SinceBegin(c) /\ c.got = NoEntries
  BY <1>1 DEF List, At, CallInv, Iterating
<1>3. PICK order \in SetToSeqs(Present(data)) :
        call' = [call EXCEPT ![p].pc = "match", ![p].todo = order]
  BY DEF List
<1>4. IsFiniteSet(Present(data)) /\ Present(data) \subseteq Keys
  BY IndexConstants, FS_Subset DEF Present
<1>5. order \in Seq(Present(data)) /\ \A k \in Present(data) : \E i \in 1..Len(order) : order[i] = k
  BY <1>4, SetToSeqsLists
<1>6. order \in Seq(Keys)
  BY <1>4, <1>5, SeqMonotonic
<1>7. UNCHANGED <<data, size, now>> /\ Visible' = Visible
  BY DEF List, Visible
<1>8. /\ call' \in [Procs -> Calls] /\ OnlyCall(p) /\ call'[p].at = c.at
      /\ call'[p].pc = "match" /\ call'[p].todo = order /\ call'[p].start = c.start
      /\ call'[p].got = NoEntries
  BY <1>1, <1>2, <1>3, <1>6 DEF TypeOK, OnlyCall, Calls
<1>9. CallInv(call[p])'
  <2>1. SinceBegin(call[p])'
    BY <1>2, <1>7, <1>8 DEF SinceBegin
  <2>2. Timed(call[p])' /\ Looking(call[p])' /\ Counting(call[p])'
    BY <1>8 DEF Timed, Looking, Counting
  <2>3. \A k \in Keys : NoEntries[k] = None
    BY DEF NoEntries
  <2>4. \A k \in Keys : Visible[k] = None \/ \E i \in 1..Len(order) : order[i] = k
    BY <1>1, <1>5, SeenNow DEF Present
  <2>5. Iterating(call[p])'
    BY <1>7, <1>8, <2>3, <2>4 DEF Iterating, Left
  <2> QED BY <2>1, <2>2, <2>5 DEF CallInv
<1>10. SizeExact' /\ data' \in Map /\ size' \in Int /\ now' = now
        /\ \A k \in Keys : data'[k] \in {None, data[k]}
  BY <1>1, <1>7 DEF SizeExact, TypeOK
<1>11. call[p].pc # "idle" /\ c.at <= now /\ p # Writer
  BY <1>1, <1>2, IndexConstants DEF LockInv
<1> QED BY <1>8, <1>9, <1>10, <1>11, ReadFrame

LEMMA MatchStep ==
    ASSUME IndexInv, NEW p \in Readers, Match(p)
    PROVE  IndexInv'
<1> DEFINE c == call[p]
           k == Head(c.todo)
           e == IF Expired(k, now) THEN None ELSE data[k]
<1>1. TypeOK /\ SizeExact /\ LockInv /\ CallInv(c) /\ c \in Calls /\ p \in Procs
  BY DEF IndexInv, Procs, TypeOK
<1>2. c.pc = "match" /\ c.todo # << >> /\ SinceBegin(c) /\ Iterating(c)
  BY <1>1 DEF Match, At, CallInv
<1>3. UNCHANGED <<data, size, now>> /\ Visible' = Visible
        /\ call' = [call EXCEPT ![p] = [c EXCEPT !.got = [c.got EXCEPT ![k] = e],
                                                 !.todo = Tail(c.todo)]]
  BY DEF Match, Visible
<1>4. c.todo \in Seq(Keys)
  BY <1>1 DEF Calls
<1>5. k \in Keys /\ Tail(c.todo) \in Seq(Keys)
  BY <1>1, <1>2, <1>4, HeadAndTail
<1>6. e = Visible[k] /\ e \in Entries \cup {None}
  BY <1>1, <1>5, SeenNow DEF Map
<1> HIDE DEF e
<1>7. [c.got EXCEPT ![k] = e] \in Map /\ c.got \in Map
  BY <1>1, <1>5, <1>6 DEF Calls, Map
<1>8. /\ call' \in [Procs -> Calls] /\ OnlyCall(p)
      /\ call'[p].pc = "match" /\ call'[p].todo = Tail(c.todo) /\ call'[p].start = c.start
      /\ call'[p].got = [c.got EXCEPT ![k] = e] /\ call'[p].at = c.at
  BY <1>1, <1>2, <1>3, <1>5, <1>7 DEF TypeOK, OnlyCall, Calls
<1>9. \A j \in Keys : call'[p].got[j] = IF j = k THEN e ELSE c.got[j]
  BY <1>7, <1>8 DEF Map
<1>10. \A j : Left(c, j) => j = k \/ Left(call'[p], j)
  <2>1. \A j : (\E i \in 1..Len(c.todo) : c.todo[i] = j) =>
                 j = k \/ \E i \in 1..Len(Tail(c.todo)) : Tail(c.todo)[i] = j
    BY <1>2, <1>4, HeadAndTail
  <2> HIDE DEF k
  <2> QED BY <1>8, <2>1 DEF Left
<1>11. CallInv(call[p])'
  <2>1. SinceBegin(call[p])'
    BY <1>2, <1>3, <1>8 DEF SinceBegin
  <2>2. Timed(call[p])' /\ Looking(call[p])' /\ Counting(call[p])'
    BY <1>8 DEF Timed, Looking, Counting
  <2>3. ASSUME NEW j \in Keys
        PROVE  /\ call'[p].got[j] \in {None, c.start[j]}
               /\ Visible[j] \in {None, call'[p].got[j]} \/ Left(call'[p], j)
    <3>1. CASE j = k
      BY <1>2, <1>6, <1>9, <3>1 DEF SinceBegin
    <3>2. CASE j # k
      BY <1>2, <1>9, <1>10, <3>2 DEF Iterating
    <3> QED BY <3>1, <3>2
  <2>4. Iterating(call[p])'
    BY <1>3, <1>8, <2>3 DEF Iterating, Left
  <2> QED BY <2>1, <2>2, <2>4 DEF CallInv
<1>12. SizeExact' /\ data' \in Map /\ size' \in Int /\ now' = now
        /\ \A j \in Keys : data'[j] \in {None, data[j]}
  BY <1>1, <1>3 DEF SizeExact, TypeOK
<1>13. call[p].pc # "idle" /\ c.at <= now /\ p # Writer
  BY <1>1, <1>2, IndexConstants DEF LockInv
<1> QED BY <1>8, <1>11, <1>12, <1>13, ReadFrame

LEMMA EndKeysStep ==
    ASSUME IndexInv, NEW p \in Readers, EndKeys(p)
    PROVE  IndexInv'
<1> DEFINE c == call[p]
<1>1. TypeOK /\ SizeExact /\ LockInv /\ CallInv(c) /\ c \in Calls /\ p \in Procs
  BY DEF IndexInv, Procs, TypeOK
<1>2. c.pc = "match" /\ c.todo = << >> /\ SinceBegin(c) /\ Iterating(c)
  BY <1>1 DEF EndKeys, At, CallInv
<1>3. UNCHANGED <<data, size, now>> /\ Visible' = Visible
        /\ call' = [call EXCEPT ![p].pc = "listed"]
  BY DEF EndKeys, Goto, Visible
<1>4. /\ call' \in [Procs -> Calls] /\ OnlyCall(p)
      /\ call'[p].pc = "listed" /\ call'[p].todo = << >> /\ call'[p].start = c.start
      /\ call'[p].got = c.got /\ call'[p].at = c.at
  BY <1>1, <1>2, <1>3 DEF TypeOK, OnlyCall, Calls
<1>5. SizeExact' /\ data' \in Map /\ size' \in Int /\ now' = now
        /\ \A j \in Keys : data'[j] \in {None, data[j]}
  BY <1>1, <1>3 DEF SizeExact, TypeOK
<1>6. call[p].pc # "idle" /\ c.at <= now /\ p # Writer
  BY <1>1, <1>2, IndexConstants DEF LockInv
<1>7. CallInv(call[p])'
  <2>1. SinceBegin(call[p])'
    BY <1>2, <1>3, <1>4 DEF SinceBegin
  <2>2. Timed(call[p])' /\ Looking(call[p])' /\ Counting(call[p])'
    BY <1>4 DEF Timed, Looking, Counting
  <2>3. Iterating(call[p])'
    BY <1>2, <1>3, <1>4 DEF Iterating, Left
  <2> QED BY <2>1, <2>2, <2>3 DEF CallInv
<1> QED BY <1>4, <1>5, <1>6, <1>7, ReadFrame

-----------------------------------------------------------------------------
(* MemIndex.Count and MemIndex.Size *)

LEMMA SweepData ==
    ASSUME TypeOK, SizeExact, NEW p \in Procs, Sweep(p)
    PROVE  /\ data' \in Map /\ size' \in Int /\ SizeExact'
           /\ \A k \in Keys : data'[k] = IF Expired(k, call[p].at) THEN None ELSE data[k]
<1> DEFINE K == {k \in Keys : Expired(k, call[p].at)}
<1>1. Drop(K) /\ K \in SUBSET Keys /\ data \in Map
  BY DEF Sweep, TypeOK
<1>2. \A k \in Keys : k \in K <=> Expired(k, call[p].at)
  OBVIOUS
<1> HIDE DEF K
<1> QED BY <1>1, <1>2, DropStep

LEMMA SweepStep ==
    ASSUME IndexInv, NEW p \in Readers, Sweep(p)
    PROVE  IndexInv'
<1> DEFINE c == call[p]
           K == {k \in Keys : Expired(k, c.at)}
           n == Cardinality(Present(data) \ K)
<1>1. TypeOK /\ SizeExact /\ LockInv /\ CallInv(c) /\ c \in Calls /\ p \in Procs
  BY DEF IndexInv, Procs, TypeOK
<1>2. c.pc = "sweep" /\ SinceBegin(c) /\ Timed(c) /\ c.start \in Map
  BY <1>1 DEF Sweep, At, CallInv, Calls
<1>3. p # Cleaner /\ p # Writer
  BY IndexConstants
<1>4. call' = [call EXCEPT ![p].pc = "counted", ![p].count = n] /\ now' = now
  BY <1>3 DEF Sweep
<1>5. /\ data' \in Map /\ size' \in Int /\ SizeExact'
      /\ \A k \in Keys : data'[k] = IF Expired(k, c.at) THEN None ELSE data[k]
  BY <1>1, SweepData
<1>6. Present(data) \ K = Present(data')
  BY <1>5 DEF Present
<1>7. \A k \in Keys : data'[k] \in {None, c.start[k]}
  BY <1>2, <1>5 DEF Timed, Expired
<1>8. now \in 0..MaxTime /\ now \in now..MaxTime /\ c.at <= now /\ data \in Map
  BY <1>1, IndexConstants DEF TypeOK, LockInv
<1>9. Visible' \in Map /\ \A k \in Keys : Visible'[k] \in {None, data'[k]}
  BY <1>4, <1>5, <1>8, VisibleIs DEF Visible
<1>10. n \in Nat /\ Cardinality(Present(Visible')) <= n /\ n <= Cardinality(Present(c.start))
  BY <1>2, <1>5, <1>6, <1>7, <1>9, PresentLess
<1>11. n \in 0..Cardinality(Keys)
  <2>1. IsFiniteSet(Keys) /\ Present(data') \in SUBSET Keys
    BY IndexConstants DEF Present
  <2> QED BY <1>6, <1>10, <2>1, FS_Subset, FS_CardinalityType
<1> HIDE DEF n
<1>12. /\ call' \in [Procs -> Calls] /\ OnlyCall(p) /\ call'[p].at = c.at
       /\ call'[p].pc = "counted" /\ call'[p].count = n /\ call'[p].start = c.start
  BY <1>1, <1>4, <1>11 DEF TypeOK, OnlyCall, Calls
<1>13. CallInv(call[p])'
  <2>1. SinceBegin(call[p])'
    <3>1. \A k \in Keys : Visible'[k] \in {None, Visible[k]}
      BY <1>4, <1>5, <1>8, SeenLess DEF Visible
    <3> QED BY <1>2, <1>12, <3>1 DEF SinceBegin
  <2>2. Timed(call[p])'
    BY <1>7, <1>12 DEF Timed
  <2>3. Counting(call[p])'
    BY <1>7, <1>10, <1>12 DEF Counting
  <2>4. Looking(call[p])' /\ Iterating(call[p])'
    BY <1>12 DEF Looking, Iterating
  <2> QED BY <2>1, <2>2, <2>3, <2>4 DEF CallInv
<1>14. \A k \in Keys : data'[k] \in {None, data[k]}
  BY <1>5
<1> QED BY <1>2, <1>3, <1>4, <1>5, <1>8, <1>12, <1>13, <1>14, ReadFrame

LEMMA MeasureStep ==
    ASSUME IndexInv, NEW p \in Readers, Measure(p)
    PROVE  IndexInv'
<1> DEFINE c == call[p]
<1>1. TypeOK /\ SizeExact /\ LockInv /\ CallInv(c) /\ c \in Calls /\ p \in Procs
  BY DEF IndexInv, Procs, TypeOK
<1>2. c.pc = "counted" /\ SinceBegin(c) /\ Counting(c) /\ c.start \in Map
  BY <1>1 DEF Measure, At, CallInv, Calls
<1>3. UNCHANGED <<data, size, now>> /\ Visible' = Visible
        /\ call' = [call EXCEPT ![p].pc = "measured", ![p].bytes = size]
  BY DEF Measure, Visible
<1>4. size = SizeOf(data) /\ size \in Nat
  BY <1>1, BytesFinite DEF SizeExact, TypeOK
<1>5. /\ call' \in [Procs -> Calls] /\ OnlyCall(p) /\ call'[p].at = c.at
      /\ call'[p].pc = "measured" /\ call'[p].bytes = size /\ call'[p].start = c.start
  BY <1>1, <1>3, <1>4 DEF TypeOK, OnlyCall, Calls
<1>6. SizeOf(Visible) <= SizeOf(data) /\ SizeOf(data) <= SizeOf(c.start)
  <2>1. Visible \in Map /\ data \in Map /\ \A k \in Keys : Visible[k] \in {None, data[k]}
    BY <1>1, SeenNow DEF TypeOK
  <2>2. \A k \in Keys : data[k] \in {None, c.start[k]}
    BY <1>2 DEF Counting
  <2> QED BY <1>2, <2>1, <2>2, SizeMonotone
<1>7. CallInv(call[p])'
  <2>1. SinceBegin(call[p])'
    BY <1>2, <1>3, <1>5 DEF SinceBegin
  <2>2. Counting(call[p])'
    BY <1>3, <1>4, <1>5, <1>6 DEF Counting
  <2>3. Timed(call[p])' /\ Looking(call[p])' /\ Iterating(call[p])'
    BY <1>5 DEF Timed, Looking, Iterating
  <2> QED BY <2>1, <2>2, <2>3 DEF CallInv
<1>8. SizeExact' /\ data' \in Map /\ size' \in Int /\ now' = now
        /\ \A k \in Keys : data'[k] \in {None, data[k]}
  BY <1>1, <1>3 DEF SizeExact, TypeOK
<1>9. call[p].pc # "idle" /\ c.at <= now /\ p # Writer
  BY <1>1, <1>2, IndexConstants DEF LockInv
<1> QED BY <1>5, <1>7, <1>8, <1>9, ReadFrame

-----------------------------------------------------------------------------
(* The TTL worker and the clock *)

LEMMA CleanStep ==
    ASSUME IndexInv, StartClean \/ CleanNow \/ Sweep(Cleaner)
    PROVE  IndexInv'
<1> DEFINE c == call[Cleaner]
<1>1. TypeOK /\ SizeExact /\ LockInv /\ c \in Calls /\ Cleaner \in Procs
        /\ now \in 0..MaxTime /\ now \in Nat /\ now <= now
  BY IndexConstants DEF IndexInv, Procs, TypeOK
<1>2. Cleaner # Writer /\ Cleaner \notin Readers
  BY IndexConstants
<1>3. /\ call' \in [Procs -> Calls] /\ OnlyCall(Cleaner) /\ now' = now
      /\ call'[Cleaner].at <= now /\ call'[Cleaner].pc \in {"idle", "released", "sweep"}
  <2>1. CASE StartClean
    <3> DEFINE d == [Idle EXCEPT !.op = "count", !.pc = "released"]
    <3>1. d \in Calls /\ d.at = 0 /\ d.pc = "released"
      BY IdleType, ZenonT(40) DEF Calls
    <3>2. call' = [call EXCEPT ![Cleaner] = d] /\ now' = now
      BY <2>1 DEF StartClean
    <3> HIDE DEF d
    <3> QED BY <1>1, <3>1, <3>2 DEF TypeOK, OnlyCall
  <2>2. CASE CleanNow
    <3> DEFINE d == [c EXCEPT !.pc = "sweep", !.at = now]
    <3>1. d \in Calls /\ d.at = now /\ d.pc = "sweep"
      BY <1>1 DEF Calls
    <3>2. call' = [call EXCEPT ![Cleaner] = d] /\ now' = now
      BY <2>2 DEF CleanNow
    <3> HIDE DEF d
    <3> QED BY <1>1, <3>1, <3>2 DEF TypeOK, OnlyCall
  <2>3. CASE Sweep(Cleaner)
    <3>1. call' = [call EXCEPT ![Cleaner] = Idle] /\ now' = now
      BY <2>3 DEF Sweep, Return
    <3>2. Idle \in Calls /\ Idle.at = 0 /\ Idle.pc = "idle"
      BY IdleType DEF Idle
    <3> QED BY <1>1, <3>1, <3>2 DEF TypeOK, OnlyCall
  <2> QED BY <2>1, <2>2, <2>3
<1>4. /\ data' \in Map /\ size' \in Int /\ SizeExact'
      /\ \A k \in Keys : data'[k] \in {None, data[k]}
  <2>1. CASE Sweep(Cleaner)
    BY <1>1, <2>1, SweepData
  <2>2. CASE StartClean \/ CleanNow
    BY <1>1, <2>2 DEF StartClean, CleanNow, TypeOK, SizeExact
  <2> QED BY <2>1, <2>2
<1>5. TypeOK' /\ Shrinks
  BY <1>1, <1>3, <1>4 DEF TypeOK, Shrinks
<1>6. LockInv'
  BY <1>1, <1>2, <1>3, <1>5, LockFrame
<1> QED BY <1>1, <1>3, <1>4, <1>5, <1>6, CallFrame

LEMMA TickStep == ASSUME IndexInv, Tick PROVE IndexInv'
<1>1. TypeOK /\ SizeExact /\ LockInv /\ Cleaner \in Procs
        /\ now \in Int /\ now' = now + 1 /\ UNCHANGED <<data, size, call>>
  BY IndexConstants DEF IndexInv, Procs, TypeOK, Tick
<1>2. TypeOK' /\ Shrinks /\ SizeExact' /\ OnlyCall(Cleaner)
  BY <1>1, IndexConstants DEF Tick, TypeOK, Shrinks, SizeExact, OnlyCall
<1>3. \A p \in Procs : call'[p].at <= now'
  <2> SUFFICES ASSUME NEW p \in Procs PROVE call[p].at <= now + 1
    BY <1>1
  <2>1. call[p].at \in Int /\ call[p].at <= now
    BY <1>1, IndexConstants DEF TypeOK, Calls, LockInv
  <2> QED BY <1>1, <2>1
<1>4. LockInv'
  BY <1>1, <1>3 DEF LockInv, Reading, Writing, At
<1> QED BY <1>1, <1>2, <1>4, CallFrame

-----------------------------------------------------------------------------
(* The writes *)

\* What a finished or one-step write stores: an entry, or nothing.
LEMMA SetIs ==
    ASSUME IndexInv, NEW k \in Keys, NEW e \in Entries, Set(k, e)
    PROVE  IndexInv'
<1>1. TypeOK /\ SizeExact /\ data \in Map
  BY DEF IndexInv, TypeOK
<1>2. SetEntry(k, e) /\ ~Reading /\ ~Writing /\ UNCHANGED <<now, call>>
  BY DEF Set
<1>3. data' \in Map /\ size' \in Int /\ SizeExact'
  BY <1>1, <1>2, SetStep
<1>4. TypeOK' /\ OnlyCall(Writer) /\ now' = now /\ call' = call
  BY <1>1, <1>2, <1>3 DEF TypeOK, OnlyCall
<1> QED BY <1>2, <1>3, <1>4, WriteFrame

LEMMA DeleteStep ==
    ASSUME IndexInv, NEW k \in Keys, Delete(k)
    PROVE  IndexInv'
<1>1. TypeOK /\ SizeExact /\ data \in Map
  BY DEF IndexInv, TypeOK
<1>2. ~Reading /\ ~Writing /\ UNCHANGED <<now, call>>
  BY DEF Delete
<1>3. data' \in Map /\ size' \in Int /\ SizeExact'
  <2>1. CASE data[k] # None
    <3>1. Drop({k})
      BY <2>1 DEF Delete
    <3> QED BY <1>1, <3>1, DropOne
  <2>2. CASE data[k] = None
    BY <1>1, <2>2 DEF Delete, TypeOK, SizeExact
  <2> QED BY <2>1, <2>2
<1>4. TypeOK' /\ OnlyCall(Writer) /\ now' = now /\ call' = call
  BY <1>1, <1>2, <1>3 DEF TypeOK, OnlyCall
<1> QED BY <1>2, <1>3, <1>4, WriteFrame

\* What an update stores is an entry.
LEMMA StoredType ==
    ASSUME NEW op, NEW e, NEW t
    PROVE  Stored(op, e, t) \subseteq Entries
BY DEF Stored

LEMMA StoreStep == ASSUME IndexInv, Store PROVE IndexInv'
<1> DEFINE c == call[Writer]
<1>1. TypeOK /\ SizeExact /\ LockInv /\ CallInv(c) /\ data \in Map /\ Writer \in Procs
  BY DEF IndexInv, TypeOK, Procs
<1>2. c.pc \in {"found", "absent"} /\ c.key \in Keys
  BY <1>1 DEF Store, CallInv, Looking
<1>3. \E e \in Entries : SetEntry(c.key, e)
  BY StoredType DEF Store
<1>4. data' \in Map /\ size' \in Int /\ SizeExact'
  BY <1>1, <1>2, <1>3, SetStep
<1>5. ~Reading
  BY <1>1, <1>2 DEF LockInv, Writing, At
<1>6. call' = [call EXCEPT ![Writer] = Idle] /\ now' = now
  BY DEF Store, Return
<1>7. TypeOK' /\ OnlyCall(Writer) /\ call'[Writer] = Idle
  BY <1>1, <1>4, <1>6, IdleType DEF TypeOK, OnlyCall
<1> QED BY <1>4, <1>5, <1>6, <1>7, WriteFrame

-----------------------------------------------------------------------------
(* The theorems *)

LEMMA InitInv == Init => IndexInv
<1> SUFFICES ASSUME Init PROVE IndexInv
  OBVIOUS
<1>1. data = NoEntries /\ size = 0 /\ now = 0 /\ call = [p \in Procs |-> Idle]
  BY DEF Init
<1>2. NoEntries \in Map /\ Bytes(NoEntries) = {}
  BY DEF NoEntries, Map, Bytes, Present
<1>3. TypeOK
  BY <1>1, <1>2, IdleType, IndexConstants DEF TypeOK
<1>4. SizeExact
  BY <1>1, <1>2, FS_EmptySet DEF SizeExact, SizeOf
<1>5. \A p \in Procs : call[p] = Idle
  BY <1>1
<1>6. LockInv /\ \A p \in Readers \cup {Writer} : CallInv(call[p])
  BY <1>1, <1>5 DEF LockInv, CallInv, Idle, Procs, Reading, Writing, At
<1> QED BY <1>3, <1>4, <1>6 DEF IndexInv

LEMMA StutterStep == ASSUME IndexInv, UNCHANGED vars PROVE IndexInv'
<1>1. Cleaner \in Procs /\ TypeOK' /\ SizeExact' /\ LockInv' /\ OnlyCall(Cleaner)
  BY DEF IndexInv, vars, TypeOK, SizeExact, LockInv, Reading, Writing, At, OnlyCall, Procs
<1>2. Shrinks
  BY IndexConstants DEF vars, Shrinks, IndexInv, TypeOK
<1> QED BY <1>1, <1>2, CallFrame

LEMMA NextInv == IndexInv /\ [Next]_vars => IndexInv'
<1> SUFFICES ASSUME IndexInv, [Next]_vars PROVE IndexInv'
  OBVIOUS
<1>1. ASSUME NEW p \in Readers, ReadStep(p) PROVE IndexInv'
  BY <1>1, StartStep, ListStep, MatchStep, EndKeysStep, MeasureStep, CollectStep, VisitStep,
     PurgeStep, EndScanStep, AnswerStep DEF ReadStep
<1>2. ASSUME NEW p \in Readers \cup {Writer}, Look(p) \/ Check(p) \/ Recheck(p) PROVE IndexInv'
  BY <1>2, LookStep, CheckStep, RecheckStep
<1>3. CASE StartClean \/ CleanNow
  BY <1>3, CleanStep
<1>4. ASSUME NEW p \in Readers \cup {Cleaner}, Sweep(p) PROVE IndexInv'
  BY <1>4, SweepStep, CleanStep
<1>5. CASE WriteStep
  BY <1>5, SetIs, DeleteStep, UpdateStep, StoreStep, RefuseStep DEF WriteStep
<1>6. CASE Tick
  BY <1>6, TickStep
<1>7. CASE UNCHANGED vars
  BY <1>7, StutterStep
<1> QED BY <1>1, <1>2, <1>3, <1>4, <1>5, <1>6, <1>7 DEF Next

THEOREM Invariance == Spec => []IndexInv
BY InitInv, NextInv, PTL DEF Spec

\* The variables have their types: in particular a deadline is never 0, which
\* isExpired would take for none.
THEOREM TypeCorrect == Spec => []TypeOK
<1>1. IndexInv => TypeOK
  BY DEF IndexInv
<1> QED BY <1>1, Invariance, PTL

\* MemIndex.size is the number of bytes stored, whoever removes what.
THEOREM SizeCorrect == Spec => []SizeExact
<1>1. IndexInv => SizeExact
  BY DEF IndexInv
<1> QED BY <1>1, Invariance, PTL

(***************************************************************************)
(* What Get, Scan, Keys, Count and Stats answer lies between what could be *)
(* seen when the call began and what can be seen now, with any number of   *)
(* other readers and the TTL worker beside it.                             *)
(***************************************************************************)
THEOREM AnswersCorrect == Spec => []AnswersAgree
<1>1. IndexInv => AnswersAgree
  <2> SUFFICES ASSUME IndexInv, NEW p \in Procs
               PROVE  /\ Answered(call[p])
                      /\ At(p, "scanned") => Scanned(call[p])
                      /\ At(p, "listed") => Listed(call[p])
    BY DEF AnswersAgree
  <2> DEFINE c == call[p]
  <2>1. CASE p = Cleaner
    BY <2>1 DEF IndexInv, LockInv, Answered, At
  <2>2. CASE p # Cleaner
    <3>1. CallInv(c) /\ c \in Calls
      BY <2>2 DEF IndexInv, TypeOK, Procs
    <3>2. Answered(c)
      BY <3>1 DEF CallInv, Answered, Looking, Counting
    <3>3. ASSUME c.pc = "listed" PROVE Listed(c)
      BY <3>1, <3>3 DEF CallInv, Iterating, Listed, Left
    <3>4. ASSUME c.pc = "scanned" PROVE Scanned(c)
      <4>1. c.todo = << >> /\ \A k \in Keys : ~Left(c, k)
        BY <3>1, <3>4 DEF CallInv, Iterating, Left
      <4>2. ASSUME NEW k \in Keys, NEW j \in Present(c.got), k < j,
                   \A i \in Keys : c.got[i] # None \/ Left(c, i) => i < k
            PROVE  FALSE
        <5>1. j \in Keys /\ j < k
          BY <4>2 DEF Present
        <5>2. \A i \in Keys : i \in Int
          BY IndexConstants
        <5> QED BY <4>2, <5>1, <5>2
      <4> QED BY <3>1, <3>4, <4>1, <4>2 DEF CallInv, Iterating, Scanned
    <3> QED BY <3>2, <3>3, <3>4 DEF At
  <2> QED BY <2>1, <2>2
<1> QED BY <1>1, Invariance, PTL

-----------------------------------------------------------------------------
(* The index implements ExpiringMap *)

\* What was removed had expired: nothing changes for a reader.
LEMMA Unseen ==
    ASSUME TypeOK, data' \in Map, now' = now,
           \A k \in Keys : data'[k] = data[k] \/ (data'[k] = None /\ Expired(k, now))
    PROVE  UNCHANGED Promise!vars
<1>1. now \in 0..MaxTime /\ data \in Map
  BY DEF TypeOK
<1>2. ASSUME NEW k \in Keys PROVE VisibleAt(data', now)[k] = VisibleAt(data, now)[k]
  BY <1>1, VisibleIs DEF Expired
<1>3. VisibleAt(data', now) = VisibleAt(data, now)
  BY <1>2 DEF VisibleAt
<1> QED BY <1>3 DEF Visible, Promise!vars

LEMMA ExpiredLater ==
    ASSUME IndexInv, NEW p \in Procs, NEW k \in Keys, Expired(k, call[p].at)
    PROVE  Expired(k, now)
<1>1. data[k] # None /\ isExpired(data[k].exp, call[p].at) /\ data[k].exp \in Int
  BY EntryFields DEF IndexInv, TypeOK, Map, Expired
<1>2. call[p].at \in Int /\ now \in Int /\ call[p].at <= now
  BY IndexConstants DEF IndexInv, TypeOK, LockInv, Calls
<1> QED BY <1>1, <1>2, ExpiredStays DEF Expired

\* Whatever a read or the TTL worker does: it stutters.
LEMMA ReadsUnseen ==
    ASSUME IndexInv, IndexInv',
           \/ \E p \in Readers : ReadStep(p)
           \/ \E p \in Readers \cup {Writer} : Look(p) \/ Check(p) \/ Recheck(p)
           \/ StartClean \/ CleanNow
           \/ \E p \in Readers \cup {Cleaner} : Sweep(p)
           \/ \E op \in Updates, k \in Keys : StartUpdate(op, k)
           \/ Refuse
    PROVE  UNCHANGED Promise!vars
<1>1. TypeOK /\ data' \in Map /\ SizeExact
  BY DEF IndexInv, TypeOK
<1>2. ASSUME UNCHANGED <<data, now>> PROVE UNCHANGED Promise!vars
  BY <1>2 DEF Promise!vars, Visible
<1>3. ASSUME NEW p \in Readers \cup {Writer}, Recheck(p) PROVE UNCHANGED Promise!vars
  <2> DEFINE k == call[p].key
  <2>1. k \in Keys
    BY <1>3 DEF IndexInv, CallInv, Looking, Recheck, At
  <2>2. CASE Expired(k, now)
    <3>1. Drop({k}) /\ now' = now /\ data \in Map
      BY <1>1, <1>3, <2>2 DEF Recheck, TypeOK
    <3>2. data'[k] = None /\ \A j \in Keys : j # k => data'[j] = data[j]
      BY <1>1, <2>1, <3>1, DropOne
    <3> QED BY <1>1, <2>2, <3>1, <3>2, Unseen
  <2>3. CASE ~Expired(k, now)
    BY <1>2, <1>3, <2>3 DEF Recheck
  <2> QED BY <2>2, <2>3
<1>4. ASSUME NEW p \in Readers, Purge(p) PROVE UNCHANGED Promise!vars
  <2> DEFINE k == Head(call[p].todo)
  <2>1. k \in Keys /\ p \in Procs
    BY <1>4, HeadTailProperties
       DEF IndexInv, TypeOK, Calls, CallInv, Iterating, Purge, At, Procs
  <2>2. CASE Expired(k, call[p].at)
    <3>1. Drop({k}) /\ now' = now /\ data \in Map
      BY <1>1, <1>4, <2>2 DEF Purge, TypeOK
    <3>2. data'[k] = None /\ \A j \in Keys : j # k => data'[j] = data[j]
      BY <1>1, <2>1, <3>1, DropOne
    <3>3. Expired(k, now)
      BY <2>1, <2>2, ExpiredLater
    <3> QED BY <1>1, <3>1, <3>2, <3>3, Unseen
  <2>3. CASE ~Expired(k, call[p].at)
    BY <1>2, <1>4, <2>3 DEF Purge
  <2> QED BY <2>2, <2>3
<1>5. ASSUME NEW p \in Readers \cup {Cleaner}, Sweep(p) PROVE UNCHANGED Promise!vars
  <2>1. p \in Procs /\ now' = now
    BY <1>5 DEF Procs, Sweep
  <2>2. \A k \in Keys : data'[k] = IF Expired(k, call[p].at) THEN None ELSE data[k]
    BY <1>1, <1>5, <2>1, SweepData
  <2>3. \A k \in Keys : Expired(k, call[p].at) => Expired(k, now)
    BY <2>1, ExpiredLater
  <2> QED BY <1>1, <2>1, <2>2, <2>3, Unseen
<1>6. ASSUME NEW p \in Readers, ReadStep(p), ~Purge(p) PROVE UNCHANGED <<data, now>>
  BY <1>6 DEF ReadStep, StartGet, StartScan, StartKeys, StartCount, StartRead, List, Match,
     EndKeys, Measure, Collect, Visit, EndScan, Answer
<1>7. ASSUME \/ \E p \in Readers \cup {Writer} : Look(p) \/ Check(p)
             \/ StartClean \/ CleanNow
             \/ \E op \in Updates, k \in Keys : StartUpdate(op, k)
             \/ Refuse
      PROVE UNCHANGED <<data, now>>
  BY <1>7 DEF Look, Check, StartClean, CleanNow, StartUpdate, Refuse
<1> QED BY <1>2, <1>3, <1>4, <1>5, <1>6, <1>7

LEMMA PutSeen ==
    ASSUME IndexInv, IndexInv', NEW k \in Keys, NEW e \in Entries, SetEntry(k, e), now' = now
    PROVE  Promise!Put(k, e)
<1>1. now \in 0..MaxTime /\ data \in Map /\ data' \in Map /\ Visible \in Map
  BY SeenNow DEF IndexInv, TypeOK
<1>2. \A j \in Keys : data'[j] = IF j = k THEN e ELSE data[j]
  BY <1>1 DEF SetEntry, Map
<1>3. \A j \in Keys : j # k => Visible'[j] = Visible[j]
  BY <1>1, <1>2 DEF Visible, VisibleAt
<1>4. Visible'[k] = Promise!Seen(e, now)
  BY <1>2, NoneIsNoEntry DEF Visible, VisibleAt, Promise!Seen, Promise!Gone, NoTTL
<1>5. Visible' \in Map
  BY <1>1, VisibleIs DEF Visible
<1>6. Visible' = [Visible EXCEPT ![k] = Promise!Seen(e, now)]
  BY <1>1, <1>3, <1>4, <1>5 DEF Map
<1> QED BY <1>6 DEF Promise!Put

LEMMA DeleteSeen ==
    ASSUME IndexInv, IndexInv', NEW k \in Keys, Delete(k)
    PROVE  Promise!Remove(k)
<1>1. now \in 0..MaxTime /\ now' = now /\ data \in Map /\ data' \in Map /\ Visible \in Map
        /\ SizeExact
  BY SeenNow DEF IndexInv, TypeOK, Delete
<1>2. \A j \in Keys : data'[j] = IF j = k THEN None ELSE data[j]
  <2>1. CASE data[k] # None
    BY <1>1, <2>1, DropOne DEF Delete
  <2>2. CASE data[k] = None
    BY <2>2 DEF Delete
  <2> QED BY <2>1, <2>2
<1>3. \A j \in Keys : Visible'[j] = IF j = k THEN None ELSE Visible[j]
  BY <1>1, <1>2 DEF Visible, VisibleAt
<1>4. Visible' \in Map
  BY <1>1, VisibleIs DEF Visible
<1>5. Visible' = [Visible EXCEPT ![k] = None]
  BY <1>1, <1>3, <1>4 DEF Map
<1> QED BY <1>1, <1>5 DEF Promise!Remove

LEMMA TickSeen ==
    ASSUME IndexInv, IndexInv', Tick
    PROVE  Promise!Tick
<1>1. now \in Int /\ now' = now + 1 /\ data' = data /\ data \in Map
  BY IndexConstants DEF IndexInv, TypeOK, Tick
<1>2. ASSUME NEW k \in Keys
      PROVE  VisibleAt(data, now + 1)[k] = Promise!Seen(VisibleAt(data, now)[k], now + 1)
  <2>1. data[k] # None => data[k].exp \in Int
    BY <1>1, EntryFields DEF Map
  <2> QED BY <1>1, <2>1 DEF VisibleAt, Promise!Seen, Promise!Gone, NoTTL
<1>3. VisibleAt(data, now + 1) =
        [k \in Keys |-> Promise!Seen(VisibleAt(data, now)[k], now + 1)]
  BY <1>2 DEF VisibleAt
<1> QED BY <1>1, <1>3 DEF Promise!Tick, Visible

(***************************************************************************)
(* Seen from outside, lazy deletion does nothing and a write changes its   *)
(* own key alone: the index is the map of ExpiringMap.                     *)
(***************************************************************************)
THEOREM Implements == Spec => VanishAtDeadline
<1>1. Init => Promise!Init
  <2> SUFFICES ASSUME Init PROVE Promise!Init
    OBVIOUS
  <2>1. data = NoEntries /\ now = 0
    BY DEF Init
  <2> QED BY <2>1 DEF Promise!Init, Visible, VisibleAt, NoEntries
<1>2. IndexInv /\ IndexInv' /\ [Next]_vars => [Promise!Next]_Promise!vars
  <2> SUFFICES ASSUME IndexInv, IndexInv', [Next]_vars
               PROVE  Promise!Next \/ UNCHANGED Promise!vars
    OBVIOUS
  <2>1. ASSUME NEW k \in Keys, NEW e \in Entries, Set(k, e) PROVE Promise!Next
    <3>1. Promise!Put(k, e)
      BY <2>1, PutSeen DEF Set
    <3> QED BY <3>1 DEF Promise!Next
  <2>2. ASSUME NEW k \in Keys, Delete(k) PROVE Promise!Next
    BY <2>2, DeleteSeen DEF Promise!Next
  <2>3. CASE Store
    <3>1. call[Writer].key \in Keys
      BY <2>3 DEF Store, IndexInv, CallInv, Looking
    <3>2. PICK e \in Entries : SetEntry(call[Writer].key, e)
      BY <2>3, StoredType DEF Store
    <3>3. Promise!Put(call[Writer].key, e)
      BY <2>3, <3>1, <3>2, PutSeen DEF Store
    <3> QED BY <3>1, <3>3 DEF Promise!Next
  <2>4. CASE Tick
    BY <2>4, TickSeen DEF Promise!Next
  <2>5. CASE UNCHANGED vars
    BY <2>5 DEF vars, Promise!vars, Visible
  <2> QED BY <2>1, <2>2, <2>3, <2>4, <2>5, ReadsUnseen DEF Next, WriteStep
<1> QED BY <1>1, <1>2, Invariance, PTL DEF Spec, VanishAtDeadline, Promise!Spec

=============================================================================
