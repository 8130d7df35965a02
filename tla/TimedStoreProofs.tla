--------------------------- MODULE TimedStoreProofs ---------------------------
(***************************************************************************)
(* Proofs about TimedStore, for every range of the integers, every set of  *)
(* keys, values and TTLs: a running database, and every later Open, shows  *)
(* each key exactly until its deadline.                                    *)
(***************************************************************************)
EXTENDS TimedStore, SetLemmas, SequenceTheorems

(***************************************************************************)
(* The inductive invariant.  View(c, k) is key k as the image of c and the *)
(* records after its capture give it, whatever their segments; it is what  *)
(* clients were promised, for the compaction that runs (CompInv) and, but  *)
(* for the keys that recovery skips, for the snapshot (SnapInv).  CutInv   *)
(* says when "after the capture" and "in a later segment" are the same.    *)
(***************************************************************************)
Stores == {e \in Entry : e.exp # 0} \cup {None}

Images == [Keys -> Stores]

After(c, k) == {i \in DOMAIN log : i > c.at /\ log[i].key = k}

View(c, k) == IF After(c, k) = {} THEN c.map[k] ELSE log[Max(After(c, k))].entry

Typed ==
    /\ now \in 1..MaxTime
    /\ phase \in {"closed", "open"}
    /\ index \in Images
    /\ log \in Seq([key : Keys, entry : Stores, seg : Nat])
    /\ \A i \in DOMAIN log : log[i].seg \in 1..cur
    /\ cur \in 1..MaxSeq
    /\ snap \in [seq : Nat, map : Images, at : Nat]
    /\ comp \in [seq : Nat \ {0}, map : Images, at : Nat] \cup {None}
    /\ truth \in [Keys -> Promises \cup {None}]

CutInv(c) ==
    /\ c.seq <= cur /\ c.at <= Len(log)
    /\ \A i \in DOMAIN log : i <= c.at => log[i].seg <= c.seq
    /\ \A i \in DOMAIN log : i > c.at => log[i].seg >= c.seq

CompInv ==
    comp # None =>
        /\ phase = "open"
        /\ CutInv(comp)
        /\ \A k \in Keys : Agrees(View(comp, k), truth[k], now)

SnapInv ==
    /\ CutInv(snap)
    /\ \A k \in Keys \ Skipped : Agrees(View(snap, k), truth[k], now)

TimedInv == Typed /\ Kept /\ CompInv /\ SnapInv

-----------------------------------------------------------------------------
(* Arithmetic modulo the number of integers *)

\* Division with remainder: what it gives, and that nothing else does.
LEMMA Divided ==
    ASSUME NEW M \in Nat \ {0}, NEW x \in Int
    PROVE  x % M \in 0..(M - 1) /\ x \div M \in Int /\ x = (M * (x \div M)) + (x % M)
OBVIOUS

LEMMA Remainder ==
    ASSUME NEW M \in Nat \ {0}, NEW q \in Int, NEW r \in 0..(M - 1)
    PROVE  ((M * q) + r) % M = r
OBVIOUS

\* Numbers that differ by a multiple of M have one remainder.
LEMMA Congruent ==
    ASSUME NEW M \in Nat \ {0}, NEW x \in Int, NEW y \in Int, NEW a \in Int,
           x = y + M * a
    PROVE  x % M = y % M
<1> DEFINE q == y \div M
           r == y % M
<1>1. r \in 0..(M - 1) /\ q \in Int /\ y = (M * q) + r
  BY Divided
<1> HIDE DEF q, r
<1>2. x = M * (q + a) + r
  <2>1. M * (q + a) = M * q + M * a
    BY <1>1
  <2> QED BY <1>1, <2>1
<1>3. (M * (q + a) + r) % M = r
  BY <1>1, Remainder
<1> QED BY <1>2, <1>3 DEF r

LEMMA Facts ==
    /\ MaxInt \in Nat \ {0} /\ Modulus \in Nat \ {0} /\ Modulus = 2 * MaxInt + 2
    /\ MaxTime \in 1..MaxInt /\ MaxSeq \in Nat \ {0}
    /\ Text \notin Int /\ None # Text
    /\ None \notin Entry /\ None \notin Promises
    /\ None \notin [seq : Nat, map : Image, at : Nat]
BY TimedConstants, NoneIsNothing DEF Modulus

\* A wrapped integer is an int64; one that is an int64 stays as it is; one a
\* little above becomes negative, and adding comes to the same before and after.
LEMMA WrapIn == ASSUME NEW x \in Int PROVE Wrap(x) \in Ints
<1> DEFINE r == (x + MaxInt + 1) % Modulus
<1>1. r \in 0..(Modulus - 1)
  BY Divided, Facts
<1> HIDE DEF r
<1>2. r - MaxInt - 1 \in (-MaxInt - 1)..MaxInt
  BY <1>1, Facts
<1> QED BY <1>2 DEF Wrap, Ints, r

LEMMA WrapSame == ASSUME NEW x \in Ints PROVE Wrap(x) = x
<1>1. x + MaxInt + 1 \in 0..(Modulus - 1) /\ x \in Int
  BY Facts DEF Ints
<1>2. ((Modulus * 0) + (x + MaxInt + 1)) % Modulus = x + MaxInt + 1
  BY <1>1, Remainder, Facts
<1>3. (Modulus * 0) + (x + MaxInt + 1) = x + MaxInt + 1
  BY <1>1, Facts
<1>4. (x + MaxInt + 1) % Modulus = x + MaxInt + 1
  BY <1>2, <1>3
<1> QED BY <1>1, <1>4, Facts DEF Wrap

LEMMA WrapBeyond ==
    ASSUME NEW x \in (MaxInt + 1)..(2 * MaxInt)
    PROVE  Wrap(x) < 0
<1> DEFINE r == x - MaxInt - 1
<1>1. r \in 0..(Modulus - 1) /\ r < MaxInt /\ x \in Int
  BY Facts
<1>2. x + MaxInt + 1 = (Modulus * 1) + r
  BY <1>1, Facts
<1> HIDE DEF r
<1>3. (x + MaxInt + 1) % Modulus = r
  BY <1>1, <1>2, Remainder, Facts
<1> QED BY <1>1, <1>3, Facts DEF Wrap

LEMMA WrapSum ==
    ASSUME NEW x \in Int, NEW d \in Int
    PROVE  Wrap(Wrap(x) + d) = Wrap(x + d)
<1> DEFINE y == x + MaxInt + 1
           r == y % Modulus
           q == y \div Modulus
<1>1. r \in Int /\ q \in Int /\ y = (Modulus * q) + r
  <2>1. y \in Int
    BY Facts
  <2> HIDE DEF y
  <2>2. r \in 0..(Modulus - 1) /\ q \in Int /\ y = (Modulus * q) + r
    BY <2>1, Divided, Facts
  <2> QED BY <2>2, Facts
<1>2. Wrap(x) = r - MaxInt - 1
  BY DEF Wrap
<1>3. y = x + MaxInt + 1
  OBVIOUS
<1> HIDE DEF r, q, y
<1>4. Wrap(x) + d + MaxInt + 1 = r + d
  BY <1>1, <1>2, Facts
<1>5. x + d + MaxInt + 1 = (r + d) + Modulus * q
  <2>1. Modulus * q \in Int
    BY <1>1, Facts
  <2> QED BY <1>1, <1>3, <2>1, Facts
<1>6. (x + d + MaxInt + 1) % Modulus = (r + d) % Modulus
  <2>1. x + d + MaxInt + 1 \in Int /\ r + d \in Int
    BY <1>1, Facts
  <2> QED BY <1>1, <1>5, <2>1, Congruent, Facts
<1> QED BY <1>4, <1>6 DEF Wrap

-----------------------------------------------------------------------------
(* What agrees with a promise *)

LEMMA StoresType ==
    ASSUME NEW e \in Stores, e # None
    PROVE  e \in Entry /\ e.val \in Ints \cup {Text} /\ e.exp \in Int /\ e.exp # 0
           /\ e.exp <= MaxInt
BY Facts DEF Stores, Entry, Ints

LEMMA PromiseType ==
    ASSUME NEW p \in Promises \cup {None}, p # None
    PROVE  p.val \in Int \cup {Text} /\ p.exp \in Int /\ (p.exp = Never \/ p.exp > 0)
BY DEF Promises

LEMMA StoreIn ==
    ASSUME NEW v \in Ints \cup {Text}, NEW d \in Ints, d # 0
    PROVE  Stored(v, d) \in Stores /\ Stored(v, d) # None
           /\ Stored(v, d).val = v /\ Stored(v, d).exp = d
BY Facts DEF Stored, Stores, Entry

LEMMA PromiseIn ==
    ASSUME NEW v \in Int \cup {Text}, NEW d \in Int, d = Never \/ d > 0
    PROVE  Promised(v, d) \in Promises /\ Promised(v, d) # None
           /\ Promised(v, d).val = v /\ Promised(v, d).exp = d
BY Facts DEF Promised, Promises

\* What agrees with its promise goes on agreeing.
LEMMA AgreesLater ==
    ASSUME NEW e \in Stores, NEW p \in Promises \cup {None},
           NEW t \in Nat, NEW u \in t..MaxInt, Agrees(e, p, t)
    PROVE  Agrees(e, p, u)
<1>1. CASE AliveAt(p, t)
  <2>1. e # None /\ p # None /\ e.val = Wrapped(p.val)
        /\ IF p.exp = Never \/ p.exp > MaxInt THEN e.exp < 0 ELSE e.exp = p.exp
    BY <1>1 DEF Agrees, AliveAt
  <2>2. e.exp \in Int /\ e.exp # 0 /\ p.exp \in Int /\ (p.exp = Never \/ p.exp > 0)
    BY <2>1, StoresType, PromiseType
  <2>3. CASE p.exp = Never \/ p.exp > MaxInt
    <3>1. e.exp < 0
      BY <2>1, <2>3
    <3>2. ~isExpired(e.exp, u) /\ AliveAt(p, u)
      BY <2>1, <2>2, <2>3, <3>1, Facts DEF isExpired, AliveAt
    <3> QED BY <2>1, <2>3, <3>2 DEF Agrees
  <2>4. CASE ~(p.exp = Never \/ p.exp > MaxInt)
    <3>1. e.exp = p.exp /\ p.exp > 0 /\ p.exp # Never
      BY <2>1, <2>2, <2>4
    <3>2. isExpired(e.exp, u) <=> u >= p.exp
      BY <3>1, <2>2 DEF isExpired
    <3>3. AliveAt(p, u) <=> u < p.exp
      BY <2>1, <2>2, <3>1 DEF AliveAt
    <3>4. (u >= p.exp) <=> ~(u < p.exp)
      BY <2>2
    <3> QED BY <2>1, <2>4, <3>2, <3>3, <3>4 DEF Agrees
  <2> QED BY <2>3, <2>4
<1>2. CASE ~AliveAt(p, t)
  <2>1. ~AliveAt(p, u)
    <3>1. CASE p = None
      BY <3>1 DEF AliveAt
    <3>2. CASE p # None
      BY <1>2, <3>2, PromiseType DEF AliveAt
    <3> QED BY <3>1, <3>2
  <2>2. ~(e # None /\ ~isExpired(e.exp, t))
    BY <1>2 DEF Agrees
  <2>3. ~(e # None /\ ~isExpired(e.exp, u))
    BY <2>2, StoresType DEF isExpired
  <2> QED BY <2>1, <2>3 DEF Agrees
<1> QED BY <1>1, <1>2

\* What has expired may be left out: no deadline is 0, so that "past" and
\* "expired" are the same.
LEMMA AgreesWithout ==
    ASSUME NEW e \in Stores, NEW p \in Promises \cup {None}, NEW t \in Nat,
           Agrees(e, p, t)
    PROVE  /\ e # None => (Past(e.exp, t) <=> isExpired(e.exp, t))
           /\ (IF e # None /\ Past(e.exp, t) THEN None ELSE e) \in Stores
           /\ Agrees(IF e # None /\ Past(e.exp, t) THEN None ELSE e, p, t)
<1>1. e # None => (Past(e.exp, t) <=> isExpired(e.exp, t))
  BY StoresType DEF Past, isExpired
<1>2. None \in Stores
  BY DEF Stores
<1>3. CASE e # None /\ Past(e.exp, t)
  <2>1. ~AliveAt(p, t)
    BY <1>1, <1>3 DEF Agrees
  <2>2. Agrees(None, p, t)
    BY <2>1 DEF Agrees
  <2> QED BY <1>1, <1>2, <1>3, <2>2
<1>4. CASE ~(e # None /\ Past(e.exp, t))
  BY <1>1, <1>4
<1> QED BY <1>3, <1>4, <1>1

\* A deadline as setWithExpiresAtLocked computes it: never 0, and negative
\* when it is beyond the integers.
LEMMA DeadlineIs ==
    ASSUME NEW t \in 0..MaxInt, NEW ttl \in 1..MaxInt
    PROVE  /\ Deadline(t, ttl) \in Ints /\ Deadline(t, ttl) # 0
           /\ IF t + ttl > MaxInt THEN Deadline(t, ttl) < 0 ELSE Deadline(t, ttl) = t + ttl
<1>1. t + ttl \in Int /\ t + ttl > 0 /\ t + ttl <= 2 * MaxInt
  BY Facts
<1>2. Deadline(t, ttl) \in Ints
  BY <1>1, WrapIn DEF Deadline
<1>3. CASE t + ttl > MaxInt
  <2>1. t + ttl \in (MaxInt + 1)..(2 * MaxInt)
    BY <1>1, <1>3, Facts
  <2>2. Deadline(t, ttl) < 0
    BY <2>1, WrapBeyond DEF Deadline
  <2> QED BY <1>2, <1>3, <2>2 DEF Ints
<1>4. CASE ~(t + ttl > MaxInt)
  <2>1. t + ttl \in Ints
    BY <1>1, <1>4, Facts DEF Ints
  <2>2. Deadline(t, ttl) = t + ttl
    BY <2>1, WrapSame DEF Deadline
  <2> QED BY <1>1, <1>2, <1>4, <2>2
<1> QED BY <1>3, <1>4

\* A new value with its deadline agrees with what the client is told.
LEMMA AgreesNew ==
    ASSUME NEW v \in Ints \cup {Text}, NEW w \in Int \cup {Text}, v = Wrapped(w),
           NEW d \in Ints, d # 0, NEW p \in Int, NEW t \in Nat,
           \/ p = Never /\ d < 0
           \/ p > MaxInt /\ d < 0 /\ t <= MaxInt
           \/ p > 0 /\ p <= MaxInt /\ d = p
    PROVE  Agrees(Stored(v, d), Promised(w, p), t)
<1> DEFINE e == Stored(v, d)
           q == Promised(w, p)
<1>1. e # None /\ e.val = v /\ e.exp = d
  BY StoreIn
<1>2. p = Never \/ p > 0
  BY Facts
<1>3. q # None /\ q.val = w /\ q.exp = p
  BY <1>2, PromiseIn
<1> HIDE DEF e, q
<1>4. d \in Int
  BY DEF Ints
<1>5. ~isExpired(d, t) <=> (p = Never \/ t < p)
  BY <1>4, Facts DEF isExpired, Never
<1>6. AliveAt(q, t) <=> (p = Never \/ t < p)
  BY <1>3 DEF AliveAt
<1>7. IF p = Never \/ p > MaxInt THEN d < 0 ELSE d = p
  BY <1>4, Facts DEF Never
<1>8. Agrees(e, q, t)
  BY <1>1, <1>3, <1>5, <1>6, <1>7 DEF Agrees
<1> QED BY <1>8 DEF e, q

-----------------------------------------------------------------------------
(* Views and recovery *)

LEMMA LogType ==
    ASSUME Typed, NEW i \in DOMAIN log
    PROVE  i \in 1..Len(log) /\ log[i].key \in Keys /\ log[i].entry \in Stores
           /\ log[i].seg \in Nat /\ log[i].seg <= cur
<1>1. log \in Seq([key : Keys, entry : Stores, seg : Nat]) /\ log[i].seg \in 1..cur /\ cur \in Nat
  BY Facts DEF Typed
<1>2. i \in 1..Len(log) /\ log[i] \in [key : Keys, entry : Stores, seg : Nat]
  <2> DEFINE R == [key : Keys, entry : Stores, seg : Nat]
  <2>1. log \in Seq(R)
    BY <1>1
  <2> HIDE DEF R
  <2>2. i \in 1..Len(log) /\ log[i] \in R
    BY <2>1
  <2> QED BY <2>2 DEF R
<1> QED BY <1>1, <1>2

\* The last record of a key after a capture.
LEMMA LastAfter ==
    ASSUME Typed, NEW c, NEW k, After(c, k) # {}
    PROVE  /\ Max(After(c, k)) \in After(c, k)
           /\ \A i \in After(c, k) : Max(After(c, k)) >= i
<1>1. After(c, k) \subseteq 0..Len(log) /\ Len(log) \in Nat
  <2>1. Len(log) \in Nat
    BY DEF Typed
  <2> QED BY <2>1, LogType DEF After
<1> QED BY <1>1, MaxIn

LEMMA ViewType ==
    ASSUME Typed, NEW c, c.map \in Images, NEW k \in Keys
    PROVE  View(c, k) \in Stores
<1>1. CASE After(c, k) = {}
  BY <1>1 DEF View, Images
<1>2. CASE After(c, k) # {}
  <2>1. Max(After(c, k)) \in DOMAIN log
    BY <1>2, LastAfter DEF After
  <2> QED BY <1>2, <2>1, LogType DEF View
<1> QED BY <1>1, <1>2

\* What Open leaves of an entry at time t.
At(e, t) == IF e # None /\ Past(e.exp, t) THEN None ELSE e

\* Recovery finds the snapshot's view of every key it does not skip.
LEMMA RecoveredIs ==
    ASSUME Typed, CutInv(snap), NEW t, NEW k \in Keys \ Skipped
    PROVE  Recovered(t)[k] = At(View(snap, k), t)
<1> DEFINE P == {i \in DOMAIN log : log[i].key = k /\ log[i].seg > snap.seq}
<1>1. P = After(snap, k)
  <2>1. ASSUME NEW i \in DOMAIN log, log[i].key = k, log[i].seg > snap.seq
        PROVE  i > snap.at
    <3>1. i \in Nat /\ snap.at \in Nat /\ snap.seq \in Nat /\ log[i].seg \in Nat
      BY LogType DEF Typed
    <3> QED BY <2>1, <3>1 DEF CutInv
  <2>2. ASSUME NEW i \in DOMAIN log, log[i].key = k, i > snap.at
        PROVE  log[i].seg > snap.seq
    <3>1. snap.seq \in Nat /\ log[i].seg \in Nat /\ log[i].seg >= snap.seq
      BY <2>2, LogType DEF CutInv, Typed
    <3>2. log[i].seg # snap.seq
      BY <2>2 DEF Skipped
    <3> QED BY <3>1, <3>2
  <2> QED BY <2>1, <2>2 DEF After
<1>2. Recovered(t)[k] =
        IF P = {} THEN Later(snap.map, t)[k]
        ELSE IF log[Max(P)].entry # None /\ Past(log[Max(P)].entry.exp, t)
             THEN None ELSE log[Max(P)].entry
  BY DEF Recovered
<1>3. Later(snap.map, t)[k] = At(snap.map[k], t)
  BY DEF Later, At
<1> HIDE DEF P
<1> QED BY <1>1, <1>2, <1>3 DEF View, At

\* ... and so shows what was promised, now and at every later time.
LEMMA RecoveredAgrees ==
    ASSUME TimedInv, NEW t \in now..MaxTime, NEW k \in Keys \ Skipped
    PROVE  Recovered(t)[k] \in Stores /\ Agrees(Recovered(t)[k], truth[k], t)
<1>1. Typed /\ CutInv(snap) /\ Agrees(View(snap, k), truth[k], now)
      /\ snap.map \in Images /\ truth[k] \in Promises \cup {None}
      /\ now \in Nat /\ t \in Nat /\ t \in now..MaxInt
  BY Facts DEF TimedInv, SnapInv, Typed
<1>2. View(snap, k) \in Stores
  BY <1>1, ViewType
<1>3. Agrees(View(snap, k), truth[k], t)
  BY <1>1, <1>2, AgreesLater
<1>4. At(View(snap, k), t) \in Stores /\ Agrees(At(View(snap, k), t), truth[k], t)
  BY <1>1, <1>2, <1>3, AgreesWithout DEF At
<1> QED BY <1>1, <1>4, RecoveredIs

\* A running database's Get, too.
LEMMA GetAgrees ==
    ASSUME TimedInv, phase = "open", NEW k \in Keys
    PROVE  /\ Get(k) \in Stores /\ Agrees(Get(k), truth[k], now)
           /\ Get(k) # None <=> AliveAt(truth[k], now)
           /\ Get(k) # None => ~isExpired(Get(k).exp, now)
           /\ index[k] \in Stores /\ Agrees(index[k], truth[k], now)
           /\ truth[k] \in Promises \cup {None}
<1>1. index[k] \in Stores /\ Agrees(index[k], truth[k], now)
      /\ truth[k] \in Promises \cup {None} /\ now \in Nat
  BY Facts DEF TimedInv, Typed, Images, Kept
<1>2. Get(k) = IF index[k] # None /\ Past(index[k].exp, now) THEN None ELSE index[k]
  BY <1>1, AgreesWithout DEF Get
<1>3. Get(k) \in Stores /\ Agrees(Get(k), truth[k], now)
  BY <1>1, <1>2, AgreesWithout
<1>4. Get(k) # None => ~isExpired(Get(k).exp, now)
  BY DEF Get
<1>5. Get(k) # None <=> AliveAt(truth[k], now)
  BY <1>3, <1>4 DEF Agrees
<1> QED BY <1>1, <1>3, <1>4, <1>5

-----------------------------------------------------------------------------
(* A write *)

LEMMA Appended ==
    ASSUME Typed, NEW r, log' = Append(log, r)
    PROVE  /\ Len(log) \in Nat /\ Len(log') = Len(log) + 1
           /\ DOMAIN log = 1..Len(log) /\ DOMAIN log' = DOMAIN log \cup {Len(log) + 1}
           /\ \A i \in DOMAIN log : log'[i] = log[i]
           /\ log'[Len(log) + 1] = r
<1> DEFINE R == [key : Keys, entry : Stores, seg : Nat]
<1>1. log \in Seq(R)
  BY DEF Typed
<1> HIDE DEF R
<1>2. log \in Seq(R \cup {r}) /\ r \in R \cup {r}
  BY <1>1
<1>3. Len(log') = Len(log) + 1 /\ log'[Len(log) + 1] = r
      /\ \A i \in 1..Len(log) : log'[i] = log[i]
  BY <1>2, AppendProperties
<1>4. log' \in Seq(R \cup {r})
  BY <1>2, AppendProperties
<1>5. DOMAIN log = 1..Len(log) /\ DOMAIN log' = 1..Len(log') /\ Len(log) \in Nat
  BY <1>2, <1>4
<1>6. 1..(Len(log) + 1) = (1..Len(log)) \cup {Len(log) + 1}
  BY <1>5
<1> QED BY <1>3, <1>5, <1>6

\* A write moves the view of its own key, of every capture so far.
LEMMA ViewAfterPut ==
    ASSUME Typed, NEW k, NEW r, r.key = k, log' = Append(log, r),
           NEW c, c.at \in Nat, c.at <= Len(log), NEW j
    PROVE  View(c, j)' = IF j = k THEN r.entry ELSE View(c, j)
<1> DEFINE n == Len(log) + 1
<1>1. /\ Len(log) \in Nat /\ DOMAIN log = 1..Len(log) /\ DOMAIN log' = DOMAIN log \cup {n}
      /\ \A i \in DOMAIN log : log'[i] = log[i]
      /\ log'[n] = r /\ Len(log') = n
  BY Appended
<1>2. n \in Nat /\ n > c.at /\ \A i \in DOMAIN log : i \in Nat /\ n > i
  BY <1>1
<1> HIDE DEF n
<1>3. CASE j = k
  <2>1. n \in After(c, j)'
    BY <1>1, <1>2, <1>3 DEF After
  <2>2. After(c, j)' \subseteq 0..n /\ \A i \in After(c, j)' : n >= i
    BY <1>1, <1>2 DEF After
  <2>3. Max(After(c, j)') = n
    BY <1>2, <2>1, <2>2, MaxIs
  <2> QED BY <1>1, <1>3, <2>1, <2>3 DEF View
<1>4. CASE j # k
  <2>1. After(c, j)' = After(c, j)
    BY <1>1, <1>4 DEF After
  <2>2. CASE After(c, j) = {}
    BY <1>4, <2>1, <2>2 DEF View
  <2>3. CASE After(c, j) # {}
    <3>1. Max(After(c, j)) \in DOMAIN log
      BY <2>3, LastAfter DEF After
    <3> QED BY <1>1, <1>4, <2>1, <2>3, <3>1 DEF View
  <2> QED BY <2>2, <2>3
<1> QED BY <1>3, <1>4

\* It goes after every capture, into a segment no capture is beyond.
LEMMA CutAfterPut ==
    ASSUME Typed, NEW r, log' = Append(log, r), r.seg = cur', cur' \in {cur, cur + 1},
           NEW c, c.at \in Nat, c.seq \in Nat, CutInv(c)
    PROVE  CutInv(c)'
<1>1. /\ Len(log) \in Nat /\ DOMAIN log = 1..Len(log) /\ DOMAIN log' = DOMAIN log \cup {Len(log) + 1}
      /\ \A i \in DOMAIN log : log'[i] = log[i]
      /\ log'[Len(log) + 1] = r /\ Len(log') = Len(log) + 1
  BY Appended
<1>2. cur \in Nat /\ c.seq <= cur' /\ c.at <= Len(log') /\ cur' \in Nat
  BY <1>1, Facts DEF CutInv, Typed
<1>3. \A i \in DOMAIN log' : (i <= c.at => log'[i].seg <= c.seq) /\ (i > c.at => log'[i].seg >= c.seq)
  <2> SUFFICES ASSUME NEW i \in DOMAIN log'
               PROVE  (i <= c.at => log'[i].seg <= c.seq) /\ (i > c.at => log'[i].seg >= c.seq)
    OBVIOUS
  <2>1. CASE i \in DOMAIN log
    BY <1>1, <2>1 DEF CutInv
  <2>2. CASE i = Len(log) + 1
    BY <1>1, <1>2, <2>2 DEF CutInv
  <2> QED BY <1>1, <2>1, <2>2
<1> QED BY <1>2, <1>3 DEF CutInv

LEMMA PutStep ==
    ASSUME TimedInv, phase = "open", NEW k \in Keys, NEW e \in Stores,
           NEW p \in Promises \cup {None}, Agrees(e, p, now), Put(k, e, p)
    PROVE  TimedInv'
<1>1. /\ cur' \in {cur, cur + 1} /\ cur' <= MaxSeq
      /\ index' = [index EXCEPT ![k] = e] /\ truth' = [truth EXCEPT ![k] = p]
      /\ now' = now /\ phase' = phase /\ snap' = snap /\ comp' = comp
  BY DEF Put
<1>2. PICK r : r = [key |-> k, entry |-> e, seg |-> cur']
  OBVIOUS
<1>3. log' = Append(log, r) /\ r.key = k /\ r.entry = e /\ r.seg = cur'
  BY <1>2 DEF Put
<1>4. Typed
  BY DEF TimedInv
<1>5. /\ Len(log) \in Nat /\ DOMAIN log = 1..Len(log) /\ DOMAIN log' = DOMAIN log \cup {Len(log) + 1}
      /\ \A i \in DOMAIN log : log'[i] = log[i]
      /\ log'[Len(log) + 1] = r
  BY <1>3, <1>4, Appended
<1>6. cur' \in 1..MaxSeq /\ cur' >= cur /\ cur \in Nat
  BY <1>1, <1>4, Facts DEF Typed
<1>7. Typed'
  <2>1. index' \in Images /\ truth' \in [Keys -> Promises \cup {None}]
    BY <1>1, <1>4 DEF Typed, Images
  <2>2. log' \in Seq([key : Keys, entry : Stores, seg : Nat])
    <3> DEFINE R == [key : Keys, entry : Stores, seg : Nat]
    <3>1. r \in R
      BY <1>2, <1>6, Facts
    <3>2. log \in Seq(R)
      BY <1>4 DEF Typed
    <3> HIDE DEF R
    <3>3. log' \in Seq(R)
      BY <1>3, <3>1, <3>2
    <3> QED BY <3>3 DEF R
  <2>3. \A i \in DOMAIN log' : log'[i].seg \in 1..cur'
    <3> SUFFICES ASSUME NEW i \in DOMAIN log' PROVE log'[i].seg \in 1..cur'
      OBVIOUS
    <3>1. CASE i \in DOMAIN log
      <4>1. log[i].seg \in 1..cur
        BY <1>4, <3>1 DEF Typed
      <4> QED BY <1>5, <1>6, <3>1, <4>1
    <3>2. CASE i = Len(log) + 1
      BY <1>3, <1>5, <1>6, <3>2, Facts
    <3> QED BY <1>5, <3>1, <3>2
  <2> QED BY <1>1, <1>4, <1>6, <2>1, <2>2, <2>3 DEF Typed
<1>8. Kept'
  <2> SUFFICES ASSUME NEW j \in Keys PROVE Agrees(index'[j], truth'[j], now)
    BY <1>1 DEF Kept
  <2>1. CASE j = k
    BY <1>1, <1>4, <2>1 DEF Typed, Images
  <2>2. CASE j # k
    BY <1>1, <1>4, <2>2 DEF Typed, Images, TimedInv, Kept
  <2> QED BY <2>1, <2>2
<1>9. CompInv'
  <2> SUFFICES ASSUME comp # None
               PROVE  /\ phase' = "open" /\ CutInv(comp)'
                      /\ \A j \in Keys : Agrees(View(comp, j)', truth'[j], now)
    BY <1>1 DEF CompInv
  <2>1. PICK c : c = comp
    OBVIOUS
  <2>2. c.at \in Nat /\ c.seq \in Nat /\ CutInv(c) /\ c.at <= Len(log)
        /\ \A j \in Keys : Agrees(View(c, j), truth[j], now)
    BY <1>4, <2>1 DEF Typed, TimedInv, CompInv, CutInv
  <2>3. CutInv(c)'
    BY <1>1, <1>3, <1>4, <2>2, CutAfterPut
  <2>4. ASSUME NEW j \in Keys PROVE Agrees(View(c, j)', truth'[j], now)
    <3>1. View(c, j)' = IF j = k THEN e ELSE View(c, j)
      BY <1>3, <1>4, <2>2, ViewAfterPut
    <3> QED BY <1>1, <1>4, <2>2, <3>1 DEF Typed
  <2> QED BY <1>1, <2>1, <2>3, <2>4 DEF View, After, CutInv
<1>10. SnapInv'
  <2>1. PICK c : c = snap
    OBVIOUS
  <2>2. c.at \in Nat /\ c.seq \in Nat /\ CutInv(c) /\ c.at <= Len(log)
        /\ \A j \in Keys \ Skipped : Agrees(View(c, j), truth[j], now)
    BY <1>4, <2>1 DEF Typed, TimedInv, SnapInv, CutInv
  <2>3. CutInv(c)'
    BY <1>1, <1>3, <1>4, <2>2, CutAfterPut
  <2>4. ASSUME NEW j \in Keys, j \in Skipped PROVE j \in Skipped'
    BY <1>1, <1>5, <2>4 DEF Skipped
  <2>5. ASSUME NEW j \in Keys \ Skipped PROVE Agrees(View(c, j)', truth'[j], now)
    <3>1. View(c, j)' = IF j = k THEN e ELSE View(c, j)
      BY <1>3, <1>4, <2>2, ViewAfterPut
    <3> QED BY <1>1, <1>4, <2>2, <3>1 DEF Typed
  <2>6. ASSUME NEW j \in Keys \ Skipped' PROVE Agrees(View(c, j)', truth'[j], now)
    BY <2>4, <2>5, <2>6
  <2>7. CutInv(snap)' /\ \A j \in Keys \ Skipped' : Agrees(View(snap, j)', truth'[j], now)
    BY <1>1, <2>1, <2>3, <2>6 DEF View, After, CutInv
  <2> QED BY <1>1, <2>7 DEF SnapInv
<1> QED BY <1>7, <1>8, <1>9, <1>10 DEF TimedInv

\* What the calls store agrees with what they tell: with no deadline, and with
\* one that is computed from a reading t of the clock.
LEMMA ForeverAgrees ==
    ASSUME NEW v \in Ints \cup {Text}, NEW w \in Int \cup {Text}, v = Wrapped(w), NEW t \in Nat
    PROVE  /\ Stored(v, NoTTL) \in Stores /\ Promised(w, Never) \in Promises
           /\ Agrees(Stored(v, NoTTL), Promised(w, Never), t)
<1>1. NoTTL \in Ints /\ NoTTL # 0 /\ NoTTL < 0 /\ Never \in Int
  BY Facts DEF NoTTL, Ints, Never
<1> QED BY <1>1, StoreIn, PromiseIn, AgreesNew

LEMMA DeadlineAgrees ==
    ASSUME NEW v \in Ints \cup {Text}, NEW w \in Int \cup {Text}, v = Wrapped(w),
           NEW t \in 0..MaxInt, NEW ttl \in 1..MaxInt, NEW u \in 0..MaxInt
    PROVE  /\ Stored(v, Deadline(t, ttl)) \in Stores /\ Promised(w, t + ttl) \in Promises
           /\ Agrees(Stored(v, Deadline(t, ttl)), Promised(w, t + ttl), u)
<1> DEFINE d == Deadline(t, ttl)
           p == t + ttl
<1>1. d \in Ints /\ d # 0 /\ IF p > MaxInt THEN d < 0 ELSE d = p
  BY DeadlineIs
<1>2. p \in Int /\ p > 0 /\ u \in Nat /\ u <= MaxInt
  BY Facts
<1> HIDE DEF d, p
<1>3. \/ p > MaxInt /\ d < 0 /\ u <= MaxInt
      \/ p > 0 /\ p <= MaxInt /\ d = p
  BY <1>1, <1>2, Facts
<1>4. Stored(v, d) \in Stores /\ Promised(w, p) \in Promises
  BY <1>1, <1>2, StoreIn, PromiseIn
<1>5. Agrees(Stored(v, d), Promised(w, p), u)
  BY <1>1, <1>2, <1>3, AgreesNew
<1> QED BY <1>4, <1>5 DEF d, p

LEMMA ValuesKept ==
    ASSUME NEW v \in Values
    PROVE  v \in Ints \cup {Text} /\ v \in Int \cup {Text} /\ v = Wrapped(v)
<1>1. v \in Ints \cup {Text} /\ Ints \subseteq Int
  BY TimedConstants DEF Ints
<1> QED BY <1>1, WrapSame, Facts DEF Wrapped

\* What Get finds has the promised value, wrapped.
LEMMA GetValue ==
    ASSUME TimedInv, phase = "open", NEW k \in Keys, Get(k) # None
    PROVE  /\ Get(k).val \in Ints \cup {Text} /\ truth[k].val \in Int \cup {Text}
           /\ Get(k).val = Wrapped(truth[k].val)
           /\ truth[k] # None /\ AliveAt(truth[k], now)
           /\ Get(k).exp \in Ints /\ Get(k).exp # 0
           /\ truth[k].exp \in Int /\ (truth[k].exp = Never \/ truth[k].exp > 0)
           /\ IF truth[k].exp = Never \/ truth[k].exp > MaxInt
              THEN Get(k).exp < 0 ELSE Get(k).exp = truth[k].exp
<1>1. Get(k) \in Stores /\ Agrees(Get(k), truth[k], now) /\ AliveAt(truth[k], now)
      /\ truth[k] \in Promises \cup {None}
  BY GetAgrees
<1>2. truth[k] # None
  BY <1>1 DEF AliveAt
<1>3. Get(k).exp \in Ints
  BY <1>1, StoresType DEF Entry
<1> QED BY <1>1, <1>2, <1>3, StoresType, PromiseType DEF Agrees

LEMMA UpdateStep ==
    ASSUME TimedInv, NEW k \in Keys, Update(k)
    PROVE  TimedInv'
<1>1. now \in 1..MaxInt /\ now \in Nat /\ now - 1 \in 0..MaxInt /\ now \in 0..MaxInt
  BY Facts DEF TimedInv, Typed
<1>2. ASSUME NEW v \in Values, Set(k, v) \/ SetNX(k, v)
      PROVE  TimedInv'
  <2>1. phase = "open" /\ Put(k, Stored(v, NoTTL), Promised(v, Never))
    BY <1>2 DEF Set, SetNX
  <2> QED BY <1>1, <2>1, ValuesKept, ForeverAgrees, PutStep
<1>3. ASSUME NEW v \in Values, NEW ttl \in TTLs, NEW t \in {now - 1, now}, SetWithTTL(k, v, ttl, t)
      PROVE  TimedInv'
  <2>1. phase = "open" /\ Put(k, Stored(v, Deadline(t, ttl)), Promised(v, t + ttl))
    BY <1>3 DEF SetWithTTL
  <2>2. ttl \in 1..MaxInt /\ t \in 0..MaxInt
    BY <1>1, TimedConstants
  <2> QED BY <1>1, <2>1, <2>2, ValuesKept, DeadlineAgrees, PutStep
<1>4. ASSUME Delete(k) PROVE TimedInv'
  <2>1. phase = "open" /\ Put(k, None, None)
    BY <1>4 DEF Delete
  <2>2. None \in Stores /\ Agrees(None, None, now)
    BY DEF Stores, Agrees, AliveAt
  <2> QED BY <2>1, <2>2, PutStep
<1>5. ASSUME NEW ttl \in TTLs, Expire(k, ttl) PROVE TimedInv'
  <2>1. /\ phase = "open" /\ Get(k) # None
        /\ Put(k, Stored(Get(k).val, Deadline(now, ttl)), Promised(truth[k].val, now + ttl))
    BY <1>5 DEF Expire
  <2>2. ttl \in 1..MaxInt
    BY TimedConstants
  <2> QED BY <1>1, <2>1, <2>2, GetValue, DeadlineAgrees, PutStep
<1>6. ASSUME Persist(k) PROVE TimedInv'
  <2>1. /\ phase = "open" /\ Get(k) # None
        /\ Put(k, Stored(Get(k).val, NoTTL), Promised(truth[k].val, Never))
    BY <1>6 DEF Persist
  <2> QED BY <1>1, <2>1, GetValue, ForeverAgrees, PutStep
<1>7. ASSUME NEW delta \in Deltas, IncrBy(k, delta) PROVE TimedInv'
  <2> DEFINE current == IF Get(k) = None THEN 0 ELSE Get(k).val
             sum == IF AliveAt(truth[k], now) THEN truth[k].val ELSE 0
  <2>1. /\ phase = "open" /\ current # Text
        /\ Put(k, Stored(Wrap(current + delta), NoTTL), Promised(sum + delta, Never))
    BY <1>7 DEF IncrBy
  <2>2. delta \in Int
    BY TimedConstants DEF Ints
  <2>3. sum \in Int /\ current = Wrap(sum)
    <3>1. CASE Get(k) = None
      <4>1. sum = 0 /\ current = 0
        BY <2>1, <3>1, GetAgrees
      <4>2. Wrap(0) = 0
        BY WrapSame, Facts DEF Ints
      <4> QED BY <4>1, <4>2
    <3>2. CASE Get(k) # None
      <4>1. current = Wrapped(truth[k].val) /\ sum = truth[k].val /\ sum \in Int \cup {Text}
        BY <2>1, <3>2, GetValue
      <4> QED BY <2>1, <4>1 DEF Wrapped
    <3> QED BY <3>1, <3>2
  <2> HIDE DEF current, sum
  <2>4. sum + delta \in Int /\ sum + delta \in Int \cup {Text}
    BY <2>2, <2>3
  <2>5. Wrap(current + delta) = Wrapped(sum + delta) /\ Wrap(current + delta) \in Ints \cup {Text}
    <3>1. Wrap(current + delta) = Wrap(sum + delta)
      BY <2>2, <2>3, WrapSum
    <3> QED BY <2>4, <3>1, WrapIn, Facts DEF Wrapped
  <2> QED BY <1>1, <2>1, <2>4, <2>5, ForeverAgrees, PutStep
<1>8. ASSUME NEW old, NEW v \in Values, CompareAndSwap(k, old, v)
      PROVE  TimedInv'
  <2>1. /\ phase = "open" /\ Get(k) # None
        /\ Put(k, Stored(v, Get(k).exp), Promised(v, truth[k].exp))
    BY <1>8 DEF CompareAndSwap
  <2>2. PICK d : d = Get(k).exp
    OBVIOUS
  <2>3. PICK p : p = truth[k].exp
    OBVIOUS
  <2>4. d \in Ints /\ d # 0 /\ p \in Int /\ (p = Never \/ p > 0)
        /\ IF p = Never \/ p > MaxInt THEN d < 0 ELSE d = p
    BY <2>1, <2>2, <2>3, GetValue
  <2>5. \/ p = Never /\ d < 0
        \/ p > MaxInt /\ d < 0 /\ now <= MaxInt
        \/ p > 0 /\ p <= MaxInt /\ d = p
    BY <1>1, <2>4, Facts DEF Never
  <2>6. Stored(v, d) \in Stores /\ Promised(v, p) \in Promises
    BY <2>4, ValuesKept, StoreIn, PromiseIn
  <2>7. Agrees(Stored(v, d), Promised(v, p), now)
    BY <1>1, <2>4, <2>5, ValuesKept, AgreesNew
  <2> QED BY <2>1, <2>2, <2>3, <2>6, <2>7, PutStep
<1> QED BY <1>2, <1>3, <1>4, <1>5, <1>6, <1>7, <1>8 DEF Update

-----------------------------------------------------------------------------
(* The other steps *)

LEMMA InitInv == Init => TimedInv
<1> SUFFICES ASSUME Init PROVE TimedInv
  OBVIOUS
<1>1. /\ now = 1 /\ phase = "closed" /\ index = Empty /\ log = << >> /\ cur = 1
      /\ snap = NoSnapshot /\ comp = None /\ truth = Empty
  BY DEF Init
<1>2. Empty \in Images /\ Empty \in [Keys -> Promises \cup {None}]
  BY DEF Empty, Images, Stores
<1>3. DOMAIN log = {} /\ Len(log) = 0
  BY <1>1
<1>4. log \in Seq([key : Keys, entry : Stores, seg : Nat])
  BY <1>1
<1>5. /\ snap = [seq |-> 0, map |-> Empty, at |-> 0] /\ snap.at = 0 /\ snap.seq = 0
      /\ snap.map = Empty
  BY <1>1 DEF NoSnapshot
<1>6. Typed
  BY <1>1, <1>2, <1>3, <1>4, <1>5, Facts DEF Typed
<1>7. CutInv(snap)
  BY <1>1, <1>3, <1>5 DEF CutInv
<1>8. ASSUME NEW k \in Keys PROVE Agrees(View(snap, k), truth[k], now)
  <2>1. After(snap, k) = {}
    BY <1>3 DEF After
  <2>2. View(snap, k) = None /\ truth[k] = None
    BY <1>1, <1>5, <2>1 DEF View, Empty
  <2> QED BY <2>2 DEF Agrees, AliveAt
<1>9. Kept /\ CompInv
  BY <1>1 DEF Kept, CompInv
<1> QED BY <1>6, <1>7, <1>8, <1>9 DEF TimedInv, SnapInv

LEMMA TickStep == ASSUME TimedInv, Tick PROVE TimedInv'
<1>1. UNCHANGED <<phase, index, log, cur, snap, comp, truth>>
      /\ now' = now + 1 /\ now < MaxTime
  BY DEF Tick
<1>2. Typed /\ now \in Nat /\ now' \in 1..MaxTime /\ now' \in now..MaxInt
  BY <1>1, Facts DEF TimedInv, Typed
<1>3. Typed'
  BY <1>1, <1>2 DEF Typed
<1>4. ASSUME NEW k \in Keys PROVE truth[k] \in Promises \cup {None}
  BY <1>2 DEF Typed
<1>5. Kept'
  <2> SUFFICES ASSUME phase = "open", NEW k \in Keys
               PROVE  Agrees(index[k], truth[k], now')
    BY <1>1 DEF Kept
  <2> QED BY <1>2, GetAgrees, AgreesLater
<1>6. CompInv'
  <2> SUFFICES ASSUME comp # None
               PROVE  /\ phase = "open" /\ CutInv(comp)
                      /\ \A k \in Keys : Agrees(View(comp, k), truth[k], now')
    BY <1>1 DEF CompInv, CutInv, View, After
  <2>1. ASSUME NEW k \in Keys PROVE Agrees(View(comp, k), truth[k], now')
    <3>1. Agrees(View(comp, k), truth[k], now)
      BY DEF TimedInv, CompInv
    <3>2. View(comp, k) \in Stores
      BY <1>2, ViewType DEF Typed
    <3> QED BY <1>2, <1>4, <3>1, <3>2, AgreesLater
  <2> QED BY <2>1 DEF TimedInv, CompInv
<1>7. SnapInv'
  <2> SUFFICES CutInv(snap) /\ \A k \in Keys \ Skipped : Agrees(View(snap, k), truth[k], now')
    BY <1>1 DEF SnapInv, CutInv, View, After, Skipped
  <2>1. ASSUME NEW k \in Keys \ Skipped PROVE Agrees(View(snap, k), truth[k], now')
    <3>1. Agrees(View(snap, k), truth[k], now)
      BY DEF TimedInv, SnapInv
    <3>2. View(snap, k) \in Stores
      BY <1>2, ViewType DEF Typed
    <3> QED BY <1>2, <1>4, <3>1, <3>2, AgreesLater
  <2> QED BY <2>1 DEF TimedInv, SnapInv
<1> QED BY <1>3, <1>5, <1>6, <1>7 DEF TimedInv

LEMMA PurgeStep == ASSUME TimedInv, NEW k \in Keys, Purge(k) PROVE TimedInv'
<1>1. /\ UNCHANGED <<now, phase, log, cur, snap, comp, truth>>
      /\ phase = "open" /\ index[k] # None /\ isExpired(index[k].exp, now)
      /\ index' = [index EXCEPT ![k] = None]
  BY DEF Purge
<1>2. Typed'
  <2>1. index' \in Images
    BY <1>1 DEF TimedInv, Typed, Images, Stores
  <2> QED BY <1>1, <2>1 DEF TimedInv, Typed
<1>3. Kept'
  <2> SUFFICES ASSUME NEW j \in Keys PROVE Agrees(index'[j], truth[j], now)
    BY <1>1 DEF Kept
  <2>1. Agrees(index[j], truth[j], now)
    BY <1>1 DEF TimedInv, Kept
  <2>2. CASE j = k
    <3>1. ~AliveAt(truth[j], now) /\ index'[j] = None
      BY <1>1, <2>1, <2>2 DEF Agrees, TimedInv, Typed, Images
    <3> QED BY <3>1 DEF Agrees
  <2>3. CASE j # k
    BY <1>1, <2>1, <2>3 DEF TimedInv, Typed, Images
  <2> QED BY <2>2, <2>3
<1>4. CompInv'
  BY <1>1 DEF TimedInv, CompInv, CutInv, View, After
<1>5. SnapInv'
  BY <1>1 DEF TimedInv, SnapInv, CutInv, View, After, Skipped
<1> QED BY <1>2, <1>3, <1>4, <1>5 DEF TimedInv

LEMMA CaptureStep == ASSUME TimedInv, Capture PROVE TimedInv'
<1>1. /\ UNCHANGED <<now, phase, index, log, cur, snap, truth>> /\ phase = "open"
      /\ comp' = [seq |-> cur, map |-> [k \in Keys |-> Get(k)], at |-> Len(log)]
  BY DEF Capture
<1>2. PICK c : c = comp'
  OBVIOUS
<1>3. c.seq = cur /\ c.map = [k \in Keys |-> Get(k)] /\ c.at = Len(log)
  BY <1>1, <1>2
<1>4. c.map \in Images
  BY <1>1, <1>3, GetAgrees DEF Images
<1>5. cur \in Nat \ {0} /\ Len(log) \in Nat /\ Typed
  BY Facts DEF TimedInv, Typed
<1>6. c \in [seq : Nat \ {0}, map : Images, at : Nat]
  BY <1>1, <1>2, <1>3, <1>4, <1>5
<1>7. CutInv(c)
  <2>1. \A i \in DOMAIN log : i \in 1..Len(log) /\ log[i].seg <= cur
    BY <1>5, LogType
  <2> QED BY <1>3, <1>5, <2>1 DEF CutInv
<1>8. ASSUME NEW k \in Keys PROVE Agrees(View(c, k), truth[k], now)
  <2>1. After(c, k) = {}
    BY <1>3, <1>5, LogType DEF After
  <2>2. View(c, k) = Get(k)
    BY <1>3, <2>1 DEF View
  <2> QED BY <1>1, <2>2, GetAgrees
<1>9. Typed'
  BY <1>1, <1>2, <1>6 DEF TimedInv, Typed
<1>10. CompInv'
  BY <1>1, <1>2, <1>7, <1>8 DEF CompInv, CutInv, View, After
<1>11. Kept' /\ SnapInv'
  BY <1>1, ZenonT(40) DEF TimedInv, Kept, SnapInv, CutInv, View, After, Skipped
<1> QED BY <1>9, <1>10, <1>11 DEF TimedInv

LEMMA WriteSnapshotStep == ASSUME TimedInv, WriteSnapshot PROVE TimedInv'
<1>1. /\ UNCHANGED <<now, phase, index, log, cur, truth>>
      /\ comp # None /\ comp' = None /\ snap' = [comp EXCEPT !.map = Later(@, now)]
  BY DEF WriteSnapshot
<1>2. PICK c : c = snap'
  OBVIOUS
<1>3. Typed /\ comp \in [seq : Nat \ {0}, map : Images, at : Nat] /\ now \in Nat
  BY <1>1, Facts DEF TimedInv, Typed
<1>4. c.seq = comp.seq /\ c.at = comp.at /\ c.map = Later(comp.map, now)
      /\ c = [seq |-> comp.seq, map |-> Later(comp.map, now), at |-> comp.at]
  BY <1>1, <1>2, <1>3
<1>5. ASSUME NEW k \in Keys
      PROVE  /\ c.map[k] \in Stores
             /\ Agrees(View(c, k), truth[k], now)
  <2>1. /\ Agrees(View(comp, k), truth[k], now) /\ truth[k] \in Promises \cup {None}
        /\ comp.map[k] \in Stores
    BY <1>1, <1>3 DEF TimedInv, CompInv, Typed, Images
  <2>2. c.map[k] = At(comp.map[k], now) /\ After(c, k) = After(comp, k)
    BY <1>4 DEF Later, At, After
  <2>3. At(comp.map[k], now) \in Stores
    BY <2>1 DEF At, Stores
  <2>4. CASE After(comp, k) = {}
    <3>1. View(comp, k) = comp.map[k] /\ View(c, k) = At(comp.map[k], now)
      BY <2>2, <2>4 DEF View
    <3>2. Agrees(At(comp.map[k], now), truth[k], now)
      BY <1>3, <2>1, <3>1, AgreesWithout DEF At
    <3> QED BY <2>2, <2>3, <3>1, <3>2
  <2>5. CASE After(comp, k) # {}
    BY <2>1, <2>2, <2>3, <2>5 DEF View
  <2> QED BY <2>4, <2>5
<1>6. c.map \in Images
  <2>1. c.map = [k \in Keys |-> c.map[k]]
    BY <1>4 DEF Later
  <2> QED BY <1>5, <2>1 DEF Images
<1>7. CutInv(c)
  BY <1>1, <1>4 DEF TimedInv, CompInv, CutInv
<1>8. Typed'
  BY <1>1, <1>2, <1>3, <1>4, <1>6 DEF Typed
<1>9. SnapInv'
  BY <1>1, <1>2, <1>5, <1>7 DEF SnapInv, CutInv, View, After
<1>10. Kept' /\ CompInv'
  BY <1>1 DEF TimedInv, Kept, CompInv
<1> QED BY <1>8, <1>9, <1>10 DEF TimedInv

LEMMA StopStep == ASSUME TimedInv, Stop PROVE TimedInv'
<1>1. /\ UNCHANGED <<now, log, cur, snap, truth>>
      /\ phase' = "closed" /\ index' = Empty /\ comp' = None
  BY DEF Stop
<1>2. Typed'
  BY <1>1 DEF TimedInv, Typed, Empty, Images, Stores
<1>3. Kept' /\ CompInv'
  BY <1>1 DEF Kept, CompInv
<1>4. SnapInv'
  BY <1>1 DEF TimedInv, SnapInv, CutInv, View, After, Skipped
<1> QED BY <1>2, <1>3, <1>4 DEF TimedInv

\* What a client finds at Open agrees with what it then takes for promised.
LEMMA FoundAgrees ==
    ASSUME NEW e \in Stores, NEW t \in Nat
    PROVE  At(e, t) \in Stores /\ Found(At(e, t)) \in Promises \cup {None}
           /\ Agrees(At(e, t), Found(At(e, t)), t)
<1> DEFINE a == At(e, t)
<1>1. a \in Stores /\ (a # None => ~Past(a.exp, t))
  BY DEF At, Stores
<1> HIDE DEF a
<1>2. CASE a = None
  BY <1>1, <1>2 DEF Found, Agrees, AliveAt, a
<1>3. CASE a # None
  <2>1. a \in Entry /\ a.val \in Ints \cup {Text} /\ a.exp \in Int /\ a.exp # 0 /\ a.exp <= MaxInt
    BY <1>1, <1>3, StoresType
  <2>2. PICK d : d = IF a.exp < 0 THEN Never ELSE a.exp
    OBVIOUS
  <2>3. Found(a) = [val |-> a.val, exp |-> d]
    BY <1>3, <2>1, <2>2 DEF Found, Entry
  <2>4. d \in Int /\ (d = Never \/ d > 0)
    BY <2>1, <2>2 DEF Never
  <2>5. a.val \in Int \cup {Text} /\ a.val = Wrapped(a.val)
    BY <2>1, WrapSame, Facts DEF Wrapped, Ints
  <2>6. Found(a) = Promised(a.val, d)
    BY <2>3 DEF Promised
  <2>7. Found(a) \in Promises /\ Found(a) # None /\ Found(a).val = a.val /\ Found(a).exp = d
    BY <2>4, <2>5, <2>6, PromiseIn, ZenonT(40)
  <2>8. ~isExpired(a.exp, t) /\ AliveAt(Found(a), t)
    BY <1>1, <1>3, <2>1, <2>2, <2>7 DEF isExpired, Past, AliveAt, Never
  <2>9. IF d = Never \/ d > MaxInt THEN a.exp < 0 ELSE a.exp = d
    BY <2>1, <2>2, Facts DEF Never
  <2>10. Agrees(a, Found(a), t)
    BY <1>3, <2>5, <2>7, <2>8, <2>9 DEF Agrees
  <2> QED BY <1>1, <2>7, <2>10 DEF a
<1> QED BY <1>2, <1>3

\* Recovery's result, for a key it skips as well, is an entry without what has
\* expired.
LEMMA RecoveredEntry ==
    ASSUME Typed, NEW t, NEW k \in Keys
    PROVE  \E e \in Stores : Recovered(t)[k] = At(e, t)
<1> DEFINE P == {i \in DOMAIN log : log[i].key = k /\ log[i].seg > snap.seq}
<1>1. Recovered(t)[k] =
        IF P = {} THEN At(snap.map[k], t) ELSE At(log[Max(P)].entry, t)
  BY DEF Recovered, Later, At
<1>2. CASE P = {}
  <2>1. snap.map[k] \in Stores
    BY DEF Typed, Images
  <2> QED BY <1>1, <1>2, <2>1
<1>3. CASE P # {}
  <2>1. P \subseteq 0..Len(log) /\ Len(log) \in Nat /\ P \subseteq DOMAIN log
    BY LogType DEF Typed
  <2> HIDE DEF P
  <2>2. Max(P) \in DOMAIN log
    BY <1>3, <2>1, MaxIn
  <2> QED BY <1>1, <1>3, <2>2, LogType
<1> QED BY <1>2, <1>3

LEMMA OpenStep == ASSUME TimedInv, Open PROVE TimedInv'
<1>1. /\ UNCHANGED <<now, log, cur, snap, comp>>
      /\ phase = "closed" /\ phase' = "open" /\ index' = Recovered(now)
      /\ truth' = [k \in Keys |-> IF k \in Skipped THEN Found(index'[k]) ELSE truth[k]]
  BY DEF Open
<1>2. comp = None /\ Typed /\ now \in Nat /\ now \in now..MaxTime
  BY <1>1, Facts DEF TimedInv, CompInv, Typed
<1>3. ASSUME NEW k \in Keys
      PROVE  index'[k] \in Stores /\ truth'[k] \in Promises \cup {None}
             /\ Agrees(index'[k], truth'[k], now)
  <2>1. CASE k \in Skipped
    <3>1. PICK e \in Stores : index'[k] = At(e, now)
      BY <1>1, <1>2, RecoveredEntry
    <3> QED BY <1>1, <1>2, <2>1, <3>1, FoundAgrees
  <2>2. CASE k \notin Skipped
    <3>1. truth[k] \in Promises \cup {None}
      BY <1>2 DEF Typed
    <3> QED BY <1>1, <1>2, <2>2, <3>1, RecoveredAgrees
  <2> QED BY <2>1, <2>2
<1>4. Typed'
  <2>1. index' = [k \in Keys |-> index'[k]]
    BY <1>1 DEF Recovered
  <2>2. index' \in Images
    BY <1>3, <2>1 DEF Images
  <2>3. truth' = [k \in Keys |-> truth'[k]]
    BY <1>1
  <2>4. truth' \in [Keys -> Promises \cup {None}]
    BY <1>3, <2>3
  <2> QED BY <1>1, <1>2, <2>2, <2>4 DEF Typed
<1>5. Kept' /\ CompInv'
  BY <1>1, <1>2, <1>3 DEF Kept, CompInv
<1>6. SnapInv'
  <2>1. \A k \in Keys \ Skipped : truth'[k] = truth[k]
    BY <1>1
  <2> QED BY <1>1, <2>1 DEF TimedInv, SnapInv, CutInv, View, After, Skipped
<1> QED BY <1>4, <1>5, <1>6 DEF TimedInv

LEMMA NextInv == TimedInv /\ [Next]_vars => TimedInv'
<1> SUFFICES ASSUME TimedInv, [Next]_vars PROVE TimedInv'
  OBVIOUS
<1>1. CASE UNCHANGED vars
  BY <1>1 DEF vars, TimedInv, Typed, Kept, CompInv, SnapInv, CutInv, View, After, Skipped
<1>2. CASE Tick
  BY <1>2, TickStep
<1>3. CASE \E k \in Keys : Update(k) \/ Purge(k)
  BY <1>3, UpdateStep, PurgeStep
<1>4. CASE Capture \/ WriteSnapshot
  BY <1>4, CaptureStep, WriteSnapshotStep
<1>5. CASE Stop \/ Open
  BY <1>5, StopStep, OpenStep
<1> QED BY <1>1, <1>2, <1>3, <1>4, <1>5 DEF Next

-----------------------------------------------------------------------------
(* The theorems *)

\* Every state is one that TimedInv describes.
THEOREM Invariance == Spec => []TimedInv
<1> QED BY InitInv, NextInv, PTL DEF Spec

\* The variables have their types: what is stored is an int64, deadlines
\* included, and no snapshot has a number beyond the segment written to.
THEOREM TypeCorrect == Spec => []TypeOK
<1>1. ASSUME TimedInv PROVE TypeOK
  <2>1. Typed /\ CutInv(snap)
    BY <1>1 DEF TimedInv, SnapInv
  <2>2. Stores \subseteq Entry \cup {None}
    BY DEF Stores
  <2>3. Images \subseteq Image
    BY <2>2 DEF Images, Image
  <2>4. \A i \in DOMAIN log : log[i].key \in Keys /\ log[i].entry \in Entry \cup {None}
                              /\ log[i].seg \in 1..cur
    BY <2>1, <2>2, LogType DEF Typed
  <2>5. snap.seq \in 0..cur /\ snap.map \in Image /\ snap.at \in 0..Len(log)
    BY <2>1, <2>3, Facts DEF Typed, CutInv
  <2>6. comp # None => comp.seq \in 1..cur /\ comp.map \in Image
    <3> SUFFICES ASSUME comp # None PROVE comp.seq \in 1..cur /\ comp.map \in Image
      OBVIOUS
    <3>1. CutInv(comp) /\ comp \in [seq : Nat \ {0}, map : Images, at : Nat] /\ cur \in Nat
      BY <1>1, <2>1, Facts DEF TimedInv, CompInv, Typed
    <3> QED BY <2>3, <3>1 DEF CutInv
  <2> QED BY <2>1, <2>3, <2>4, <2>5, <2>6 DEF TypeOK, Typed
<1> QED BY <1>1, Invariance, PTL

\* A running database shows each key exactly until its deadline, with the value
\* the calls add up to (ttl.go, atomic.go).
THEOREM KeptAlways == Spec => []Kept
<1>1. TimedInv => Kept
  BY DEF TimedInv
<1> QED BY <1>1, Invariance, PTL

\* So does the database that any later Open recovers from the log and the
\* snapshot, apart from the keys replayWAL skips (open.go:155).
THEOREM KeptWhenReopened == Spec => []KeptAcrossRestarts
<1>1. ASSUME TimedInv PROVE KeptAcrossRestarts
  BY <1>1, RecoveredAgrees DEF KeptAcrossRestarts
<1> QED BY <1>1, Invariance, PTL

=============================================================================
