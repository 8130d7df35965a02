---------------------------- MODULE BatchProofs ----------------------------
(***************************************************************************)
(* Proofs about Batch for any number of objects, operations, writes and    *)
(* handles.                                                                *)
(***************************************************************************)
EXTENDS Batch, SetLemmas, FiniteSetTheorems, SequenceTheorems

-----------------------------------------------------------------------------
(* The inductive invariant *)

\* The operations that addOp takes.
Taken == {op \in Op : op.key # NoKey /\ ~TooLarge(op)}

Records ==
    [key : Keys, val : Objects \cup {Direct, None}, try : Nat]

Tries ==
    [by : Objects \cup {Direct}, wish : Seq(Taken), how : {"running", "ok", "failed", "cut"}]

Typed ==
    /\ TypeOK
    /\ log \in Seq(Records)
    /\ tries \in Seq(Tries)
    /\ todo \in Seq(Taken)
    /\ \A b \in Objects : batch[b].ops \in Seq(Taken)

\* While an object can be written its operations are what its caller asked for.
Faithful ==
    \A b \in Objects :
        /\ ~batch[b].closed /\ ~batch[b].err => batch[b].ops = batch[b].wish
        /\ batch[b].discarded => batch[b].closed

\* The log holds the first n operations of write t, right after record a.
Block(t, a, n) ==
    /\ Of(t) = (a + 1)..(a + n)
    /\ n <= Len(tries[t].wish)
    /\ \A i \in 1..n :
          log[a + i].key = tries[t].wish[i].key /\ log[a + i].val = tries[t].wish[i].val

Blocks ==
    \A t \in DOMAIN tries :
        \E a, n \in 0..Len(log) :
            Block(t, a, n) /\ (tries[t].how = "ok" => n = Len(tries[t].wish))

\* The write that holds db.mu: its records end the log, and what is to be
\* appended yet is the rest of its operations.
Underway(n) ==
    LET t == Len(tries)
        wish == tries[t].wish
    IN  /\ t > 0 /\ n <= Len(wish)
        /\ tries[t].by = holder /\ wish = batch[holder].ops
        /\ todo = SubSeq(wish, n + 1, Len(wish))
        /\ opened <= Len(log) - n
        /\ Block(t, Len(log) - n, n)

Holding ==
    /\ holder # None =>
         /\ batch[holder].db > 0 /\ ~batch[holder].closed
         /\ \E n \in 0..Len(log) : Underway(n)
    /\ holder = None => todo = << >>
    /\ \A t \in DOMAIN tries :
          tries[t].how = "running" <=> holder # None /\ t = Len(tries)

\* An object that was written, or whose process died, is not written again.
Dead(b) == batch[b].closed \/ batch[b].db = -1

Finished ==
    \A t \in DOMAIN tries :
        tries[t].by \in Objects /\ tries[t].how \in {"ok", "cut"} => Dead(tries[t].by)

BatchInv ==
    /\ Typed
    /\ Faithful
    /\ Blocks
    /\ Holding
    /\ Finished
    /\ WrittenOnce
    /\ IndexExplained

-----------------------------------------------------------------------------
(* The operators *)

Values == Objects \cup {Direct, None}

LEMMA TakenFields ==
    ASSUME NEW op \in Taken
    PROVE  op \in Op /\ op.key \in Keys /\ op.val \in Values
           /\ op = [key |-> op.key, val |-> op.val]
BY DEF Taken, TooLarge, Op, Values

LEMMA TakenIs ==
    ASSUME NEW op \in Op, op.key \in Keys, op.val \in Values
    PROVE  op \in Taken
BY BatchConstants DEF Taken, TooLarge, Values

\* Records that agree at the positions P leave the same.
LEMMA ReplaySame ==
    ASSUME NEW m, NEW s, NEW u, NEW n \in Nat, NEW P \in SUBSET (1..n),
           \A i \in P : s[i].key = u[i].key /\ s[i].val = u[i].val
    PROVE  Replayed(m, s, P) = Replayed(m, u, P)
<1> SUFFICES ASSUME NEW k \in Keys PROVE Replayed(m, s, P)[k] = Replayed(m, u, P)[k]
  BY DEF Replayed
<1> DEFINE Q == {i \in P : s[i].key = k}
<1>1. Q = {i \in P : u[i].key = k} /\ Q \in SUBSET (0..n)
  <2>1. \A i \in P : i \in 0..n
    OBVIOUS
  <2> QED BY <2>1
<1>2. Q # {} => Max(Q) \in Q
  <2> HIDE DEF Q
  <2> QED BY <1>1, MaxIn
<1>3. Q # {} => s[Max(Q)].val = u[Max(Q)].val
  BY <1>2
<1>4. Replayed(m, s, P)[k] = IF Q = {} THEN m[k] ELSE s[Max(Q)].val
  BY DEF Replayed
<1>5. Replayed(m, u, P)[k] = IF Q = {} THEN m[k] ELSE u[Max(Q)].val
  BY <1>1 DEF Replayed
<1> QED BY <1>3, <1>4, <1>5

\* The records of s from a + 1 on are the first n operations of u.
Follow(s, a, u, n) ==
    \A i \in 1..n : s[a + i].key = u[i].key /\ s[a + i].val = u[i].val

\* Replaying records that come last is replaying them on what the others left.
LEMMA ReplayThen ==
    ASSUME NEW m, NEW s, NEW u, NEW a \in Nat, NEW n \in Nat, NEW P \in SUBSET (1..a),
           Follow(s, a, u, n)
    PROVE  Replayed(m, s, P \cup ((a + 1)..(a + n))) = Replayed(Replayed(m, s, P), u, 1..n)
<1> DEFINE B == P \cup ((a + 1)..(a + n))
<1> SUFFICES ASSUME NEW k \in Keys
             PROVE  Replayed(m, s, B)[k] = Replayed(Replayed(m, s, P), u, 1..n)[k]
  BY DEF Replayed
<1> USE DEF Follow
<1> DEFINE Q == {i \in P : s[i].key = k}
           R == {i \in 1..n : u[i].key = k}
           T == {i \in B : s[i].key = k}
<1>1. Replayed(m, s, P)[k] = IF Q = {} THEN m[k] ELSE s[Max(Q)].val
  BY DEF Replayed
<1>2. Replayed(Replayed(m, s, P), u, 1..n)[k] =
        IF R = {} THEN Replayed(m, s, P)[k] ELSE u[Max(R)].val
  BY DEF Replayed
<1>3. Replayed(m, s, B)[k] = IF T = {} THEN m[k] ELSE s[Max(T)].val
  BY DEF Replayed
<1>4. \A i \in (a + 1)..(a + n) : i - a \in 1..n /\ a + (i - a) = i
  OBVIOUS
<1>5. CASE R = {}
  <2>1. T = Q
    <3>1. \A i \in (a + 1)..(a + n) : s[i].key # k
      BY <1>4, <1>5
    <3> QED BY <3>1
  <2> QED BY <1>1, <1>2, <1>3, <1>5, <2>1
<1>6. CASE R # {}
  <2>1. R \in SUBSET (0..n) /\ T \in SUBSET (0..(a + n)) /\ a + n \in Nat
    <3>1. \A i \in 1..n : i \in 0..n
      OBVIOUS
    <3>2. a + n \in Nat /\ \A i \in B : i \in 0..(a + n)
      OBVIOUS
    <3>3. R \in SUBSET (0..n)
      BY <3>1
    <3>4. T \in SUBSET (0..(a + n))
      <4> HIDE DEF B
      <4> QED BY <3>2
    <3> QED BY <3>2, <3>3, <3>4
  <2>2. Max(R) \in R /\ \A i \in R : Max(R) >= i
    <3> HIDE DEF R
    <3> QED BY <1>6, <2>1, MaxIn
  <2> DEFINE x == Max(R)
  <2>3. x \in 1..n /\ a + x \in T
    BY <2>2
  <2>4. ASSUME NEW i \in T PROVE a + x >= i
    <3>1. CASE i \in P
      BY <2>3, <3>1
    <3>2. CASE i \in (a + 1)..(a + n)
      <4>1. i - a \in R
        BY <1>4, <3>2
      <4> HIDE DEF R
      <4> QED BY <2>2, <2>3, <3>2, <4>1
    <3> QED BY <3>1, <3>2
  <2>5. Max(T) = a + x
    <3> HIDE DEF T, x
    <3> QED BY <2>1, <2>3, <2>4, MaxIs
  <2>6. T # {}
    <3> HIDE DEF T, x
    <3> QED BY <2>3
  <2> HIDE DEF R, T
  <2> QED BY <1>2, <1>3, <1>6, <2>3, <2>5, <2>6
<1> QED BY <1>5, <1>6

LEMMA ReplayType ==
    ASSUME NEW m \in [Keys -> Values], NEW s, NEW n \in Nat, NEW P \in SUBSET (1..n),
           \A i \in P : s[i].val \in Values
    PROVE  Replayed(m, s, P) \in [Keys -> Values]
<1> SUFFICES ASSUME NEW k \in Keys PROVE Replayed(m, s, P)[k] \in Values
  BY DEF Replayed
<1> DEFINE Q == {i \in P : s[i].key = k}
<1>1. Q # {} => Max(Q) \in Q
  <2>1. Q \in SUBSET (0..n)
    <3>1. \A i \in P : i \in 0..n
      OBVIOUS
    <3> QED BY <3>1
  <2> HIDE DEF Q
  <2> QED BY <2>1, MaxIn
<1> QED BY <1>1 DEF Replayed

\* A new record belongs to its write and to no other.
LEMMA OfAppend ==
    ASSUME log \in Seq(Records), NEW r \in Records, log' = Append(log, r)
    PROVE  /\ Len(log') = Len(log) + 1 /\ log' \in Seq(Records)
           /\ \A i \in 1..Len(log) : log'[i] = log[i]
           /\ log'[Len(log) + 1] = r
           /\ \A t : Of(t)' = IF r.try = t THEN Of(t) \cup {Len(log) + 1} ELSE Of(t)
<1>1. /\ Len(log') = Len(log) + 1 /\ log' \in Seq(Records) /\ Len(log) \in Nat
      /\ \A i \in 1..Len(log) : log'[i] = log[i]
      /\ log'[Len(log) + 1] = r
  BY AppendProperties, LenProperties
<1>2. DOMAIN log' = 1..(Len(log) + 1) /\ DOMAIN log = 1..Len(log)
  BY <1>1, LenProperties
<1>3. ASSUME NEW t
      PROVE  {i \in DOMAIN log' : log'[i].try = t} =
               IF r.try = t THEN Of(t) \cup {Len(log) + 1} ELSE Of(t)
  BY <1>1, <1>2 DEF Of
<1> QED BY <1>1, <1>3 DEF Of

-----------------------------------------------------------------------------
(* The frame of a step *)

\* What most of the steps leave alone.
LEMMA TypesOf ==
    ASSUME BatchInv
    PROVE  /\ phase \in {"closed", "open"} /\ readOnly \in BOOLEAN /\ handle \in 0..MaxOpens
           /\ batch \in [Objects -> States] /\ holder \in Objects \cup {None}
           /\ log \in Seq(Records) /\ tries \in Seq(Tries) /\ todo \in Seq(Taken)
           /\ Len(log) \in Nat /\ DOMAIN log = 1..Len(log)
           /\ Len(tries) \in Nat /\ DOMAIN tries = 1..Len(tries)
           /\ index \in [Keys -> Values] /\ opened \in 0..Len(log) /\ opened \in Nat
           /\ None \notin Objects /\ Direct \notin Objects /\ MaxOpens \in Nat
<1>1. log \in Seq(Records) /\ tries \in Seq(Tries)
  BY DEF BatchInv, Typed
<1>2. Len(log) \in Nat /\ DOMAIN log = 1..Len(log)
        /\ Len(tries) \in Nat /\ DOMAIN tries = 1..Len(tries)
  BY <1>1, LenProperties
<1>3. opened \in 0..Len(log)
  BY DEF BatchInv, Typed, TypeOK
<1>4. opened \in Nat
  BY <1>2, <1>3
<1>5. Values = Objects \cup {Direct, None}
  BY DEF Values
<1> QED BY <1>1, <1>2, <1>3, <1>4, <1>5, BatchConstants DEF BatchInv, Typed, TypeOK

\* The block of a write that is not appended to stays.
LEMMA BlockStays ==
    ASSUME BatchInv, UNCHANGED log, NEW t \in DOMAIN tries, NEW a, NEW n, Block(t, a, n),
           tries'[t].wish = tries[t].wish
    PROVE  Block(t, a, n)'
BY DEF Block, Of

\* Steps that write nothing.
LEMMA QuietFrame ==
    ASSUME BatchInv, UNCHANGED <<todo, log, tries, holder>>,
           holder # None => opened' = opened,
           Typed', Faithful', IndexExplained',
           \A b \in Objects : Dead(b) => Dead(b)',
           holder # None => batch'[holder] = batch[holder]
    PROVE  BatchInv'
<1>1. Blocks'
  <2>1. ASSUME NEW t, NEW a, NEW n PROVE Block(t, a, n)' <=> Block(t, a, n)
    BY DEF Block, Of
  <2> QED BY <2>1 DEF BatchInv, Blocks
<1>2. Holding'
  <2>1. ASSUME holder # None, NEW n \in 0..Len(log), Underway(n) PROVE Underway(n)'
    BY <2>1 DEF Underway, Block, Of
  <2> QED BY <2>1 DEF BatchInv, Holding
<1>3. Finished'
  BY DEF BatchInv, Finished
<1>4. WrittenOnce'
  BY DEF BatchInv, WrittenOnce
<1> QED BY <1>1, <1>2, <1>3, <1>4 DEF BatchInv

-----------------------------------------------------------------------------
(* Buffering *)

\* A step of the goroutine of b outside Write.
LEMMA ObjectFrame ==
    ASSUME BatchInv, NEW b \in Objects, b # holder, NEW c \in States,
           batch' = [batch EXCEPT ![b] = c],
           UNCHANGED <<dbVars, holder, todo, log, index, tries, opened>>,
           c.ops \in Seq(Taken),
           ~c.closed /\ ~c.err => c.ops = c.wish,
           c.discarded => c.closed,
           Dead(b) => c.closed \/ c.db = -1
    PROVE  BatchInv'
<1>1. \A o \in Objects : batch'[o] = IF o = b THEN c ELSE batch[o]
  BY TypesOf
<1>2. batch' \in [Objects -> States]
  BY TypesOf
<1>3. holder # None => batch'[holder] = batch[holder]
  BY <1>1, TypesOf
<1>4. Typed'
  BY <1>1, <1>2, <1>3 DEF BatchInv, Typed, TypeOK, dbVars
<1>5. Faithful'
  BY <1>1 DEF BatchInv, Faithful
<1>6. IndexExplained'
  BY DEF BatchInv, IndexExplained, dbVars
<1>7. \A o \in Objects : Dead(o) => Dead(o)'
  BY <1>1 DEF Dead
<1> QED BY <1>3, <1>4, <1>5, <1>6, <1>7, QuietFrame

LEMMA NewBatchStep ==
    ASSUME BatchInv, NEW b \in Objects, NewBatch(b)
    PROVE  BatchInv'
<1> DEFINE c == [Unmade EXCEPT !.db = handle]
<1>1. /\ batch[b] = Unmade /\ batch' = [batch EXCEPT ![b] = c]
      /\ UNCHANGED <<dbVars, holder, todo, log, index, tries, opened>>
  BY DEF NewBatch
<1>2. b # holder
  BY <1>1, TypesOf DEF BatchInv, Holding, Unmade
<1>3. handle \in -1..MaxOpens /\ 0 \in -1..MaxOpens
  BY TypesOf
<1>4. c \in States /\ c.ops = << >> /\ c.wish = << >> /\ ~c.discarded
  <2>1. << >> \in Seq(Op)
    OBVIOUS
  <2> QED BY <1>3, <2>1 DEF States, Unmade
<1>5. << >> \in Seq(Taken)
  OBVIOUS
<1>6. ~Dead(b)
  BY <1>1 DEF Dead, Unmade
<1> HIDE DEF c
<1> QED BY <1>1, <1>2, <1>4, <1>5, <1>6, ObjectFrame

LEMMA addOpStep ==
    ASSUME BatchInv, NEW b \in Objects, NEW op \in Requests(b), addOp(b, op)
    PROVE  BatchInv'
<1> DEFINE taken == op.key # NoKey /\ ~TooLarge(op)
           o == batch[b]
           c == [o EXCEPT !.asked = Append(o.asked, op),
                          !.wish = IF op.key # NoKey THEN Append(o.wish, op) ELSE o.wish,
                          !.err = o.err \/ TooLarge(op),
                          !.ops = IF taken THEN Append(o.ops, op) ELSE o.ops,
                          !.size = IF taken THEN o.size + OpSize(op) ELSE o.size]
<1>1. /\ holder # b /\ ~o.closed /\ o.db > 0 /\ o \in States
      /\ UNCHANGED <<dbVars, holder, todo, log, index, tries, opened>>
  BY TypesOf DEF addOp, Free
<1>2. batch' = [batch EXCEPT ![b] = c]
  BY DEF addOp
<1>3. op \in Op
  BY DEF Requests, Op
<1>4. taken => op \in Taken
  BY <1>3 DEF Taken
<1>5. o.asked \in Seq(Op) /\ o.wish \in Seq(Op) /\ o.ops \in Seq(Taken) /\ o.ops \in Seq(Op)
        /\ o.size \in Nat /\ o.err \in BOOLEAN
  BY <1>1 DEF States, BatchInv, Typed
<1>6. /\ Append(o.asked, op) \in Seq(Op) /\ Append(o.wish, op) \in Seq(Op)
      /\ taken => Append(o.ops, op) \in Seq(Taken) /\ Append(o.ops, op) \in Seq(Op)
  BY <1>3, <1>4, <1>5, AppendProperties
<1>7. o.size + OpSize(op) \in Nat /\ TooLarge(op) \in BOOLEAN
  BY <1>5 DEF OpSize, TooLarge
<1>8. /\ c \in States /\ c.ops \in Seq(Taken)
      /\ c.db = o.db /\ c.closed = o.closed /\ c.discarded = o.discarded
      /\ c.err = (o.err \/ TooLarge(op))
      /\ c.ops = IF taken THEN Append(o.ops, op) ELSE o.ops
      /\ c.wish = IF op.key # NoKey THEN Append(o.wish, op) ELSE o.wish
  BY <1>1, <1>5, <1>6, <1>7 DEF States
<1> HIDE DEF c
<1>9. /\ ~c.closed /\ ~c.err => c.ops = c.wish
      /\ c.discarded => c.closed
      /\ Dead(b) => c.closed \/ c.db = -1
  BY <1>8 DEF BatchInv, Faithful, Dead
<1> QED BY <1>1, <1>2, <1>8, <1>9, ObjectFrame

LEMMA DiscardStep ==
    ASSUME BatchInv, NEW b \in Objects, Discard(b)
    PROVE  BatchInv'
<1> DEFINE o == batch[b]
           c == [o EXCEPT !.closed = TRUE, !.ops = << >>, !.size = 0,
                          !.discarded = o.discarded \/ ~o.closed]
<1>1. /\ holder # b /\ o \in States /\ batch' = [batch EXCEPT ![b] = c]
      /\ UNCHANGED <<dbVars, holder, todo, log, index, tries, opened>>
  BY TypesOf DEF Discard, Free
<1>2. << >> \in Seq(Taken) /\ << >> \in Seq(Op)
  OBVIOUS
<1>3. c \in States /\ c.ops \in Seq(Taken) /\ c.closed
  BY <1>1, <1>2 DEF States
<1> HIDE DEF c
<1> QED BY <1>1, <1>3, ObjectFrame

-----------------------------------------------------------------------------
(* The beginning and the end of a Write *)

\* The records that readers see.
Told == {i \in DOMAIN log : i <= opened \/ tries[log[i].try].how = "ok"}

LEMMA RecordFields ==
    ASSUME BatchInv, NEW i \in DOMAIN log
    PROVE  log[i].key \in Keys /\ log[i].val \in Values /\ log[i].try \in DOMAIN tries
             /\ log[i] \in Records
<1>1. log[i] \in Records
  BY TypesOf, ElementOfSeq
<1> QED BY <1>1 DEF Records, Values, BatchInv, Typed, TypeOK

LEMMA AppendedTry ==
    ASSUME tries \in Seq(Tries), NEW e \in Tries, tries' = Append(tries, e)
    PROVE  /\ tries' \in Seq(Tries) /\ Len(tries') = Len(tries) + 1
           /\ DOMAIN tries' = 1..(Len(tries) + 1) /\ DOMAIN tries = 1..Len(tries)
           /\ Len(tries) \in Nat
           /\ \A t \in DOMAIN tries : tries'[t] = tries[t]
           /\ tries'[Len(tries) + 1] = e
<1>1. /\ tries' \in Seq(Tries) /\ Len(tries') = Len(tries) + 1
      /\ \A t \in 1..Len(tries) : tries'[t] = tries[t]
      /\ tries'[Len(tries) + 1] = e
  BY AppendProperties
<1>2. /\ DOMAIN tries' = 1..(Len(tries) + 1) /\ DOMAIN tries = 1..Len(tries)
      /\ Len(tries) \in Nat
  BY <1>1, LenProperties
<1> QED BY <1>1, <1>2

LEMMA BeginStep ==
    ASSUME BatchInv, NEW b \in Objects, Begin(b)
    PROVE  BatchInv'
<1> DEFINE w == batch[b].wish
           e == [by |-> b, wish |-> w, how |-> "running"]
<1>0. PICK T \in Nat : T = Len(tries) + 1
  BY TypesOf
<1>1. /\ holder = None /\ batch[b].db > 0 /\ ~batch[b].closed /\ ~batch[b].err
      /\ phase = "open" /\ holder' = b /\ todo' = batch[b].ops /\ tries' = Append(tries, e)
      /\ UNCHANGED <<dbVars, batch, log, index, opened>>
  BY DEF Begin, Free, Admitted
<1>2. batch[b].ops = w /\ w \in Seq(Taken) /\ Len(w) \in Nat
  BY <1>1, LenProperties DEF BatchInv, Faithful, Typed
<1>3. e \in Tries
  BY <1>2 DEF Tries
<1>4. /\ tries' \in Seq(Tries) /\ Len(tries') = T
      /\ DOMAIN tries' = 1..T /\ DOMAIN tries = 1..Len(tries) /\ Len(tries) \in Nat
      /\ \A t \in DOMAIN tries : tries'[t] = tries[t]
      /\ tries'[T] = e
  BY <1>0, <1>1, <1>3, TypesOf, AppendedTry
<1>5. b # None /\ tries'[T].by = b /\ tries'[T].wish = w /\ tries'[T].how = "running"
  BY <1>4, TypesOf
<1>6. \A i \in DOMAIN log : log[i].try \in DOMAIN tries
  BY RecordFields
<1>7. T \notin DOMAIN tries /\ \A t \in DOMAIN tries' : t \in DOMAIN tries \/ t = T
  BY <1>0, <1>4
<1> HIDE DEF e, w
<1>8. Of(T) = {}
  BY <1>6, <1>7 DEF Of
<1>9. log' = log /\ Len(log) \in Nat /\ opened' = opened /\ opened \in 0..Len(log)
        /\ \A t : Of(t)' = Of(t)
  BY <1>1, TypesOf DEF Of
<1>10. Typed'
  <2>1. /\ TypeOK /\ log \in Seq(Records) /\ \A o \in Objects : batch[o].ops \in Seq(Taken)
    BY DEF BatchInv, Typed
  <2>2. \A op \in Taken : op \in Op
    BY DEF Taken
  <2>3. todo' \in Seq(Taken) /\ todo' \in Seq(Op)
    BY <1>1, <1>2, <2>2, SeqMonotonic
  <2>4. \A t \in DOMAIN tries' : tries'[t].how \in {"running", "ok", "failed", "cut"}
    BY <1>4, <1>5, <1>7, <2>1 DEF TypeOK
  <2>5. \A i \in DOMAIN log : log[i].try \in DOMAIN tries'
    <3>1. \A t \in DOMAIN tries : t \in DOMAIN tries'
      BY <1>0, <1>4
    <3> QED BY <1>6, <3>1
  <2> QED BY <1>1, <1>4, <2>1, <2>3, <2>4, <2>5 DEF Typed, TypeOK, dbVars
<1>11. Blocks'
  <2> SUFFICES ASSUME NEW t \in DOMAIN tries'
               PROVE \E a, n \in 0..Len(log) :
                        Block(t, a, n)' /\ (tries'[t].how = "ok" => n = Len(tries'[t].wish))
    BY <1>9 DEF Blocks
  <2>1. CASE t \in DOMAIN tries
    <3>1. PICK a \in 0..Len(log), n \in 0..Len(log) :
             Block(t, a, n) /\ (tries[t].how = "ok" => n = Len(tries[t].wish))
      BY <2>1 DEF BatchInv, Blocks
    <3>2. tries'[t] = tries[t]
      BY <1>4, <2>1
    <3>3. Block(t, a, n)'
      BY <1>9, <3>1, <3>2 DEF Block
    <3> QED BY <3>1, <3>2, <3>3
  <2>2. CASE t = T
    <3>1. Block(t, 0, 0)'
      BY <1>2, <1>5, <1>8, <1>9, <2>2 DEF Block
    <3>2. 0 \in 0..Len(log) /\ tries'[t].how # "ok"
      BY <1>5, <1>9, <2>2
    <3> QED BY <3>1, <3>2
  <2> QED BY <1>7, <2>1, <2>2
<1>12. Underway(0)'
  <2>1. SubSeq(w, 0 + 1, Len(w)) = w
    BY <1>2, SubSeqFull
  <2>2. (Len(log) - 0 + 1)..(Len(log) - 0 + 0) = {}
    BY <1>9
  <2>3. Block(T, Len(log) - 0, 0)'
    <3>1. Of(T)' = (Len(log') - 0 + 1)..(Len(log') - 0 + 0)
      BY <1>8, <1>9, <2>2
    <3>2. 0 <= Len(tries'[T].wish)
      BY <1>2, <1>5
    <3>3. 1..0 = {}
      OBVIOUS
    <3> QED BY <3>1, <3>2, <3>3 DEF Block
  <2>4. T > 0 /\ opened' <= Len(log') - 0 /\ Len(tries') = T /\ 0 <= Len(w)
    BY <1>0, <1>2, <1>4, <1>9
  <2>5. w = batch'[holder'].ops /\ todo' = w /\ tries'[T].by = holder'
    BY <1>1, <1>2, <1>5
  <2> QED BY <1>5, <2>1, <2>3, <2>4, <2>5 DEF Underway
<1>13. Holding'
  <2>1. \A t \in DOMAIN tries : tries'[t].how # "running" /\ t # T
    BY <1>1, <1>4, <1>7 DEF BatchInv, Holding
  <2>2. 0 \in 0..Len(log)'
    BY <1>9
  <2> QED BY <1>1, <1>4, <1>5, <1>7, <1>12, <2>1, <2>2 DEF Holding
<1>14. Finished'
  BY <1>1, <1>4, <1>5, <1>7 DEF BatchInv, Finished, Dead
<1>15. WrittenOnce'
  <2>1. ASSUME NEW s \in DOMAIN tries, tries[s].by = b PROVE tries[s].how = "failed"
    <3>1. tries[s].how \notin {"ok", "cut", "running"}
      BY <1>1, <2>1 DEF BatchInv, Finished, Holding, Dead
    <3> QED BY <3>1 DEF BatchInv, Typed, TypeOK
  <2>2. ~batch[b].discarded
    BY <1>1 DEF BatchInv, Faithful
  <2>3. \A s, t \in DOMAIN tries' : s < t => s \in DOMAIN tries
    BY <1>0, <1>4
  <2>4. ASSUME NEW s \in DOMAIN tries', NEW t \in DOMAIN tries', s < t,
               tries'[s].by = tries'[t].by, tries'[s].by \in Objects
        PROVE  tries'[s].how = "failed"
    <3>1. s \in DOMAIN tries /\ tries'[s] = tries[s]
      BY <1>4, <2>3, <2>4
    <3>2. CASE t = T
      BY <1>5, <2>1, <2>4, <3>1, <3>2
    <3>3. CASE t \in DOMAIN tries
      BY <1>4, <2>4, <3>1, <3>3 DEF BatchInv, WrittenOnce
    <3> QED BY <1>7, <3>2, <3>3
  <2> QED BY <1>1, <2>2, <2>4 DEF WrittenOnce
<1>16. IndexExplained'
  <2>1. Told' = Told
    BY <1>1, <1>4, <1>6 DEF Told
  <2> QED BY <1>1, <2>1 DEF BatchInv, IndexExplained, Told
<1>17. Faithful'
  BY <1>1 DEF BatchInv, Faithful
<1> QED BY <1>10, <1>11, <1>13, <1>14, <1>15, <1>16, <1>17 DEF BatchInv

LEMMA EndedTry ==
    ASSUME BatchInv, NEW T \in DOMAIN tries, T = Len(tries),
           NEW how \in {"ok", "failed", "cut"}, tries' = Ended(how)
    PROVE  /\ tries' \in Seq(Tries) /\ Len(tries') = T /\ DOMAIN tries' = DOMAIN tries
           /\ \A t \in DOMAIN tries :
                 /\ tries'[t].by = tries[t].by /\ tries'[t].wish = tries[t].wish
                 /\ tries'[t].how = IF t = T THEN how ELSE tries[t].how
                 /\ t # T => tries'[t] = tries[t]
<1> DEFINE e == [tries[T] EXCEPT !.how = how]
<1>1. tries \in Seq(Tries) /\ DOMAIN tries = 1..Len(tries)
  BY TypesOf
<1>2. tries[T] \in Tries
  BY <1>1, ElementOfSeq
<1>3. e \in Tries /\ e.by = tries[T].by /\ e.wish = tries[T].wish /\ e.how = how
  BY <1>2 DEF Tries
<1>4. tries' = [tries EXCEPT ![T] = e]
  BY DEF Ended
<1> HIDE DEF e
<1>5. /\ tries' \in Seq(Tries) /\ Len(tries') = Len(tries)
      /\ \A t \in 1..Len(tries) : tries'[t] = IF t = T THEN e ELSE tries[t]
  BY <1>1, <1>3, <1>4, ExceptSeq
<1>6. DOMAIN tries' = 1..Len(tries')
  BY <1>5, LenProperties
<1> QED BY <1>1, <1>3, <1>5, <1>6

\* The end of a Write, whichever it is.
LEMMA EndFrame ==
    ASSUME BatchInv, holder # None, NEW how \in {"ok", "failed", "cut"},
           tries' = Ended(how), holder' = None, todo' = << >>, UNCHANGED log,
           Typed', Faithful', IndexExplained', how = "ok" => todo = << >>,
           \A b \in Objects :
              /\ Dead(b) => Dead(b)'
              /\ b = holder /\ how # "failed" => Dead(b)'
    PROVE  BatchInv'
<1>1. PICK T \in DOMAIN tries : T = Len(tries)
  BY TypesOf DEF BatchInv, Holding, Underway
<1>2. /\ Len(tries') = T /\ DOMAIN tries' = DOMAIN tries
      /\ \A t \in DOMAIN tries :
            /\ tries'[t].by = tries[t].by /\ tries'[t].wish = tries[t].wish
            /\ tries'[t].how = IF t = T THEN how ELSE tries[t].how
            /\ t # T => tries'[t] = tries[t]
  BY <1>1, EndedTry
<1>3. PICK n \in 0..Len(log) : Underway(n)
  BY DEF BatchInv, Holding
<1>4. Blocks'
  <2> SUFFICES ASSUME NEW t \in DOMAIN tries
               PROVE \E a, k \in 0..Len(log) :
                        Block(t, a, k)' /\ (tries'[t].how = "ok" => k = Len(tries'[t].wish))
    BY <1>2 DEF Blocks
  <2>1. CASE t # T
    <3>1. PICK a \in 0..Len(log), k \in 0..Len(log) :
             Block(t, a, k) /\ (tries[t].how = "ok" => k = Len(tries[t].wish))
      BY DEF BatchInv, Blocks
    <3>2. Block(t, a, k)'
      BY <1>2, <3>1, BlockStays
    <3> QED BY <1>2, <2>1, <3>1, <3>2
  <2>2. CASE t = T
    <3>1. PICK a \in 0..Len(log) : a = Len(log) - n
      <4>1. Len(log) \in Nat
        BY TypesOf
      <4>2. Len(log) - n \in 0..Len(log)
        BY <4>1
      <4> QED BY <4>2
    <3>2. Block(T, a, n)
      BY <1>1, <1>3, <3>1 DEF Underway
    <3>3. Block(T, a, n)'
      BY <1>2, <3>2, BlockStays
    <3>4. how = "ok" => n = Len(tries[T].wish)
      <4> SUFFICES ASSUME how = "ok" PROVE n = Len(tries[T].wish)
        OBVIOUS
      <4>1. tries[T].wish \in Seq(Taken)
        <5>1. tries[T] \in Tries
          BY TypesOf, ElementOfSeq
        <5> QED BY <5>1 DEF Tries
      <4>2. SubSeq(tries[T].wish, n + 1, Len(tries[T].wish)) = << >>
              /\ n <= Len(tries[T].wish)
        BY <1>1, <1>3 DEF Underway
      <4>3. Len(tries[T].wish) \in Nat /\ n \in Nat
        BY <1>3, <4>1, TypesOf, LenProperties
      <4>4. n < Len(tries[T].wish) =>
               Len(SubSeq(tries[T].wish, n + 1, Len(tries[T].wish))) > 0
        BY <4>1, <4>3
      <4> DEFINE L == Len(tries[T].wish)
                 rest == SubSeq(tries[T].wish, n + 1, L)
      <4>5. Len(rest) = 0
        <5>1. Len(<< >>) = 0
          OBVIOUS
        <5> QED BY <4>2, <5>1
      <4>6. n <= L /\ ~(n < L) /\ L \in Nat /\ n \in Nat
        BY <4>2, <4>3, <4>4, <4>5
      <4> HIDE DEF L
      <4>7. n = L
        BY <4>6
      <4> QED BY <4>7 DEF L
    <3> QED BY <1>2, <2>2, <3>3, <3>4
  <2> QED BY <2>1, <2>2
<1>5. Holding'
  <2>1. \A t \in DOMAIN tries : tries'[t].how # "running"
    BY <1>1, <1>2 DEF BatchInv, Holding
  <2> QED BY <1>2, <2>1 DEF Holding
<1>6. Finished'
  <2>1. tries[T].by = holder
    BY <1>1, <1>3 DEF Underway
  <2> SUFFICES ASSUME NEW t \in DOMAIN tries, tries[t].by \in Objects,
                      tries'[t].how \in {"ok", "cut"}
               PROVE  \A b \in Objects : b = tries[t].by => Dead(b)'
    BY <1>2 DEF Finished, Dead
  <2> QED BY <1>2, <2>1 DEF BatchInv, Finished
<1>7. WrittenOnce'
  <2>1. \A s, t \in DOMAIN tries : s < t => s # T
    BY <1>1, TypesOf
  <2> QED BY <1>2, <2>1 DEF BatchInv, WrittenOnce
<1> QED BY <1>4, <1>5, <1>6, <1>7 DEF BatchInv

LEMMA Running ==
    ASSUME BatchInv, holder # None
    PROVE  /\ holder \in Objects /\ phase = "open"
           /\ batch[holder].db > 0 /\ ~batch[holder].closed
           /\ Len(tries) \in DOMAIN tries /\ tries[Len(tries)].how = "running"
           /\ tries[Len(tries)].by = holder
           /\ batch[holder].ops = tries[Len(tries)].wish
           /\ batch[holder].ops \in Seq(Taken)
           /\ \E n \in 0..Len(log) : Underway(n)
<1>1. PICK n \in 0..Len(log) : Underway(n)
  BY DEF BatchInv, Holding
<1>2. holder \in Objects /\ Len(tries) \in DOMAIN tries
  BY <1>1, TypesOf DEF Underway
<1>3. phase = "open" /\ ~batch[holder].closed /\ batch[holder].ops \in Seq(Taken)
  BY <1>2 DEF BatchInv, Typed, TypeOK
<1>4. tries[Len(tries)].how = "running" /\ batch[holder].db > 0
  BY <1>2 DEF BatchInv, Holding
<1>5. tries[Len(tries)].by = holder /\ batch[holder].ops = tries[Len(tries)].wish
  BY <1>1 DEF Underway
<1> QED BY <1>1, <1>2, <1>3, <1>4, <1>5

\* A Write that does not return nil shows nothing.
LEMMA ToldStays ==
    ASSUME BatchInv, holder # None, NEW how \in {"failed", "cut"}, tries' = Ended(how),
           UNCHANGED <<log, opened>>
    PROVE  Told' = Told
<1>1. PICK T \in DOMAIN tries : T = Len(tries)
  BY Running
<1>2. \A t \in DOMAIN tries : tries'[t].how = IF t = T THEN how ELSE tries[t].how
  BY <1>1, EndedTry
<1>3. tries[T].how = "running"
  BY <1>1, Running
<1>4. \A i \in DOMAIN log : log[i].try \in DOMAIN tries
  BY RecordFields
<1>5. \A i \in DOMAIN log : tries'[log[i].try].how = "ok" <=> tries[log[i].try].how = "ok"
  BY <1>2, <1>3, <1>4
<1> QED BY <1>5 DEF Told

LEMMA AppendFailsStep ==
    ASSUME BatchInv, AppendFails
    PROVE  BatchInv'
<1>1. /\ holder' = None /\ todo' = << >> /\ tries' = Ended("failed")
      /\ UNCHANGED <<dbVars, batch, log, index, opened>>
  BY DEF AppendFails
<1>2. holder # None
  BY DEF AppendFails, BatchInv, Holding
<1>3. PICK T \in DOMAIN tries : T = Len(tries)
  BY <1>2, Running
<1>4. /\ tries' \in Seq(Tries) /\ DOMAIN tries' = DOMAIN tries
      /\ \A t \in DOMAIN tries :
            tries'[t].how = IF t = T THEN "failed" ELSE tries[t].how
  BY <1>1, <1>3, EndedTry
<1>5. Typed'
  BY <1>1, <1>4 DEF BatchInv, Typed, TypeOK, dbVars
<1>6. Faithful'
  BY <1>1 DEF BatchInv, Faithful
<1>7. IndexExplained'
  BY <1>1, <1>2, ToldStays DEF BatchInv, IndexExplained, Told, dbVars
<1>8. \A b \in Objects : Dead(b) => Dead(b)'
  BY <1>1 DEF Dead
<1> QED BY <1>1, <1>2, <1>5, <1>6, <1>7, <1>8, EndFrame

LEMMA SyncFailsStep ==
    ASSUME BatchInv, SyncFails
    PROVE  BatchInv'
<1>1. /\ holder # None /\ todo = << >> /\ holder' = None /\ tries' = Ended("failed")
      /\ UNCHANGED <<dbVars, batch, todo, log, index, opened>>
  BY DEF SyncFails
<1>2. PICK T \in DOMAIN tries : T = Len(tries)
  BY <1>1, Running
<1>3. /\ tries' \in Seq(Tries) /\ DOMAIN tries' = DOMAIN tries
      /\ \A t \in DOMAIN tries :
            tries'[t].how = IF t = T THEN "failed" ELSE tries[t].how
  BY <1>1, <1>2, EndedTry
<1>4. Typed'
  BY <1>1, <1>3 DEF BatchInv, Typed, TypeOK, dbVars
<1>5. Faithful'
  BY <1>1 DEF BatchInv, Faithful
<1>6. IndexExplained'
  BY <1>1, ToldStays DEF BatchInv, IndexExplained, Told, dbVars
<1>7. \A b \in Objects : Dead(b) => Dead(b)'
  BY <1>1 DEF Dead
<1> QED BY <1>1, <1>4, <1>5, <1>6, <1>7, EndFrame

\* A replayed batch is what the caller asked for, and all of it is at the end
\* of the log.
LEMMA ApplyStep ==
    ASSUME BatchInv, Apply
    PROVE  BatchInv'
<1> DEFINE u == batch[holder].ops
<1>1. /\ holder # None /\ todo = << >>
      /\ index' = Replayed(index, u, DOMAIN u)
      /\ batch' = [batch EXCEPT ![holder].closed = TRUE]
      /\ holder' = None /\ tries' = Ended("ok")
      /\ UNCHANGED <<dbVars, todo, log, opened>>
  BY DEF Apply
<1>2. PICK T \in DOMAIN tries : T = Len(tries)
  BY <1>1, Running
<1>3. /\ tries' \in Seq(Tries) /\ DOMAIN tries' = DOMAIN tries
      /\ \A t \in DOMAIN tries :
            tries'[t].how = IF t = T THEN "ok" ELSE tries[t].how
  BY <1>1, <1>2, EndedTry
<1>4. /\ holder \in Objects /\ phase = "open" /\ u = tries[T].wish
      /\ u \in Seq(Taken) /\ tries[T].how = "running"
  BY <1>1, <1>2, Running
<1>5. PICK n \in 0..Len(log) : Underway(n)
  BY <1>1, Running
<1>6. Len(u) \in Nat /\ DOMAIN u = 1..Len(u)
  BY <1>4, LenProperties
<1> HIDE DEF u
<1>7. n = Len(u)
  <2>1. SubSeq(u, n + 1, Len(u)) = << >> /\ n <= Len(u)
    BY <1>1, <1>2, <1>4, <1>5 DEF Underway
  <2>2. n < Len(u) => Len(SubSeq(u, n + 1, Len(u))) > 0
    BY <1>4, <1>6
  <2>3. Len(SubSeq(u, n + 1, Len(u))) = 0
    <3>1. Len(<< >>) = 0
      OBVIOUS
    <3> QED BY <2>1, <3>1
  <2> DEFINE L == Len(u)
  <2>4. n \in Nat
    <3>1. Len(log) \in Nat
      BY TypesOf
    <3> QED BY <3>1
  <2>5. n <= L /\ ~(n < L) /\ L \in Nat
    <3> DEFINE rest == Len(SubSeq(u, n + 1, Len(u)))
    <3>1. rest = 0 /\ (n < L => rest > 0)
      BY <2>2, <2>3
    <3> HIDE DEF rest
    <3>2. ~(n < L)
      BY <3>1
    <3> QED BY <1>6, <2>1, <3>2
  <2> HIDE DEF L
  <2>6. n = L
    BY <2>4, <2>5
  <2> QED BY <2>6 DEF L
<1>8. PICK a \in Nat : a = Len(log) - n /\ n \in Nat
  <2>1. Len(log) \in Nat
    BY TypesOf
  <2>2. Len(log) - n \in Nat /\ n \in Nat
    BY <2>1
  <2> QED BY <2>2
<1>9. Block(T, a, n) /\ opened <= a
  BY <1>2, <1>5, <1>8 DEF Underway
<1>10. \A i \in 1..n : u[i] \in Taken
  BY <1>4, <1>7, ElementOfSeq
<1>11. index' \in [Keys -> Values]
  <2>1. \A i \in 1..n : u[i].val \in Values
    BY <1>10, TakenFields
  <2>2. index \in [Keys -> Values] /\ n \in Nat /\ 1..n \in SUBSET (1..n)
    BY TypesOf
  <2>3. Replayed(index, u, 1..n) \in [Keys -> Values]
    BY <2>1, <2>2, ReplayType
  <2> QED BY <1>1, <1>6, <1>7, <2>3
<1>12. Typed'
  <2>1. \A b \in Objects : batch'[b] = IF b = holder THEN [batch[b] EXCEPT !.closed = TRUE]
                                        ELSE batch[b]
    BY <1>1, <1>4, TypesOf
  <2>2. \A b \in Objects : [batch[b] EXCEPT !.closed = TRUE] \in States
    BY TypesOf, ZenonT(40) DEF States
  <2>3. batch' \in [Objects -> States]
    BY <1>1, <1>4, <2>2, TypesOf
  <2>4. \A b \in Objects : batch'[b].ops = batch[b].ops
    BY <2>1, TypesOf DEF States
  <2> QED BY <1>1, <1>3, <1>11, <2>3, <2>4 DEF BatchInv, Typed, TypeOK, dbVars, Values
<1>13. Faithful' /\ \A b \in Objects : /\ Dead(b) => Dead(b)'
                                       /\ b = holder => Dead(b)'
  <2>1. \A b \in Objects :
           b # holder => batch'[b] = batch[b]
    BY <1>1, <1>4, TypesOf
  <2>2. batch'[holder].closed
    BY <1>1, <1>4, TypesOf DEF States
  <2> QED BY <2>1, <2>2 DEF BatchInv, Faithful, Dead
<1>14. IndexExplained'
  <2>1. Told \in SUBSET (1..a)
    <3>1. ASSUME NEW i \in Told PROVE i \in 1..a
      <4>1. i \in DOMAIN log /\ DOMAIN log = 1..Len(log) /\ Len(log) \in Nat /\ opened \in Nat
        BY TypesOf DEF Told
      <4>2. CASE i <= opened
        BY <1>9, <4>1, <4>2
      <4>3. CASE tries[log[i].try].how = "ok"
        <5>1. i \notin Of(T)
          BY <1>4, <4>3 DEF Of
        <5>2. i \notin (a + 1)..(a + n) /\ a + n = Len(log)
          BY <1>8, <1>9, <4>1, <5>1 DEF Block
        <5> QED BY <4>1, <5>2
      <4> QED BY <4>2, <4>3 DEF Told
    <3> QED BY <3>1
  <2>2. Told' = Told \cup ((a + 1)..(a + n))
    <3>1. \A i \in DOMAIN log : log[i].try \in DOMAIN tries
      BY RecordFields
    <3>2. \A i \in DOMAIN log :
             tries'[log[i].try].how = "ok" <=> tries[log[i].try].how = "ok" \/ log[i].try = T
      BY <1>3, <3>1
    <3>3. Told' = Told \cup Of(T)
      BY <1>1, <3>2 DEF Told, Of
    <3> QED BY <1>9, <3>3 DEF Block
  <2>3. Follow(log, a, u, n)
    BY <1>4, <1>9 DEF Block, Follow
  <2>4. Replayed(Empty, log, Told \cup ((a + 1)..(a + n))) =
          Replayed(Replayed(Empty, log, Told), u, 1..n)
    BY <1>8, <2>1, <2>3, ReplayThen
  <2>5. index = Replayed(Empty, log, Told)
    BY <1>4 DEF BatchInv, IndexExplained, Told
  <2>6. index' = Replayed(Empty, log', Told')
    BY <1>1, <1>6, <1>7, <2>2, <2>4, <2>5
  <2> QED BY <2>6 DEF IndexExplained, Told
<1> QED BY <1>1, <1>12, <1>13, <1>14, EndFrame

-----------------------------------------------------------------------------
(* New records *)

\* A new record leaves the blocks of the other writes as they are.
LEMMA Grown ==
    ASSUME BatchInv, NEW r \in Records, log' = Append(log, r),
           NEW t \in DOMAIN tries, r.try # t, tries'[t].wish = tries[t].wish,
           NEW a \in Nat, NEW n \in Nat, Block(t, a, n)
    PROVE  Block(t, a, n)'
<1>1. Of(t)' = Of(t) /\ \A i \in 1..Len(log) : log'[i] = log[i]
  BY TypesOf, OfAppend
<1>2. Of(t) = (a + 1)..(a + n) /\ Of(t) \subseteq 1..Len(log)
  BY TypesOf DEF Block, Of
<1>3. \A i \in 1..n : a + i \in (a + 1)..(a + n)
  OBVIOUS
<1>4. \A i \in 1..n : log'[a + i] = log[a + i]
  BY <1>1, <1>2, <1>3
<1> QED BY <1>1, <1>4 DEF Block

LEMMA AppendRawStep ==
    ASSUME BatchInv, AppendRaw
    PROVE  BatchInv'
<1>1. /\ todo # << >>
      /\ todo' = Tail(todo)
      /\ UNCHANGED <<dbVars, batch, holder, index, tries, opened>>
      /\ log' = Append(log, [key |-> Head(todo).key, val |-> Head(todo).val,
                             try |-> Len(tries)])
  BY DEF AppendRaw
<1>2. holder # None
  BY <1>1 DEF BatchInv, Holding
<1>3. PICK T \in DOMAIN tries : T = Len(tries) /\ T \in Nat
  BY <1>2, TypesOf, Running
<1>4. PICK n \in 0..Len(log) : Underway(n)
  BY <1>2, Running
<1>5. PICK a \in Nat : a = Len(log) - n /\ n \in Nat /\ Len(log) \in Nat
  <2>1. Len(log) \in Nat
    BY TypesOf
  <2>2. Len(log) - n \in Nat /\ n \in Nat
    BY <2>1
  <2> QED BY <2>1, <2>2
<1> DEFINE u == tries[T].wish
<1>6. /\ u \in Seq(Taken) /\ Len(u) \in Nat
      /\ u = batch[holder].ops /\ tries[T].by = holder /\ tries[T].how = "running"
  <2>1. u \in Seq(Taken) /\ u = batch[holder].ops
          /\ tries[T].by = holder /\ tries[T].how = "running"
    BY <1>2, <1>3, Running
  <2> QED BY <2>1, LenProperties
<1>7. /\ T > 0 /\ todo = SubSeq(u, n + 1, Len(u)) /\ n <= Len(u)
      /\ opened <= a /\ Block(T, a, n)
  BY <1>3, <1>4, <1>5 DEF Underway
<1> HIDE DEF u
<1>8. n + 1 \in 1..Len(u)
  <2>1. ~(Len(u) < n + 1)
    BY <1>1, <1>5, <1>6, <1>7, SubSeqEmpty, SMTT(30)
  <2> QED BY <1>5, <1>6, <2>1
<1>9. Head(todo) = u[n + 1] /\ todo' = SubSeq(u, n + 1 + 1, Len(u))
  <2>1. Len(u) \in (n + 1)..Len(u)
    BY <1>6, <1>8
  <2> QED BY <1>1, <1>6, <1>7, <1>8, <2>1, HeadTailOfSubSeq
<1>10. u[n + 1] \in Taken
  BY <1>6, <1>8, ElementOfSeq
<1> DEFINE r == [key |-> u[n + 1].key, val |-> u[n + 1].val, try |-> T]
<1>11. r \in Records /\ r.try = T
  BY <1>3, <1>10, TakenFields DEF Records, Values
<1>12. log' = Append(log, r)
  BY <1>1, <1>3, <1>9
<1>13. r.key = u[n + 1].key /\ r.val = u[n + 1].val
  OBVIOUS
<1> HIDE DEF r
<1>14. /\ Len(log') = Len(log) + 1 /\ log' \in Seq(Records)
       /\ \A i \in 1..Len(log) : log'[i] = log[i]
       /\ log'[Len(log) + 1] = r
       /\ \A t : Of(t)' = IF t = T THEN Of(t) \cup {Len(log) + 1} ELSE Of(t)
  BY <1>11, <1>12, TypesOf, OfAppend
<1>15. DOMAIN log' = 1..(Len(log) + 1) /\ DOMAIN log = 1..Len(log)
  BY <1>14, TypesOf, LenProperties
<1>16. tries' = tries /\ holder' = holder /\ batch' = batch /\ opened' = opened
  BY <1>1
<1>17. Typed'
  <2>1. todo \in Seq(Taken) /\ todo # << >>
    BY <1>1, TypesOf
  <2>2. todo' \in Seq(Taken)
    BY <1>1, <2>1, HeadTailProperties
  <2>3. \A op \in Taken : op \in Op
    BY DEF Taken
  <2>4. todo' \in Seq(Op)
    BY <2>2, <2>3, SeqMonotonic
  <2>5. \A i \in DOMAIN log' : log'[i].try \in DOMAIN tries
    <3>1. \A i \in DOMAIN log' : i \in 1..Len(log) \/ i = Len(log) + 1
      BY <1>5, <1>15
    <3> QED BY <1>11, <1>14, <1>15, <3>1, RecordFields
  <2>6. opened \in 0..Len(log')
    BY <1>5, <1>14, TypesOf
  <2> QED BY <1>1, <1>14, <2>2, <2>4, <2>5, <2>6 DEF BatchInv, Typed, TypeOK, dbVars
<1>18. Block(T, a, n + 1)'
  <2>1. Of(T)' = (a + 1)..(a + (n + 1))
    <3>1. Of(T)' = ((a + 1)..(a + n)) \cup {a + n + 1}
      BY <1>5, <1>7, <1>14 DEF Block
    <3> QED BY <1>5, <3>1
  <2>2. ASSUME NEW i \in 1..(n + 1)
        PROVE  log'[a + i].key = u[i].key /\ log'[a + i].val = u[i].val
    <3>1. CASE i \in 1..n
      <4>1. a + i \in 1..Len(log)
        BY <1>5, <3>1
      <4>2. log[a + i].key = u[i].key /\ log[a + i].val = u[i].val
        BY <1>7, <3>1 DEF Block, u
      <4> QED BY <1>14, <4>1, <4>2
    <3>2. CASE i = n + 1
      <4>1. a + i = Len(log) + 1
        BY <1>5, <3>2
      <4> QED BY <1>13, <1>14, <3>2, <4>1
    <3> QED BY <1>5, <3>1, <3>2
  <2>3. n + 1 <= Len(u)
    BY <1>6, <1>8
  <2> QED BY <1>16, <2>1, <2>2, <2>3 DEF Block, u
<1>19. Blocks'
  <2> SUFFICES ASSUME NEW t \in DOMAIN tries
               PROVE \E b, k \in 0..Len(log') :
                        Block(t, b, k)' /\ (tries[t].how = "ok" => k = Len(tries[t].wish))
    BY <1>16 DEF Blocks
  <2>1. \A i \in 0..Len(log) : i \in 0..Len(log') /\ i \in Nat
    BY <1>5, <1>14
  <2>2. CASE t # T
    <3>1. PICK b \in 0..Len(log), k \in 0..Len(log) :
             Block(t, b, k) /\ (tries[t].how = "ok" => k = Len(tries[t].wish))
      BY DEF BatchInv, Blocks
    <3>2. Block(t, b, k)'
      BY <1>11, <1>12, <1>16, <2>1, <2>2, <3>1, Grown
    <3> QED BY <2>1, <3>1, <3>2
  <2>3. CASE t = T
    <3>1. a \in 0..Len(log') /\ n + 1 \in 0..Len(log')
      BY <1>5, <1>14
    <3> QED BY <1>6, <1>18, <2>3, <3>1
  <2> QED BY <2>2, <2>3
<1>20. Underway(n + 1)'
  <2>1. Len(log') - (n + 1) = a
    BY <1>5, <1>14
  <2>2. Block(T, Len(log) - (n + 1), n + 1)'
    BY <1>18, <2>1 DEF Block
  <2>3. n + 1 <= Len(u) /\ opened <= Len(log') - (n + 1)
    BY <1>6, <1>7, <1>8, <2>1
  <2> QED BY <1>3, <1>6, <1>7, <1>9, <1>16, <2>2, <2>3 DEF Underway, u
<1>21. Holding'
  <2>1. n + 1 \in 0..Len(log')
    BY <1>5, <1>14
  <2> QED BY <1>2, <1>16, <1>20, <2>1 DEF BatchInv, Holding
<1>22. Faithful' /\ Finished' /\ WrittenOnce'
  BY <1>16 DEF BatchInv, Faithful, Finished, WrittenOnce, Dead
<1>23. IndexExplained'
  <2>1. Told' = Told
    <3>1. ASSUME NEW i PROVE i \in Told' <=> i \in Told
      <4>1. CASE i \in 1..Len(log)
        BY <1>14, <1>15, <1>16, <4>1, <1>5 DEF Told
      <4>2. CASE i = Len(log) + 1
        <5>1. ~(i <= opened) /\ i \notin DOMAIN log
          BY <1>5, <1>7, <1>15, <4>2, TypesOf
        <5>2. tries[log'[i].try].how # "ok"
          BY <1>6, <1>11, <1>14, <4>2
        <5> QED BY <1>16, <5>1, <5>2 DEF Told
      <4>3. CASE i \notin 1..Len(log) /\ i # Len(log) + 1
        BY <1>5, <1>15, <4>3 DEF Told
      <4> QED BY <4>1, <4>2, <4>3
    <3> QED BY <3>1
  <2>2. Told \in SUBSET (1..Len(log))
    BY <1>15 DEF Told
  <2>3. \A i \in Told : log[i].key = log'[i].key /\ log[i].val = log'[i].val
    BY <1>14, <2>2
  <2>4. Replayed(Empty, log, Told) = Replayed(Empty, log', Told)
    BY <1>5, <2>2, <2>3, ReplaySame
  <2>5. index = Replayed(Empty, log, Told)
    BY <1>2, Running DEF BatchInv, IndexExplained, Told
  <2>6. index' = Replayed(Empty, log', Told')
    BY <1>1, <2>1, <2>4, <2>5
  <2> QED BY <2>6 DEF IndexExplained, Told
<1> QED BY <1>17, <1>19, <1>21, <1>22, <1>23 DEF BatchInv

LEMMA DirectWriteStep ==
    ASSUME BatchInv, NEW k \in Keys, NEW v \in {Direct, None}, NEW synced \in BOOLEAN,
           DirectWrite(k, v, synced)
    PROVE  BatchInv'
<1> DEFINE op == [key |-> k, val |-> v]
           u == <<op>>
<1>1. PICK T \in Nat : T = Len(tries) + 1
  BY TypesOf
<1>2. PICK L \in Nat : L = Len(log)
  BY TypesOf
<1> DEFINE r == [key |-> k, val |-> v, try |-> T]
           e == [by |-> Direct, wish |-> u, how |-> IF synced THEN "ok" ELSE "failed"]
<1>3. /\ holder = None /\ phase = "open"
      /\ log' = Append(log, r) /\ tries' = Append(tries, e)
      /\ index' = IF synced THEN [index EXCEPT ![k] = v] ELSE index
      /\ UNCHANGED <<dbVars, batch, holder, todo, opened>>
  BY <1>1 DEF DirectWrite
<1>4. op \in Taken /\ op.key = k /\ op.val = v
  <2>1. op \in Op /\ op.key \in Keys /\ op.val \in Values
    BY DEF Op, Values
  <2> HIDE DEF op
  <2> QED BY <2>1, TakenIs DEF op
<1>5. u \in Seq(Taken) /\ Len(u) = 1 /\ u[1] = op
  <2> HIDE DEF op
  <2> QED BY <1>4
<1>6. e \in Tries /\ e.by = Direct /\ e.wish = u
        /\ e.how = (IF synced THEN "ok" ELSE "failed")
  <2> HIDE DEF u
  <2> QED BY <1>5 DEF Tries
<1>7. r \in Records /\ r.try = T /\ r.key = k /\ r.val = v
  BY DEF Records
<1> HIDE DEF op, u, r, e
<1>8. /\ Len(log') = L + 1 /\ log' \in Seq(Records)
      /\ \A i \in 1..L : log'[i] = log[i]
      /\ log'[L + 1] = r
      /\ \A t : Of(t)' = IF t = T THEN Of(t) \cup {L + 1} ELSE Of(t)
  BY <1>2, <1>3, <1>7, TypesOf, OfAppend
<1>9. DOMAIN log' = 1..(L + 1) /\ DOMAIN log = 1..L
  BY <1>2, <1>8, TypesOf, LenProperties
<1>10. /\ tries' \in Seq(Tries) /\ Len(tries') = T
       /\ DOMAIN tries' = 1..T /\ DOMAIN tries = 1..Len(tries) /\ Len(tries) \in Nat
       /\ \A t \in DOMAIN tries : tries'[t] = tries[t]
       /\ tries'[T] = e
  BY <1>1, <1>3, <1>6, TypesOf, AppendedTry
<1>11. T \notin DOMAIN tries /\ T \in DOMAIN tries'
         /\ (\A t \in DOMAIN tries' : t \in DOMAIN tries \/ t = T)
         /\ (\A t \in DOMAIN tries : t \in DOMAIN tries')
  BY <1>1, <1>10
<1>12. \A i \in DOMAIN log : log[i].try \in DOMAIN tries
  BY RecordFields
<1>13. Of(T) = {}
  BY <1>11, <1>12 DEF Of
<1>14. batch' = batch /\ holder' = None /\ todo' = todo /\ opened' = opened /\ phase' = phase
  BY <1>3 DEF dbVars
<1>15. v \in Values /\ index \in [Keys -> Values]
  BY TypesOf DEF Values
<1>16. Typed'
  <2>1. index' \in [Keys -> Values]
    BY <1>3, <1>15
  <2>2. \A i \in DOMAIN log' : log'[i].try \in DOMAIN tries'
    <3>1. \A i \in DOMAIN log' : i \in 1..L \/ i = L + 1
      BY <1>9
    <3> QED BY <1>7, <1>8, <1>9, <1>11, <1>12, <3>1
  <2>3. \A t \in DOMAIN tries' : tries'[t].how \in {"running", "ok", "failed", "cut"}
    BY <1>6, <1>10, <1>11 DEF BatchInv, Typed, TypeOK
  <2>4. opened' \in 0..Len(log')
    BY <1>2, <1>8, <1>14, TypesOf
  <2>5. phase \in {"closed", "open"} /\ readOnly \in BOOLEAN /\ handle \in 0..MaxOpens
          /\ readOnly' = readOnly /\ handle' = handle
    BY <1>3, TypesOf DEF dbVars
  <2> QED BY <1>3, <1>8, <1>10, <1>14, <2>1, <2>2, <2>3, <2>4, <2>5
          DEF BatchInv, Typed, TypeOK, Values
<1>17. Block(T, L, 1)'
  <2>1. Of(T)' = (L + 1)..(L + 1)
    BY <1>8, <1>13
  <2>2. \A i \in 1..1 : i = 1
    OBVIOUS
  <2>3. tries'[T].wish = u /\ log'[L + 1].key = u[1].key /\ log'[L + 1].val = u[1].val
    BY <1>4, <1>5, <1>6, <1>7, <1>8, <1>10
  <2> QED BY <1>5, <2>1, <2>2, <2>3 DEF Block
<1>18. Blocks'
  <2> SUFFICES ASSUME NEW t \in DOMAIN tries'
               PROVE \E a, n \in 0..Len(log') :
                        Block(t, a, n)' /\ (tries'[t].how = "ok" => n = Len(tries'[t].wish))
    BY DEF Blocks
  <2>1. \A i \in 0..L : i \in 0..Len(log') /\ i \in Nat
    BY <1>8
  <2>2. CASE t \in DOMAIN tries
    <3>1. PICK a \in 0..L, n \in 0..L :
             Block(t, a, n) /\ (tries[t].how = "ok" => n = Len(tries[t].wish))
      BY <1>2, <2>2 DEF BatchInv, Blocks
    <3>2. tries'[t] = tries[t] /\ T # t
      BY <1>10, <1>11, <2>2
    <3>3. Block(t, a, n)'
      BY <1>3, <1>7, <2>1, <2>2, <3>1, <3>2, Grown
    <3> QED BY <2>1, <3>1, <3>2, <3>3
  <2>3. CASE t = T
    <3>1. L \in 0..Len(log') /\ 1 \in 0..Len(log')
      BY <1>8
    <3>2. Len(tries'[t].wish) = 1
      BY <1>5, <1>6, <1>10, <2>3
    <3> QED BY <1>17, <2>3, <3>1, <3>2
  <2> QED BY <1>11, <2>2, <2>3
<1>19. Holding'
  <2>1. tries'[T].how # "running"
    BY <1>6, <1>10
  <2>2. \A t \in DOMAIN tries : tries'[t].how # "running"
    BY <1>3, <1>10 DEF BatchInv, Holding
  <2>3. todo' = << >>
    BY <1>3, <1>14 DEF BatchInv, Holding
  <2> QED BY <1>11, <1>14, <2>1, <2>2, <2>3 DEF Holding
<1>20. Direct \notin Objects /\ tries'[T].by = Direct
  BY <1>6, <1>10, TypesOf
<1>21. Finished'
  BY <1>10, <1>11, <1>14, <1>20 DEF BatchInv, Finished, Dead
<1>22. WrittenOnce'
  <2>1. \A s, t \in DOMAIN tries' : s < t => s \in DOMAIN tries
    BY <1>1, <1>10
  <2>2. ASSUME NEW s \in DOMAIN tries', NEW t \in DOMAIN tries', s < t,
               tries'[s].by = tries'[t].by, tries'[s].by \in Objects
        PROVE  tries'[s].how = "failed"
    <3>1. s \in DOMAIN tries /\ tries'[s] = tries[s]
      BY <1>10, <2>1, <2>2
    <3>2. t # T
      BY <1>20, <2>2
    <3> QED BY <1>10, <1>11, <2>2, <3>1, <3>2 DEF BatchInv, WrittenOnce
  <2> QED BY <1>14, <2>2 DEF WrittenOnce
<1>23. Faithful'
  BY <1>14 DEF BatchInv, Faithful
<1>24. IndexExplained'
  <2>1. index = Replayed(Empty, log, Told)
    BY <1>3 DEF BatchInv, IndexExplained, Told
  <2>2. Told \in SUBSET (1..L)
    BY <1>9 DEF Told
  <2>3. \A i \in Told : log[i].key = log'[i].key /\ log[i].val = log'[i].val
    BY <1>8, <2>2
  <2>4. Replayed(Empty, log, Told) = Replayed(Empty, log', Told)
    BY <2>2, <2>3, ReplaySame
  <2>5. Told' = IF synced THEN Told \cup ((L + 1)..(L + 1)) ELSE Told
    <3>1. ASSUME NEW i \in 1..L PROVE i \in Told' <=> i \in Told
      <4>1. i \in DOMAIN log /\ i \in DOMAIN log' /\ log'[i] = log[i]
        BY <1>8, <1>9
      <4>2. tries'[log[i].try] = tries[log[i].try]
        BY <1>10, <1>12, <4>1
      <4> QED BY <1>14, <4>1, <4>2 DEF Told
    <3>2. L + 1 \in Told' <=> synced
      <4>1. ~(L + 1 <= opened)
        BY <1>2, TypesOf
      <4>2. tries'[log'[L + 1].try].how = "ok" <=> synced
        BY <1>6, <1>7, <1>8, <1>10
      <4> QED BY <1>9, <1>14, <4>1, <4>2 DEF Told
    <3>3. Told' \subseteq 1..(L + 1) /\ L + 1 \notin 1..L
      BY <1>9 DEF Told
    <3>4. \A i \in 1..(L + 1) : i \in 1..L \/ i = L + 1
      OBVIOUS
    <3>5. (L + 1)..(L + 1) = {L + 1}
      OBVIOUS
    <3>6. CASE synced
      <4>1. \A i \in 1..(L + 1) : i \in Told' <=> i \in Told \/ i = L + 1
        BY <2>2, <3>1, <3>2, <3>3, <3>4, <3>6
      <4>2. \A i \in 1..L : i \in 1..(L + 1)
        OBVIOUS
      <4>3. Told \subseteq 1..(L + 1) /\ {L + 1} \subseteq 1..(L + 1)
        BY <2>2, <4>2
      <4>4. Told' = Told \cup {L + 1}
        BY <3>3, <4>1, <4>3
      <4> QED BY <3>5, <3>6, <4>4
    <3>7. CASE ~synced
      <4>1. \A i \in 1..(L + 1) : i \in Told' <=> i \in Told
        BY <2>2, <3>1, <3>2, <3>3, <3>4, <3>7
      <4>2. \A i \in 1..L : i \in 1..(L + 1)
        OBVIOUS
      <4> QED BY <2>2, <3>3, <3>7, <4>1, <4>2
    <3> QED BY <3>6, <3>7
  <2>6. CASE ~synced
    BY <1>3, <2>1, <2>4, <2>5, <2>6 DEF IndexExplained, Told
  <2>7. CASE synced
    <3>1. Follow(log', L, u, 1)
      BY <1>4, <1>5, <1>7, <1>8 DEF Follow
    <3>2. Replayed(Empty, log', Told \cup ((L + 1)..(L + 1))) =
            Replayed(Replayed(Empty, log', Told), u, 1..1)
      <4>1. PICK n \in Nat : n = 1
        OBVIOUS
      <4>2. Follow(log', L, u, n)
        BY <3>1, <4>1
      <4>3. Replayed(Empty, log', Told \cup ((L + 1)..(L + n))) =
              Replayed(Replayed(Empty, log', Told), u, 1..n)
        BY <2>2, <4>2, ReplayThen
      <4> QED BY <4>1, <4>3
    <3>3. Replayed(index, u, 1..1) = [index EXCEPT ![k] = v]
      <4>1. ASSUME NEW j \in Keys
            PROVE  Replayed(index, u, 1..1)[j] = IF j = k THEN v ELSE index[j]
        <5> DEFINE Q == {i \in 1..1 : u[i].key = j}
        <5>1. Replayed(index, u, 1..1)[j] = IF Q = {} THEN index[j] ELSE u[Max(Q)].val
          BY DEF Replayed
        <5>2. CASE j = k
          <6>1. Q = {1}
            BY <1>4, <1>5, <5>2
          <6>2. Max({1}) = 1
            BY MaxIs
          <6> HIDE DEF Q
          <6> QED BY <1>4, <1>5, <5>1, <5>2, <6>1, <6>2
        <5>3. CASE j # k
          <6>1. Q = {}
            BY <1>4, <1>5, <5>3
          <6> QED BY <5>1, <5>3, <6>1
        <5> QED BY <5>2, <5>3
      <4>2. Replayed(index, u, 1..1) = [j \in Keys |-> Replayed(index, u, 1..1)[j]]
        BY DEF Replayed
      <4> QED BY <1>15, <4>1, <4>2
    <3>4. index' = Replayed(Empty, log', Told')
      BY <1>3, <2>1, <2>4, <2>5, <2>7, <3>2, <3>3
    <3> QED BY <3>4 DEF IndexExplained, Told
  <2> QED BY <2>6, <2>7
<1> QED BY <1>16, <1>18, <1>19, <1>21, <1>22, <1>23, <1>24 DEF BatchInv

-----------------------------------------------------------------------------
(* The database *)

LEMMA OpenStep ==
    ASSUME BatchInv, NEW ro \in BOOLEAN, Open(ro)
    PROVE  BatchInv'
<1>1. /\ phase = "closed" /\ handle < MaxOpens
      /\ phase' = "open" /\ readOnly' = ro /\ handle' = handle + 1
      /\ index' = Replayed(Empty, log, DOMAIN log) /\ opened' = Len(log)
      /\ UNCHANGED <<batch, holder, todo, log, tries>>
  BY DEF Open
<1>2. holder = None
  BY <1>1, Running
<1>3. index' \in [Keys -> Values]
  <2>1. Empty \in [Keys -> Values] /\ DOMAIN log \in SUBSET (1..Len(log)) /\ Len(log) \in Nat
    BY TypesOf DEF Empty, Values
  <2>2. \A i \in DOMAIN log : log[i].val \in Values
    BY RecordFields
  <2> QED BY <1>1, <2>1, <2>2, ReplayType
<1>4. Typed'
  <2>1. handle' \in 0..MaxOpens
    BY <1>1, TypesOf
  <2>2. opened' \in 0..Len(log')
    BY <1>1, TypesOf
  <2> QED BY <1>1, <1>2, <1>3, <2>1, <2>2 DEF BatchInv, Typed, TypeOK, Values
<1>5. IndexExplained'
  <2>1. Told' = DOMAIN log
    BY <1>1, TypesOf DEF Told
  <2> QED BY <1>1, <2>1 DEF IndexExplained, Told
<1>6. Faithful' /\ \A b \in Objects : Dead(b) => Dead(b)'
  BY <1>1 DEF BatchInv, Faithful, Dead
<1> QED BY <1>1, <1>2, <1>4, <1>5, <1>6, QuietFrame

LEMMA CloseStep ==
    ASSUME BatchInv, Close
    PROVE  BatchInv'
<1>1. /\ phase = "open" /\ holder = None /\ phase' = "closed" /\ index' = Empty
      /\ UNCHANGED <<readOnly, handle, batch, holder, todo, log, tries, opened>>
  BY DEF Close
<1>2. Typed'
  <2>1. Empty \in [Keys -> Values]
    BY DEF Empty, Values
  <2> QED BY <1>1, <2>1 DEF BatchInv, Typed, TypeOK, Values
<1>3. Faithful' /\ IndexExplained' /\ \A b \in Objects : Dead(b) => Dead(b)'
  BY <1>1 DEF BatchInv, Faithful, IndexExplained, Dead
<1> QED BY <1>1, <1>2, <1>3, QuietFrame

LEMMA CrashStep ==
    ASSUME BatchInv, Crash
    PROVE  BatchInv'
<1>1. /\ phase = "open" /\ phase' = "closed" /\ index' = Empty
      /\ batch' = [b \in Objects |-> IF batch[b].db > 0 THEN Lost ELSE batch[b]]
      /\ holder' = None /\ todo' = << >>
      /\ tries' = IF holder = None THEN tries ELSE Ended("cut")
      /\ UNCHANGED <<readOnly, handle, log, opened>>
  BY DEF Crash
<1>2. /\ Lost \in States /\ Lost.db = -1 /\ Lost.ops = << >> /\ Lost.wish = << >>
      /\ ~Lost.discarded
  <2>1. << >> \in Seq(Op) /\ -1 \in -1..MaxOpens
    BY TypesOf
  <2> QED BY <2>1 DEF Lost, Unmade, States
<1>3. batch' \in [Objects -> States]
  BY <1>1, <1>2, TypesOf
<1>4. \A b \in Objects : batch'[b] = Lost \/ (batch'[b] = batch[b] /\ ~(batch[b].db > 0))
  BY <1>1
<1>5. Faithful' /\ \A b \in Objects : /\ Dead(b) => Dead(b)'
                                      /\ batch[b].db > 0 => Dead(b)'
  <2>1. Faithful'
    BY <1>2, <1>4 DEF BatchInv, Faithful
  <2>2. \A b \in Objects : batch[b].db > 0 => batch'[b].db = -1
    BY <1>1, <1>2
  <2> QED BY <1>2, <1>4, <2>1, <2>2 DEF Dead
<1>6. \A b \in Objects : batch'[b].ops \in Seq(Taken)
  <2>1. << >> \in Seq(Taken)
    OBVIOUS
  <2> QED BY <1>2, <1>4, <2>1 DEF BatchInv, Typed
<1>7. IndexExplained'
  BY <1>1 DEF IndexExplained
<1>8. Empty \in [Keys -> Values] /\ << >> \in Seq(Op) /\ << >> \in Seq(Taken)
  BY DEF Empty, Values
<1>9. CASE holder = None
  <2>1. todo = << >> /\ tries' = tries
    BY <1>1, <1>9 DEF BatchInv, Holding
  <2>2. Typed'
    BY <1>1, <1>3, <1>6, <1>8, <1>9, <2>1 DEF BatchInv, Typed, TypeOK, Values
  <2> QED BY <1>1, <1>5, <1>7, <1>9, <2>1, <2>2, QuietFrame
<1>10. CASE holder # None
  <2>1. tries' = Ended("cut") /\ batch[holder].db > 0
    BY <1>1, <1>10, Running
  <2>2. PICK T \in DOMAIN tries : T = Len(tries)
    BY <1>10, Running
  <2>3. /\ tries' \in Seq(Tries) /\ DOMAIN tries' = DOMAIN tries
        /\ \A t \in DOMAIN tries :
              tries'[t].how = IF t = T THEN "cut" ELSE tries[t].how
    BY <2>1, <2>2, EndedTry
  <2>4. Typed'
    BY <1>1, <1>3, <1>6, <1>8, <2>3 DEF BatchInv, Typed, TypeOK, Values
  <2> QED BY <1>1, <1>5, <1>7, <1>10, <2>1, <2>4, EndFrame
<1> QED BY <1>9, <1>10

-----------------------------------------------------------------------------
(* The theorems *)

LEMMA InitInv ==
    ASSUME Init
    PROVE  BatchInv
<1> USE DEF Init
<1>1. DOMAIN log = {} /\ DOMAIN tries = {} /\ Len(log) = 0
  OBVIOUS
<1>2. Unmade \in States /\ Unmade.ops = << >> /\ Unmade.wish = << >>
        /\ ~Unmade.discarded /\ ~Unmade.closed
  <2>1. << >> \in Seq(Op) /\ 0 \in -1..MaxOpens
    BY BatchConstants
  <2> QED BY <2>1 DEF Unmade, States
<1>3. Typed
  <2>1. << >> \in Seq(Op) /\ << >> \in Seq(Taken) /\ << >> \in Seq(Records)
          /\ << >> \in Seq(Tries)
    OBVIOUS
  <2>2. batch \in [Objects -> States] /\ \A b \in Objects : batch[b].ops \in Seq(Taken)
    BY <1>2, <2>1
  <2>3. index \in [Keys -> Objects \cup {Direct, None}]
    BY DEF Empty
  <2>4. handle \in 0..MaxOpens /\ opened \in 0..Len(log)
    BY <1>1, BatchConstants
  <2> QED BY <1>1, <2>1, <2>2, <2>3, <2>4 DEF Typed, TypeOK
<1>4. Faithful
  BY <1>2 DEF Faithful
<1>5. Blocks /\ Holding /\ Finished
  BY <1>1 DEF Blocks, Holding, Finished
<1>6. WrittenOnce /\ IndexExplained
  BY <1>1 DEF WrittenOnce, IndexExplained
<1> QED BY <1>3, <1>4, <1>5, <1>6 DEF BatchInv

LEMMA NextInv ==
    ASSUME BatchInv, [Next]_vars
    PROVE  BatchInv'
<1>1. CASE UNCHANGED vars
  <2>1. UNCHANGED <<phase, readOnly, handle, batch, holder, todo, log, index, tries, opened>>
    BY <1>1 DEF vars, dbVars
  <2>2. Typed' /\ Faithful' /\ IndexExplained'
    BY <2>1 DEF BatchInv, Typed, TypeOK, Faithful, IndexExplained
  <2>3. \A b \in Objects : Dead(b) => Dead(b)'
    BY <2>1 DEF Dead
  <2> QED BY <2>1, <2>2, <2>3, QuietFrame
<1>2. ASSUME NEW b \in Objects,
             NewBatch(b) \/ Discard(b) \/ Begin(b) \/ \E op \in Requests(b) : addOp(b, op)
      PROVE  BatchInv'
  BY <1>2, NewBatchStep, DiscardStep, BeginStep, addOpStep
<1>3. CASE AppendRaw \/ AppendFails \/ SyncFails \/ Apply
  BY <1>3, AppendRawStep, AppendFailsStep, SyncFailsStep, ApplyStep
<1>4. CASE \E k \in Keys, v \in {Direct, None}, synced \in BOOLEAN : DirectWrite(k, v, synced)
  BY <1>4, DirectWriteStep
<1>5. CASE (\E ro \in BOOLEAN : Open(ro)) \/ Close \/ Crash
  BY <1>5, OpenStep, CloseStep, CrashStep
<1> QED BY <1>1, <1>2, <1>3, <1>4, <1>5 DEF Next

\* Every state is one that BatchInv describes.
THEOREM Invariance == Spec => []BatchInv
BY InitInv, NextInv, PTL DEF Spec

\* The variables have their types, and an object that holds db.mu is open, of
\* an open database (batch.go:84-110).
THEOREM TypeCorrect == Spec => []TypeOK
<1>1. BatchInv => TypeOK
  BY DEF BatchInv, Typed
<1> QED BY <1>1, Invariance, PTL

\* An object is written successfully at most once, only a Write that failed
\* is repeated, and a discarded object is never written (batch.go:73-130).
THEOREM OnlyFailuresRepeat == Spec => []WrittenOnce
<1>1. BatchInv => WrittenOnce
  BY DEF BatchInv
<1> QED BY <1>1, Invariance, PTL

\* The index shows what recovery found and the writes that returned nil, whole
\* and in the order of the log (batch.go:113-128, set.go, delete.go).
THEOREM IndexCorrect == Spec => []IndexExplained
<1>1. BatchInv => IndexExplained
  BY DEF BatchInv
<1> QED BY <1>1, Invariance, PTL

\* The block of a write in the words of the property.
LEMMA BlocksInLog ==
    ASSUME BatchInv, NEW t \in DOMAIN tries
    PROVE  /\ Of(t) # {} => Of(t) = Min(Of(t))..Max(Of(t))
           /\ Written(t) = SubSeq(tries[t].wish, 1, Cardinality(Of(t)))
           /\ tries[t].how = "ok" => Cardinality(Of(t)) = Len(tries[t].wish)
           /\ \A i \in DOMAIN tries[t].wish : ~TooLarge(tries[t].wish[i])
<1> DEFINE w == tries[t].wish
<1>1. w \in Seq(Taken) /\ Len(w) \in Nat /\ DOMAIN w = 1..Len(w)
  <2>1. tries[t] \in Tries
    BY TypesOf, ElementOfSeq
  <2>2. w \in Seq(Taken)
    BY <2>1 DEF Tries
  <2> QED BY <2>2, LenProperties
<1>2. PICK a \in 0..Len(log), n \in 0..Len(log) :
         Block(t, a, n) /\ (tries[t].how = "ok" => n = Len(w))
  BY DEF BatchInv, Blocks
<1>3. a \in Nat /\ n \in Nat
  BY TypesOf
<1> HIDE DEF w
<1>4. Of(t) = (a + 1)..(a + n) /\ n <= Len(w)
        /\ \A i \in 1..n : log[a + i].key = w[i].key /\ log[a + i].val = w[i].val
  BY <1>2 DEF Block, w
<1>5. Cardinality(Of(t)) = n
  <2>1. Cardinality((a + 1)..(a + n)) = IF a + 1 > a + n THEN 0 ELSE (a + n) - (a + 1) + 1
    BY <1>3, FS_Interval
  <2> QED BY <1>3, <1>4, <2>1
<1>6. n # 0 => Min(Of(t)) = a + 1 /\ Max(Of(t)) = a + n
  <2> SUFFICES ASSUME n # 0 PROVE Min(Of(t)) = a + 1 /\ Max(Of(t)) = a + n
    OBVIOUS
  <2> DEFINE S == (a + 1)..(a + n)
  <2>1. a + 1 \in S /\ a + n \in S /\ a + n \in Nat
    BY <1>3
  <2>2. \A i \in S : a + 1 <= i /\ a + n >= i /\ i \in Nat /\ i \in 0..(a + n)
    BY <1>3
  <2>3. S \in SUBSET Nat /\ S \in SUBSET (0..(a + n))
    BY <2>2
  <2> HIDE DEF S
  <2>4. Min(S) = a + 1 /\ Max(S) = a + n
    BY <2>1, <2>2, <2>3, MinIs, MaxIs
  <2> QED BY <1>4, <2>4 DEF S
<1>7. Of(t) # {} => Of(t) = Min(Of(t))..Max(Of(t))
  <2>1. n = 0 => Of(t) = {}
    BY <1>3, <1>4
  <2> QED BY <1>4, <1>6, <2>1
<1>8. Written(t) = SubSeq(w, 1, n)
  <2> DEFINE W == [i \in 1..n |->
                      [key |-> log[Min(Of(t)) + i - 1].key, val |-> log[Min(Of(t)) + i - 1].val]]
  <2>1. Written(t) = W
    BY <1>5 DEF Written
  <2>2. ASSUME NEW i \in 1..n PROVE W[i] = w[i]
    <3>1. Min(Of(t)) + i - 1 = a + i
      BY <1>3, <1>6, <2>2
    <3>2. W[i] = [key |-> log[a + i].key, val |-> log[a + i].val]
      BY <3>1
    <3>3. w[i] \in Taken
      BY <1>1, <1>3, <1>4, ElementOfSeq
    <3>4. w[i] = [key |-> w[i].key, val |-> w[i].val]
      BY <3>3, TakenFields
    <3> HIDE DEF W
    <3> QED BY <1>4, <3>2, <3>4
  <2>3. SubSeq(w, 1, n) = [i \in 1..n |-> w[i]]
    <3>1. SubSeq(w, 1, n) = [i \in 1..(n - 1 + 1) |-> w[i + 1 - 1]]
      BY <1>3
    <3>2. n - 1 + 1 = n /\ \A i \in 1..n : i + 1 - 1 = i
      BY <1>3
    <3> QED BY <3>1, <3>2
  <2>4. W = [i \in 1..n |-> w[i]]
    BY <2>2
  <2> QED BY <2>1, <2>3, <2>4
<1>9. \A i \in DOMAIN w : ~TooLarge(w[i])
  <2>1. \A i \in DOMAIN w : w[i] \in Taken
    BY <1>1, ElementOfSeq
  <2> QED BY <2>1 DEF Taken
<1> QED BY <1>2, <1>5, <1>7, <1>8, <1>9 DEF w

\* The log holds of every write an unbroken, ordered prefix of what its caller
\* asked for, and all of it when Write returned nil (batch.go:113-120).
THEOREM LogCorrect == Spec => []InLog
<1>1. BatchInv => InLog
  BY BlocksInLog DEF InLog
<1> QED BY <1>1, Invariance, PTL

=============================================================================
