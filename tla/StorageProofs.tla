---------------------------- MODULE StorageProofs ----------------------------
(***************************************************************************)
(* Proofs about Storage for every number of keys, compactions, segments    *)
(* and records, and at the end about ManifestDir for any number of         *)
(* goroutines and snapshots.                                               *)
(***************************************************************************)
EXTENDS StorageInvariant, ManifestDir, SetLemmas

-----------------------------------------------------------------------------
(* The operators *)

Bounded(P) == \E n \in Nat : P \in SUBSET (1..n)

Before(W, T) == \A i \in W, j \in T : i < j

\* No record of k at the positions P, or m is the last of them.
Untouched(l, P, k) == \A i \in P : l[i].key # k

IsLast(l, P, k, m) ==
    m \in P /\ l[m].key = k /\ \A i \in P : l[i].key = k => i <= m

LEMMA LastOrNone ==
    ASSUME NEW l, NEW P, Bounded(P), NEW k
    PROVE  Untouched(l, P, k) \/ \E m : IsLast(l, P, k, m)
<1> PICK n \in Nat : P \in SUBSET (1..n)
  BY DEF Bounded
<1> DEFINE S == {i \in P : l[i].key = k}
<1>1. S \subseteq P
  OBVIOUS
<1>2. S \in SUBSET (0..n)
  <2> HIDE DEF S
  <2> QED BY <1>1
<1>3. CASE S = {}
  BY <1>3 DEF Untouched
<1>4. CASE S # {}
  <2>1. Max(S) \in S /\ \A y \in S : Max(S) >= y
    <3> HIDE DEF S
    <3> QED BY <1>2, <1>4, MaxIn
  <2>2. \A y \in S : y \in Int
    <3> HIDE DEF S
    <3> QED BY <1>2
  <2>3. IsLast(l, P, k, Max(S))
    BY <2>1, <2>2 DEF IsLast
  <2> QED BY <2>3
<1> QED BY <1>3, <1>4

\* The value replay leaves for a key: that of the last record of the key ...
LEMMA ReplayedLast ==
    ASSUME NEW l, NEW base, NEW P, Bounded(P), NEW k \in Keys, NEW m, IsLast(l, P, k, m)
    PROVE  Replayed(l, base, P)[k] = Value(l, m)
<1> PICK n \in Nat : P \in SUBSET (1..n)
  BY DEF Bounded
<1> DEFINE S == {i \in P : l[i].key = k}
<1>1. S \subseteq P
  OBVIOUS
<1>2. S \in SUBSET (0..n)
  <2> HIDE DEF S
  <2> QED BY <1>1
<1>3. m \in S /\ \A y \in S : y <= m
  BY DEF IsLast
<1>4. \A y \in S : y \in Int
  <2> HIDE DEF S
  <2> QED BY <1>2
<1>5. Max(S) = m
  <2> HIDE DEF S
  <2>1. \A y \in S : m >= y
    BY <1>3, <1>4
  <2> QED BY <1>2, <1>3, <2>1, MaxIs
<1>6. Replayed(l, base, P)[k] = IF S = {} THEN base[k] ELSE Value(l, Max(S))
  BY DEF Replayed
<1> QED
  <2> HIDE DEF S
  <2> QED BY <1>3, <1>5, <1>6

\* ... or that of the snapshot when there is none.
LEMMA ReplayedNone ==
    ASSUME NEW l, NEW base, NEW P, NEW k \in Keys, Untouched(l, P, k)
    PROVE  Replayed(l, base, P)[k] = base[k]
<1>1. {i \in P : l[i].key = k} = {}
  BY DEF Untouched
<1> QED BY <1>1 DEF Replayed

LEMMA ReplayedEqual ==
    ASSUME NEW l, NEW m, NEW b, NEW c, NEW P, NEW Q,
           \A k \in Keys : Replayed(l, b, P)[k] = Replayed(m, c, Q)[k]
    PROVE  Replayed(l, b, P) = Replayed(m, c, Q)
BY DEF Replayed

LEMMA ReplayedState ==
    ASSUME NEW l, NEW base \in State, NEW P, Bounded(P)
    PROVE  Replayed(l, base, P) \in State
<1>1. ASSUME NEW k \in Keys
      PROVE  Replayed(l, base, P)[k] \in Nat
  <2>1. CASE Untouched(l, P, k)
    BY <2>1, ReplayedNone DEF State
  <2>2. ASSUME NEW m, IsLast(l, P, k, m)
        PROVE  Replayed(l, base, P)[k] \in Nat
    <3>1. Replayed(l, base, P)[k] = Value(l, m)
      BY <2>2, ReplayedLast
    <3>2. m \in Nat
      BY <2>2 DEF IsLast, Bounded
    <3> QED BY <3>1, <3>2 DEF Value
  <2> QED BY <2>1, <2>2, LastOrNone
<1> QED BY <1>1 DEF Replayed, State

\* Replaying records and then later ones is replaying all of them.
LEMMA ReplayedTwice ==
    ASSUME NEW l, NEW base, NEW W, NEW T, Bounded(W \cup T), Before(W, T)
    PROVE  Replayed(l, Replayed(l, base, W), T) = Replayed(l, base, W \cup T)
<1>1. Bounded(W) /\ Bounded(T) /\ Bounded(W \cup T)
  BY DEF Bounded
<1>2. \A i \in W, j \in T : i <= j
  <2>1. \A i \in W \cup T : i \in Nat
    BY <1>1 DEF Bounded
  <2> QED BY <2>1 DEF Before
<1> HIDE DEF Replayed
<1>3. ASSUME NEW k \in Keys
      PROVE  Replayed(l, Replayed(l, base, W), T)[k] = Replayed(l, base, W \cup T)[k]
  <2>1. CASE Untouched(l, T, k)
    <3>1. Replayed(l, Replayed(l, base, W), T)[k] = Replayed(l, base, W)[k]
      BY <2>1, ReplayedNone
    <3>2. {i \in W \cup T : l[i].key = k} = {i \in W : l[i].key = k}
      BY <2>1 DEF Untouched
    <3>3. Replayed(l, base, W \cup T)[k] = Replayed(l, base, W)[k]
      BY <3>2 DEF Replayed
    <3> QED BY <3>1, <3>3
  <2>2. ASSUME NEW m, IsLast(l, T, k, m)
        PROVE  Replayed(l, Replayed(l, base, W), T)[k] = Replayed(l, base, W \cup T)[k]
    <3>1. IsLast(l, W \cup T, k, m)
      BY <1>2, <2>2 DEF IsLast
    <3>2. Replayed(l, Replayed(l, base, W), T)[k] = Value(l, m)
      BY <1>1, <2>2, ReplayedLast
    <3>3. Replayed(l, base, W \cup T)[k] = Value(l, m)
      BY <1>1, <3>1, ReplayedLast
    <3> QED BY <3>2, <3>3
  <2> QED BY <1>1, <2>1, <2>2, LastOrNone
<1> DEFINE B == Replayed(l, base, W)
           P == W \cup T
<1>4. \A k \in Keys : Replayed(l, B, T)[k] = Replayed(l, base, P)[k]
  BY <1>3
<1> HIDE DEF B, P
<1>5. Replayed(l, B, T) = Replayed(l, base, P)
  BY <1>4, ReplayedEqual
<1> QED BY <1>5 DEF B, P

\* Replay looks only at the records it replays.
LEMMA ReplayedSame ==
    ASSUME NEW l, NEW m, NEW base, NEW P, Bounded(P),
           \A i \in P : l[i] = m[i]
    PROVE  Replayed(l, base, P) = Replayed(m, base, P)
<1>1. ASSUME NEW k \in Keys
      PROVE  Replayed(l, base, P)[k] = Replayed(m, base, P)[k]
  <2>1. CASE Untouched(l, P, k)
    <3>1. Untouched(m, P, k)
      BY <2>1 DEF Untouched
    <3> QED BY <2>1, <3>1, ReplayedNone
  <2>2. ASSUME NEW i, IsLast(l, P, k, i)
        PROVE  Replayed(l, base, P)[k] = Replayed(m, base, P)[k]
    <3>1. IsLast(m, P, k, i)
      BY <2>2 DEF IsLast
    <3>2. Value(l, i) = Value(m, i)
      BY <2>2 DEF IsLast, Value
    <3> QED BY <2>2, <3>1, <3>2, ReplayedLast
  <2> QED BY <2>1, <2>2, LastOrNone
<1> QED BY <1>1, ReplayedEqual

-----------------------------------------------------------------------------
(* Type correctness *)

USE ManifestConstants, StorageConstants

LEMMA StateFacts ==
    /\ Empty \in State
    /\ IdleCompact \in CompactState
    /\ IdleRefresh \in RefreshState
BY DEF Empty, State, IdleCompact, CompactState, IdleRefresh, RefreshState

\* The sets of positions that are replayed.
LEMMA BoundedSets ==
    ASSUME TypeOK
    PROVE  /\ Len(log) \in Nat
           /\ \A P \in SUBSET Positions : Bounded(P)
           /\ Bounded((applied + 1)..Len(log))
<1>1. Len(log) \in Nat /\ applied \in Nat
  BY DEF TypeOK
<1>2. (applied + 1)..Len(log) \in SUBSET (1..Len(log))
  BY <1>1
<1> QED BY <1>1, <1>2 DEF Bounded, Positions

LEMMA MaxSeqs ==
    ASSUME NEW S \in SUBSET Seqs, S # {}
    PROVE  Max(S) \in S /\ \A y \in S : Max(S) >= y
<1>1. S \in SUBSET (0..MaxSeq) /\ MaxSeq \in Nat
  BY DEF Seqs
<1> QED BY <1>1, MaxIn

LEMMA BaseState ==
    ASSUME TypeOK, NEW s \in 0..MaxSeq
    PROVE  Base(s) \in State
BY StateFacts DEF TypeOK, Base, Seqs

LEMMA TypeInit == Init => TypeOK
<1> SUFFICES ASSUME Init PROVE TypeOK
  OBVIOUS
<1>1. ManifestTypeOK
  BY DEF Init, ManifestInit, ManifestTypeOK, Content, Seqs
<1>2. index \in State /\ comp \in [Compactors -> CompactState]
  BY StateFacts DEF Init
<1>3. snap \in [Seqs -> [st : {"none", "partial", "done"}, map : State]]
  BY StateFacts DEF Init, NoSnapshot
<1>4. /\ phase \in {"closed", "loading", "opening", "open"}
      /\ man \in 0..MaxSeq /\ locked \in BOOLEAN /\ applied \in Nat /\ cur \in Seqs
      /\ segments \subseteq Seqs /\ spawned \in Nat
  BY ManifestConstants DEF Init, Seqs
<1>6. pend \in Seq(Op) /\ log \in Seq(Record)
  BY DEF Init
<1>5. live \subseteq Nat /\ dropped \subseteq Nat /\ holds \in [0..MaxSeq -> SUBSET Nat]
  BY DEF Init
<1> QED BY <1>1, <1>2, <1>3, <1>4, <1>5, <1>6 DEF TypeOK

LEMMA RefreshType ==
    ASSUME TypeOK, NEW r \in Refreshers, RefreshStep(r, Files)
    PROVE  ManifestTypeOK'
<1> USE DEF ManifestTypeOK, Content
<1>0. ManifestTypeOK /\ TypeOK
  BY DEF TypeOK
<1>1. ref[r] \in RefreshState
  BY <1>0
<1>2. CASE ListDirs(r, Files)
  <2>1. Files # {} => Max(Files) \in 0..MaxSeq
    <3>1. Files \in SUBSET Seqs
      BY DEF Files
    <3>2. Seqs \in SUBSET (0..MaxSeq)
      BY DEF Seqs
    <3> QED BY <3>1, <3>2, MaxSeqs
  <2> QED BY <1>0, <1>1, <1>2, <2>1, StateFacts DEF ListDirs, Return, RefreshState
<1>3. CASE CreateTmp(r)
  BY <1>0, <1>1, <1>3, SMTT(40) DEF CreateTmp, RefreshState
<1>4. CASE FlushTmp(r)
  BY <1>0, <1>1, <1>4 DEF FlushTmp, RefreshState, Overwritten
<1>5. CASE RenameTmp(r)
  <2>1. ref' \in [Refreshers -> RefreshState]
    <3>1. ASSUME NEW q \in Refreshers
          PROVE  [ref[q] EXCEPT !.fd = AfterRename(ref[q].fd)] \in RefreshState
      <4>1. ref[q] \in RefreshState
        BY <1>0
      <4>2. AfterRename(ref[q].fd) \in {"none", "tmp", "manifest", "unlinked"}
        BY <4>1 DEF AfterRename, RefreshState
      <4> HIDE DEF ManifestTypeOK
      <4> QED BY <4>1, <4>2 DEF RefreshState
    <3>2. CASE tmp = NoFile
      BY <1>0, <1>5, <3>2, StateFacts DEF RenameTmp, Return
    <3>3. CASE tmp # NoFile
      <4>1. ref' = [s \in Refreshers |->
                      IF s = r THEN IdleRefresh
                      ELSE [ref[s] EXCEPT !.fd = AfterRename(ref[s].fd)]]
        BY <1>5, <3>3 DEF RenameTmp
      <4> HIDE DEF ManifestTypeOK
      <4> QED BY <4>1, <3>1, StateFacts
    <3> QED BY <3>2, <3>3
  <2> QED BY <1>0, <1>5, <2>1 DEF RenameTmp
<1> QED BY <1>2, <1>3, <1>4, <1>5 DEF RefreshStep

LEMMA CompactType ==
    ASSUME TypeOK, NEW c \in Compactors, CompactStep(c)
    PROVE  TypeOK'
<1> USE DEF TypeOK, writerVars, walVars, histVars, compVars, manifestVars
<1>1. comp[c] \in CompactState /\ comp[c].seq \in 0..MaxSeq
  BY DEF CompactState
<1>2. CASE Capture(c)
  <2>1. cur \in 0..MaxSeq /\ comp[c].mine \in BOOLEAN /\ live \in SUBSET Nat
    BY <1>1 DEF Seqs, CompactState
  <2>2. comp'[c] \in CompactState
    BY <1>1, <1>2, <2>1 DEF Capture, CompactState
  <2>3. comp' \in [Compactors -> CompactState]
    BY <1>2, <2>2 DEF Capture
  <2> QED BY <1>2, <2>3 DEF Capture, ManifestTypeOK
<1>3. CASE CaptureClosed(c)
  BY <1>1, <1>3, StateFacts DEF CaptureClosed, ManifestTypeOK
<1>4. CASE CreateFile(c)
  BY <1>1, <1>4, StateFacts DEF CreateFile, CompactState, Partial, ManifestTypeOK
<1>5. CASE FinishSnapshot(c)
  <2>1. comp' \in [Compactors -> CompactState]
    BY <1>1, <1>5 DEF FinishSnapshot, CompactState
  <2>2. {Done(comp[c].cap), Partial} \in SUBSET [st : {"none", "partial", "done"}, map : State]
    BY <1>1, StateFacts DEF CompactState, Partial, Done
  <2>3. snap' \in [Seqs -> [st : {"none", "partial", "done"}, map : State]]
    <3>1. PICK file \in {Done(comp[c].cap), Partial} : snap' = [snap EXCEPT ![comp[c].seq] = file]
      BY <1>5 DEF FinishSnapshot
    <3> QED BY <2>2, <3>1
  <2>4. comp[c].held \in SUBSET Nat
    BY <1>1 DEF CompactState
  <2>5. holds' \in [0..MaxSeq -> SUBSET Nat]
    BY <1>5, <2>4 DEF FinishSnapshot
  <2> QED BY <1>5, <2>1, <2>3, <2>5 DEF FinishSnapshot, ManifestTypeOK
<1>6. CASE FailSnapshot(c)
  BY <1>1, <1>6, StateFacts DEF FailSnapshot, ManifestTypeOK
<1>7. CASE DeleteOne(c)
  BY <1>1, <1>7 DEF DeleteOne, ManifestTypeOK
<1>8. CASE CallRefresh(c)
  BY <1>1, <1>8, StateFacts
  DEF CallRefresh, CompactState, Calling, RefreshState, IdleRefresh, ManifestTypeOK
<1>9. CASE EndCompact(c)
  BY <1>1, <1>9, StateFacts DEF EndCompact, ManifestTypeOK
<1> QED
  BY <1>2, <1>3, <1>4, <1>5, <1>6, <1>7, <1>8, <1>9 DEF CompactStep

LEMMA DownType ==
    ASSUME TypeOK, Down, comp' \in [Compactors -> CompactState], ManifestTypeOK'
    PROVE  TypeOK'
<1>1. /\ phase' = "closed" /\ man' = 0 /\ locked' = FALSE /\ pend' = << >>
      /\ index' = Empty /\ applied' = 0 /\ spawned' = 0
      /\ cur' = cur /\ log' = log /\ segments' = segments /\ snap' = snap
      /\ live' = {} /\ holds' = holds /\ dropped' = dropped
  BY DEF Down, walVars
<1>2. pend' \in Seq(Op)
  BY <1>1
<1>3. man' \in 0..MaxSeq /\ applied' \in Nat /\ spawned' \in Nat
  BY <1>1
<1>4. index' \in State
  BY <1>1, StateFacts
<1>5. locked' \in BOOLEAN
  BY <1>1
<1> QED BY <1>1, <1>2, <1>3, <1>4, <1>5 DEF TypeOK

LEMMA TypeStep ==
    ASSUME TypeOK, [Next]_vars
    PROVE  TypeOK'
<1> USE DEF TypeOK, writerVars, walVars, histVars, compVars, manifestVars
<1>1. CASE OpenLoad
  <2>1. segments \cup {1} \in SUBSET Seqs /\ segments \cup {1} # {}
    BY DEF Seqs
  <2>2. cur' \in Seqs
    BY <1>1, <2>1, MaxSeqs DEF OpenLoad
  <2>3. manifest # Garbled => manifest \in 0..MaxSeq
    BY DEF ManifestTypeOK, Content
  <2> QED BY <1>1, <2>2, <2>3 DEF OpenLoad, ManifestTypeOK
<1>2. CASE OpenFails
  BY <1>2 DEF OpenFails, ManifestTypeOK
<1>3. CASE OpenReplay
  <2>1. index' \in State
    <3>1. {i \in Positions : log[i].seg \in segments /\ log[i].seg > man} \in SUBSET Positions
      OBVIOUS
    <3> QED BY <1>3, <3>1, BoundedSets, BaseState, ReplayedState DEF OpenReplay, Recovered
  <2>2. live' \in SUBSET Nat /\ dropped' \in SUBSET Nat
    <3>1. Positions \in SUBSET Nat /\ holds[man] \in SUBSET Nat
      BY DEF Positions
    <3>2. Kept(man) \in SUBSET Nat /\ LeftOut(man) \in SUBSET Nat
      BY <3>1 DEF Kept, LeftOut
    <3> QED BY <1>3, <3>2 DEF OpenReplay
  <2>3. ref' \in [Refreshers -> RefreshState]
    <3>1. ref \in [Refreshers -> RefreshState]
      BY DEF ManifestTypeOK
    <3>2. ref' = [ref EXCEPT ![Main] = [IdleRefresh EXCEPT !.pc = "list"]]
      BY <1>3 DEF OpenReplay, Calling
    <3>3. [IdleRefresh EXCEPT !.pc = "list"] \in RefreshState
      BY ManifestConstants DEF RefreshState, IdleRefresh
    <3> HIDE DEF TypeOK
    <3> QED BY <3>1, <3>2, <3>3
  <2> QED BY <1>3, <2>1, <2>2, <2>3, BoundedSets DEF OpenReplay, ManifestTypeOK
<1>4. CASE OpenDone
  BY <1>4 DEF OpenDone, ManifestTypeOK
<1>5. CASE Close
  <2>1. ASSUME NEW c \in Compactors PROVE [comp[c] EXCEPT !.mine = FALSE] \in CompactState
    <3>1. comp[c] \in CompactState
      OBVIOUS
    <3> HIDE DEF TypeOK
    <3> QED BY <3>1 DEF CompactState
  <2>2. comp' \in [Compactors -> CompactState]
    BY <1>5, <2>1 DEF Close
  <2>3. Down /\ UNCHANGED manifestVars
    BY <1>5 DEF Close
  <2> QED BY <2>2, <2>3, DownType DEF ManifestTypeOK
<1>6. CASE Crash
  <2>1. comp' \in [Compactors -> CompactState] /\ ref' \in [Refreshers -> RefreshState]
    BY <1>6, StateFacts DEF Crash, ManifestCrash
  <2>2. Down /\ manifest' = manifest /\ tmp' = tmp
    BY <1>6 DEF Crash, ManifestCrash
  <2> QED BY <2>1, <2>2, DownType DEF ManifestTypeOK
<1>7. ASSUME NEW ops \in Batches, Write(ops) PROVE TypeOK'
  <2>1. ops \in Seq(Op)
    <3>1. PICK n \in 1..MaxBatch : ops \in [1..n -> Op]
      BY DEF Batches
    <3>2. n \in Nat
      OBVIOUS
    <3> HIDE DEF TypeOK
    <3> QED BY <3>1, <3>2
  <2> QED BY <1>7, <2>1 DEF Write, ManifestTypeOK
<1>8. CASE Rotate
  <2>1. cur + 1 \in Seqs
    BY <1>8 DEF Rotate, Seqs
  <2> QED BY <1>8, <2>1 DEF Rotate, Calling, RefreshState, IdleRefresh, ManifestTypeOK
<1>9. CASE AppendRecord
  <2>1. pend # << >> => Head(pend) \in Op /\ Tail(pend) \in Seq(Op)
    OBVIOUS
  <2>2. log' \in Seq(Record)
    BY <1>9, <2>1 DEF AppendRecord, Op, Record
  <2> QED BY <1>9, <2>1, <2>2 DEF AppendRecord, ManifestTypeOK
<1>10. CASE Apply
  <2>1. index' \in State
    BY <1>10, BoundedSets, ReplayedState DEF Apply
  <2>2. live' \in SUBSET Nat
    <3>1. (applied + 1)..Len(log) \in SUBSET Nat
      BY BoundedSets
    <3> QED BY <1>10, <3>1 DEF Apply
  <2> QED BY <1>10, <2>1, <2>2, BoundedSets DEF Apply, ManifestTypeOK
<1>11. CASE DropTrigger
  BY <1>11 DEF DropTrigger, ManifestTypeOK
<1>12. ASSUME NEW c \in Compactors, Begin(c) PROVE TypeOK'
  <2>1. [IdleCompact EXCEPT !.pc = "begun", !.mine = TRUE] \in CompactState
    BY StateFacts DEF CompactState, IdleCompact
  <2>2. comp' \in [Compactors -> CompactState]
    BY <1>12, <2>1 DEF Begin
  <2>3. spawned' \in Nat
    BY <1>12 DEF Begin
  <2> QED BY <1>12, <2>2, <2>3 DEF Begin, ManifestTypeOK
<1>13. ASSUME NEW c \in Compactors, CompactStep(c) PROVE TypeOK'
  BY <1>13, CompactType
<1>14. ASSUME NEW r \in Refreshers, Refresh(r) PROVE TypeOK'
  BY <1>14, RefreshType DEF Refresh
<1>15. CASE UNCHANGED vars
  BY <1>15 DEF vars, ManifestTypeOK
<1> QED
  BY <1>1, <1>2, <1>3, <1>4, <1>5, <1>6, <1>7, <1>8, <1>9, <1>10, <1>11, <1>12,
     <1>13, <1>14, <1>15
  DEF Next

\* Type correctness of the storage engine.
THEOREM TypeCorrect == Spec => []TypeOK
<1> QED BY TypeInit, TypeStep, PTL DEF Spec

-----------------------------------------------------------------------------
(* The inductive invariant *)

\* What an idle compaction and an idle refresher are compared with.
LEMMA IdleFacts ==
    /\ IdleCompact.pc = "idle" /\ IdleCompact.mine = FALSE
    /\ IdleCompact.seq = 0 /\ IdleRefresh.seq = 0 /\ IdleRefresh.pc = "idle"
BY DEF IdleCompact, IdleRefresh

\* What a step of a compaction does to its record.
LEMMA CompactFrame ==
    ASSUME TypeOK, NEW c \in Compactors, CompactStep(c)
    PROVE  /\ \A d \in Compactors : d # c => comp'[d] = comp[d]
           /\ comp'[c].mine => comp[c].mine
           /\ ~Capture(c) =>
                \/ comp'[c] = IdleCompact
                \/ /\ comp'[c].cap = comp[c].cap /\ comp'[c].seq = comp[c].seq
                   /\ comp'[c].at = comp[c].at /\ comp'[c].mine = comp[c].mine
                   /\ comp'[c].held = comp[c].held
                   /\ (Captured(c)' => Captured(c))
                   /\ comp'[c].pc \in {"captured", "writing"}
                        => comp[c].pc \in {"captured", "writing"}
           /\ UNCHANGED <<phase, man, writerVars, cur, log, spawned, manifest, tmp>>
<1> USE DEF writerVars, walVars, histVars, compVars, manifestVars
<1>1. comp \in [Compactors -> CompactState] /\ comp[c] \in CompactState
  BY DEF TypeOK
<1>2. comp[c] = [pc |-> comp[c].pc, cap |-> comp[c].cap, seq |-> comp[c].seq,
                 at |-> comp[c].at, held |-> comp[c].held, mine |-> comp[c].mine]
  BY <1>1 DEF CompactState
<1>3. CASE Capture(c)
  BY <1>1, <1>2, <1>3 DEF Capture
<1>4. CASE CaptureClosed(c)
  BY <1>1, <1>4, IdleFacts DEF CaptureClosed
<1>5. CASE CreateFile(c)
  BY <1>1, <1>2, <1>5 DEF CreateFile, Captured
<1>6. CASE FinishSnapshot(c)
  BY <1>1, <1>2, <1>6 DEF FinishSnapshot, Captured
<1>7. CASE FailSnapshot(c)
  BY <1>1, <1>7, IdleFacts DEF FailSnapshot
<1>8. CASE DeleteOne(c)
  BY <1>1, <1>8 DEF DeleteOne, Captured
<1>9. CASE CallRefresh(c)
  BY <1>1, <1>2, <1>9 DEF CallRefresh, Captured
<1>10. CASE EndCompact(c)
  BY <1>1, <1>10, IdleFacts DEF EndCompact
<1> QED
  BY <1>3, <1>4, <1>5, <1>6, <1>7, <1>8, <1>9, <1>10 DEF CompactStep

\* What appending a record does to the log.
LEMMA AppendFrame ==
    ASSUME TypeOK, AppendRecord
    PROVE  /\ Len(log') = Len(log) + 1
           /\ \A i \in Positions : log'[i] = log[i]
           /\ log'[Len(log) + 1].seg = cur
           /\ UNCHANGED <<phase, man, locked, index, applied, cur, segments, snap,
                          histVars, compVars, manifestVars>>
BY DEF TypeOK, AppendRecord, Positions

LEMMA LockStep ==
    ASSUME Inductive, [Next]_vars
    PROVE  LockInv'
<1> USE DEF Inductive, LockInv, Up, writerVars, walVars, histVars, compVars, manifestVars
<1>0. applied \in Nat /\ Len(log) \in Nat
  BY DEF TypeOK
<1>1. CASE OpenLoad
  BY <1>1 DEF OpenLoad
<1>2. CASE OpenFails
  BY <1>2 DEF OpenFails
<1>3. CASE OpenReplay
  BY <1>0, <1>3 DEF OpenReplay
<1>4. CASE OpenDone
  BY <1>4 DEF OpenDone
<1>5. CASE Close
  <2>1. \A c \in Compactors : comp'[c].mine = FALSE
    BY <1>5 DEF Close, TypeOK, CompactState
  <2>2. phase' = "closed" /\ locked' = FALSE
    BY <1>5 DEF Close, Down
  <2> QED BY <2>1, <2>2
<1>6. CASE Crash
  BY <1>6, IdleFacts DEF Crash, Down
<1>7. ASSUME NEW ops \in Batches, Write(ops) PROVE LockInv'
  BY <1>7 DEF Write
<1>8. CASE Rotate
  BY <1>8 DEF Rotate
<1>9. CASE AppendRecord
  <2>1. locked
    BY <1>9 DEF AppendRecord
  <2> QED BY <1>0, <1>9, <2>1, AppendFrame
<1>10. CASE Apply
  BY <1>0, <1>10 DEF Apply
<1>11. CASE DropTrigger
  BY <1>11 DEF DropTrigger
<1>12. ASSUME NEW c \in Compactors, Begin(c) PROVE LockInv'
  <2>1. \A d \in Compactors : d # c => comp'[d] = comp[d]
    BY <1>12 DEF Begin, TypeOK
  <2>2. /\ phase = "open" /\ phase' = phase /\ locked' = locked
        /\ applied' = applied /\ log' = log
    BY <1>12 DEF Begin
  <2> QED BY <2>1, <2>2
<1>13. ASSUME NEW c \in Compactors, CompactStep(c) PROVE LockInv'
  BY <1>13, CompactFrame
<1>14. ASSUME NEW r \in Refreshers, Refresh(r) PROVE LockInv'
  BY <1>14 DEF Refresh
<1>15. CASE UNCHANGED vars
  BY <1>15 DEF vars
<1> QED
  BY <1>1, <1>2, <1>3, <1>4, <1>5, <1>6, <1>7, <1>8, <1>9, <1>10, <1>11, <1>12,
     <1>13, <1>14, <1>15
  DEF Next

LEMMA SeqStep ==
    ASSUME Inductive, [Next]_vars
    PROVE  SeqInv'
<1> USE DEF Inductive, SeqInv, writerVars, walVars, histVars, compVars, manifestVars
<1>0. /\ cur \in 1..MaxSeq /\ MaxSeq \in Nat /\ Len(log) \in Nat
      /\ \A c \in Compactors : comp[c].seq \in 0..MaxSeq
      /\ \A r \in Refreshers : ref[r].seq \in 0..MaxSeq
      /\ \A i \in Positions : log[i].seg \in 1..MaxSeq
      /\ segments \in SUBSET (1..MaxSeq)
  <2>1. cur \in 1..MaxSeq /\ MaxSeq \in Nat /\ segments \in SUBSET (1..MaxSeq) /\ Len(log) \in Nat
    BY DEF TypeOK, Seqs
  <2>2. \A c \in Compactors : comp[c].seq \in 0..MaxSeq
    BY DEF TypeOK, CompactState
  <2>3. \A r \in Refreshers : ref[r].seq \in 0..MaxSeq
    BY DEF TypeOK, ManifestTypeOK, RefreshState
  <2>4. \A i \in Positions : log[i].seg \in 1..MaxSeq
    <3>1. log \in Seq(Record)
      BY DEF TypeOK
    <3>2. \A i \in Positions : log[i] \in Record
      <4> HIDE DEF Inductive, SeqInv
      <4> QED BY <3>1 DEF Positions
    <3> HIDE DEF Inductive, SeqInv
    <3> QED BY <3>2 DEF Record, Seqs
  <2> QED BY <2>1, <2>2, <2>3, <2>4
<1>frame. ASSUME UNCHANGED <<cur, segments, log, snap, manifest, tmp>>,
                 man' \in {0, man},
                 \A c \in Compactors : comp'[c].seq \in {0, comp[c].seq, cur},
                 \A r \in Refreshers : ref'[r].seq \in {0, ref[r].seq}
          PROVE  SeqInv'
  BY <1>0, <1>frame DEF Positions, Files
<1>1. CASE OpenLoad
  <2>1. /\ segments \cup {1} \in SUBSET (0..MaxSeq)
        /\ cur \in segments \cup {1} /\ \A y \in segments \cup {1} : cur >= y
    <3>1. segments \cup {1} \in SUBSET (0..MaxSeq)
      BY <1>0
    <3>2. cur \in segments \cup {1}
      OBVIOUS
    <3>3. \A y \in segments : cur >= y
      BY <1>0
    <3>4. cur >= 1
      BY <1>0
    <3> HIDE DEF Inductive, SeqInv
    <3> QED BY <3>1, <3>2, <3>3, <3>4
  <2>2. cur' = cur
    BY <1>0, <1>1, <2>1, MaxIs DEF OpenLoad
  <2>3. man' \in {man, manifest} /\ (man' = manifest => manifest \in Int)
    BY <1>1 DEF OpenLoad, TypeOK, ManifestTypeOK, Content
  <2>4. segments' = segments \cup {cur} /\ UNCHANGED <<log, snap, comp, ref, manifest, tmp>>
    BY <1>1, <2>2 DEF OpenLoad
  <2>5. man' <= cur
    BY <2>3
  <2>6. Positions' = Positions /\ Files' = Files
    BY <2>4 DEF Positions, Files
  <2>7. /\ segments' # {} /\ cur' \in segments'
        /\ \A g \in segments' : g <= cur'
    BY <1>0, <2>2, <2>4
  <2>8. /\ \A i \in Positions' : log'[i].seg <= cur'
        /\ \A s \in Files' : s <= cur'
        /\ \A x \in {manifest', tmp'} \cap Int : x <= cur'
    BY <2>2, <2>4, <2>6
  <2>9. /\ \A c \in Compactors : comp'[c].seq <= cur'
        /\ \A r \in Refreshers : ref'[r].seq <= cur'
        /\ man' <= cur'
    BY <2>2, <2>4, <2>5
  <2> QED BY <2>7, <2>8, <2>9
<1>2. CASE OpenFails
  BY <1>0, <1>2 DEF OpenFails, Positions, Files
<1>3. CASE OpenReplay
  BY <1>3, <1>frame, IdleFacts DEF OpenReplay, Calling, TypeOK, ManifestTypeOK, IdleRefresh
<1>4. CASE OpenDone
  BY <1>4, <1>frame DEF OpenDone
<1>5. CASE Close
  <2>1. \A c \in Compactors : comp'[c].seq = comp[c].seq
    BY <1>5 DEF Close, TypeOK, CompactState
  <2>2. UNCHANGED <<cur, segments, log, snap, manifest, tmp, ref>> /\ man' = 0
    BY <1>5 DEF Close, Down
  <2> QED BY <2>1, <2>2, <1>frame
<1>6. CASE Crash
  <2>1. /\ UNCHANGED <<cur, segments, log, snap, manifest, tmp>> /\ man' = 0
        /\ \A c \in Compactors : comp'[c] = IdleCompact
        /\ \A r \in Refreshers : ref'[r] = IdleRefresh
    BY <1>6 DEF Crash, Down, ManifestCrash
  <2> QED BY <2>1, <1>frame, IdleFacts
<1>7. ASSUME NEW ops \in Batches, Write(ops) PROVE SeqInv'
  BY <1>7, <1>frame DEF Write
<1>8. CASE Rotate
  <2>1. \A r \in Refreshers : ref'[r].seq \in {0, ref[r].seq}
    BY <1>8 DEF Rotate, Calling, IdleRefresh, TypeOK, ManifestTypeOK
  <2>2. /\ cur' = cur + 1 /\ segments' = segments \cup {cur'}
        /\ UNCHANGED <<log, snap, man, manifest, tmp, comp>>
    BY <1>8 DEF Rotate
  <2>3. \A x \in {manifest, tmp} \cap Int : x <= cur'
    BY <1>0, <2>2
  <2>4. Files' = Files /\ Positions' = Positions /\ Files \in SUBSET (1..MaxSeq)
    BY <2>2 DEF Files, Positions, Seqs
  <2>5. man \in 0..MaxSeq
    BY DEF TypeOK
  <2>6. \A x \in 0..MaxSeq : x <= cur => x <= cur'
    BY <1>0, <2>2
  <2>7. segments' # {} /\ cur' \in segments' /\ \A g \in segments' : g <= cur'
    BY <1>0, <2>2
  <2>8. /\ \A i \in Positions' : log'[i].seg <= cur'
        /\ \A s \in Files' : s <= cur'
        /\ man' <= cur'
    BY <1>0, <2>2, <2>4, <2>5, <2>6
  <2>9. /\ \A c \in Compactors : comp'[c].seq <= cur'
        /\ \A r \in Refreshers : ref'[r].seq <= cur'
    BY <1>0, <2>1, <2>2, <2>6
  <2> QED BY <2>2, <2>3, <2>7, <2>8, <2>9
<1>9. CASE AppendRecord
  <2>1. \A i \in Positions' : i \in Positions \/ i = Len(log) + 1
    BY <1>0, <1>9, AppendFrame DEF Positions
  <2>2. \A i \in Positions' : log'[i].seg <= cur'
    BY <1>0, <1>9, <2>1, AppendFrame
  <2> QED BY <1>0, <1>9, <2>2, AppendFrame DEF Files
<1>10. CASE Apply
  BY <1>10, <1>frame DEF Apply
<1>11. CASE DropTrigger
  BY <1>11, <1>frame DEF DropTrigger
<1>12. ASSUME NEW c \in Compactors, Begin(c) PROVE SeqInv'
  <2>1. \A d \in Compactors : comp'[d].seq \in {0, comp[d].seq}
    BY <1>12 DEF Begin, TypeOK, IdleCompact
  <2> QED BY <1>12, <2>1, <1>frame DEF Begin
<1>13. ASSUME NEW c \in Compactors, CompactStep(c) PROVE SeqInv'
  <2>1. \A d \in Compactors : comp'[d].seq \in {0, comp[d].seq, cur}
    <3>1. CASE Capture(c)
      <4>1. comp'[c].seq = cur
        BY <3>1 DEF Capture, TypeOK, CompactState
      <4>2. \A d \in Compactors : d # c => comp'[d] = comp[d]
        BY <3>1 DEF Capture, TypeOK
      <4> QED BY <4>1, <4>2
    <3>2. CASE ~Capture(c)
      BY <1>13, <3>2, CompactFrame, IdleFacts
    <3> QED BY <3>1, <3>2
  <2>2. \A r \in Refreshers : ref'[r].seq \in {0, ref[r].seq}
    <3>1. CASE CallRefresh(c)
      BY <3>1 DEF CallRefresh, Calling, IdleRefresh, TypeOK, ManifestTypeOK
    <3>2. CASE ~CallRefresh(c)
      BY <1>13, <3>2
      DEF CompactStep, Capture, CaptureClosed, CreateFile, FinishSnapshot,
          FailSnapshot, DeleteOne, EndCompact
    <3> QED BY <3>1, <3>2
  <2>3. \A s \in Files' : s \in Files \/ s = comp[c].seq
    <3>1. CASE CreateFile(c)
      BY <3>1 DEF CreateFile, Files, TypeOK
    <3>2. CASE FinishSnapshot(c)
      BY <3>2 DEF FinishSnapshot, Files, TypeOK
    <3>3. CASE ~CreateFile(c) /\ ~FinishSnapshot(c)
      BY <1>13, <3>3
      DEF CompactStep, Capture, CaptureClosed, FailSnapshot, DeleteOne, CallRefresh,
          EndCompact, Files
    <3> QED BY <3>1, <3>2, <3>3
  <2>4. segments' \in SUBSET segments /\ (cur \in segments => cur \in segments')
    <3>1. CASE DeleteOne(c)
      <4>1. OldSegments(c) \in SUBSET (0..MaxSeq)
        <5>1. segments \in SUBSET (0..MaxSeq)
          BY <1>0 DEF TypeOK, Seqs
        <5> QED BY <5>1 DEF OldSegments
      <4>2. cur \notin OldSegments(c)
        BY <1>0 DEF OldSegments
      <4>3. Min(OldSegments(c)) \in OldSegments(c)
        BY <3>1, <4>1, MinIn DEF DeleteOne
      <4> QED BY <3>1, <4>2, <4>3 DEF DeleteOne
    <3>2. CASE ~DeleteOne(c)
      BY <1>13, <3>2
      DEF CompactStep, Capture, CaptureClosed, CreateFile, FinishSnapshot,
          FailSnapshot, CallRefresh, EndCompact
    <3> QED BY <3>1, <3>2
  <2>5. UNCHANGED <<cur, log, man, manifest, tmp>>
    BY <1>13, CompactFrame
  <2>6. Positions' = Positions
    BY <2>5 DEF Positions
  <2>7. /\ segments' = {} => cur' = 1
        /\ segments' # {} => cur' \in segments'
        /\ \A g \in segments' : g <= cur'
    BY <2>4, <2>5
  <2>8. /\ \A s \in Files' : s <= cur'
        /\ \A d \in Compactors : comp'[d].seq <= cur'
        /\ \A r \in Refreshers : ref'[r].seq <= cur'
    BY <1>0, <2>1, <2>2, <2>3, <2>5
  <2> QED BY <2>5, <2>6, <2>7, <2>8
<1>14. ASSUME NEW r \in Refreshers, Refresh(r) PROVE SeqInv'
  <2>1. UNCHANGED <<man, cur, log, segments, snap, comp>> /\ RefreshStep(r, Files)
    BY <1>14 DEF Refresh
  <2>2. /\ \A q \in Refreshers : ref'[q].seq <= cur
        /\ \A x \in {manifest', tmp'} \cap Int : x <= cur
    <3>0. ref \in [Refreshers -> RefreshState]
      BY DEF TypeOK, ManifestTypeOK
    <3>1. CASE ListDirs(r, Files)
      <4>1. Files # {} => Max(Files) <= cur
        <5>1. Files \in SUBSET Seqs
          BY DEF Files
        <5> HIDE DEF Inductive
        <5> QED BY <5>1, MaxSeqs DEF Inductive
      <4> QED BY <1>0, <3>0, <3>1, <4>1, IdleFacts DEF ListDirs, Return
    <3>2. CASE CreateTmp(r)
      BY <1>0, <3>0, <3>2 DEF CreateTmp
    <3>3. CASE FlushTmp(r)
      <4>1. \A x \in Overwritten(tmp, ref[r].seq) \cup Overwritten(manifest, ref[r].seq) :
               x \in Int => x <= cur
        BY <1>0 DEF Overwritten
      <4> QED BY <1>0, <3>0, <3>3, <4>1 DEF FlushTmp
    <3>4. CASE RenameTmp(r)
      <4>1. \A q \in Refreshers : ref'[q].seq \in {0, ref[q].seq}
        <5>1. \A q \in Refreshers : [ref[q] EXCEPT !.fd = AfterRename(ref[q].fd)].seq = ref[q].seq
          BY <3>0 DEF RefreshState
        <5> QED BY <3>0, <3>4, <5>1, IdleFacts DEF RenameTmp, Return
      <4>2. {manifest', tmp'} \in SUBSET {manifest, tmp, NoFile}
        BY <3>4 DEF RenameTmp
      <4> QED BY <1>0, <4>1, <4>2
    <3> QED BY <2>1, <3>1, <3>2, <3>3, <3>4 DEF RefreshStep
  <2> QED BY <2>1, <2>2 DEF Positions, Files
<1>15. CASE UNCHANGED vars
  BY <1>15, <1>frame DEF vars
<1> QED
  BY <1>1, <1>2, <1>3, <1>4, <1>5, <1>6, <1>7, <1>8, <1>9, <1>10, <1>11, <1>12,
     <1>13, <1>14, <1>15
  DEF Next

LEMMA SegNat ==
    ASSUME TypeOK
    PROVE  \A i \in Positions : log[i].seg \in Nat
<1>1. log \in Seq(Record)
  BY DEF TypeOK
<1>2. \A i \in Positions : log[i] \in Record
  BY <1>1 DEF Positions
<1> QED BY <1>2 DEF Record, Seqs

LEMMA LogUnchanged ==
    ASSUME [Next]_vars, ~AppendRecord
    PROVE  log' = log
<1> USE DEF writerVars, walVars, histVars, compVars, manifestVars
<1>1. CASE OpenLoad \/ OpenFails \/ OpenReplay \/ OpenDone \/ Close \/ Crash
  BY <1>1 DEF OpenLoad, OpenFails, OpenReplay, OpenDone, Close, Crash, Down
<1>2. CASE (\E ops \in Batches : Write(ops)) \/ Rotate \/ Apply \/ DropTrigger
  BY <1>2 DEF Write, Rotate, Apply, DropTrigger
<1>3. CASE \E c \in Compactors : Begin(c) \/ CompactStep(c)
  BY <1>3 DEF Begin, CompactStep, Capture, CaptureClosed, CreateFile, FinishSnapshot,
              FailSnapshot, DeleteOne, CallRefresh, EndCompact
<1>4. CASE (\E r \in Refreshers : Refresh(r)) \/ UNCHANGED vars
  BY <1>4 DEF Refresh, vars
<1> QED BY <1>1, <1>2, <1>3, <1>4 DEF Next

\* Only the replay of Open leaves records out.
LEMMA DroppedKept ==
    ASSUME [Next]_vars
    PROVE  /\ dropped \subseteq dropped'
           /\ ~OpenReplay => dropped' = dropped
<1> USE DEF writerVars, walVars, histVars, compVars, manifestVars
<1>1. CASE OpenLoad \/ OpenFails \/ OpenReplay \/ OpenDone \/ Close \/ Crash
  BY <1>1 DEF OpenLoad, OpenFails, OpenReplay, OpenDone, Close, Crash, Down
<1>2. CASE (\E ops \in Batches : Write(ops)) \/ Rotate \/ AppendRecord \/ Apply \/ DropTrigger
  BY <1>2 DEF Write, Rotate, AppendRecord, Apply, DropTrigger
<1>3. CASE \E c \in Compactors : Begin(c) \/ CompactStep(c)
  BY <1>3 DEF Begin, CompactStep, Capture, CaptureClosed, CreateFile, FinishSnapshot,
              FailSnapshot, DeleteOne, CallRefresh, EndCompact
<1>4. CASE (\E r \in Refreshers : Refresh(r)) \/ UNCHANGED vars
  BY <1>4 DEF Refresh, vars
<1> QED BY <1>1, <1>2, <1>3, <1>4 DEF Next

\* Snapshot files only ever appear, and no segment goes but by DeleteOne.
LEMMA FilesKept ==
    ASSUME TypeOK, CutInv, [Next]_vars
    PROVE  /\ Files \subseteq Files'
           /\ (\A c \in Compactors : ~DeleteOne(c)) => segments \subseteq segments'
<1> USE DEF writerVars, walVars, histVars, compVars, manifestVars
<1>0. snap \in [Seqs -> [st : {"none", "partial", "done"}, map : State]]
  BY DEF TypeOK
<1>1. CASE OpenLoad \/ OpenFails \/ OpenReplay \/ OpenDone \/ Close \/ Crash
  BY <1>1 DEF OpenLoad, OpenFails, OpenReplay, OpenDone, Close, Crash, Down, Files
<1>2. CASE (\E ops \in Batches : Write(ops)) \/ Rotate \/ AppendRecord \/ Apply \/ DropTrigger
  BY <1>2 DEF Write, Rotate, AppendRecord, Apply, DropTrigger, Files
<1>3. ASSUME NEW c \in Compactors, CreateFile(c) \/ FinishSnapshot(c)
      PROVE  Files \subseteq Files' /\ segments' = segments
  <2>1. comp[c].seq \in Seqs
    BY <1>3 DEF CutInv, Captured, CreateFile, FinishSnapshot
  <2>2. \E file : file.st # "none" /\ snap' = [snap EXCEPT ![comp[c].seq] = file]
    BY <1>3 DEF CreateFile, FinishSnapshot, Done, Partial
  <2>3. \A s \in Files : snap'[s].st # "none"
    BY <1>0, <2>1, <2>2 DEF Files
  <2> QED BY <1>3, <2>3 DEF Files, CreateFile, FinishSnapshot
<1>4. ASSUME NEW c \in Compactors, Begin(c) \/ CompactStep(c), ~CreateFile(c), ~FinishSnapshot(c)
      PROVE  Files' = Files /\ (~DeleteOne(c) => segments' = segments)
  BY <1>4 DEF Begin, CompactStep, Capture, CaptureClosed, FailSnapshot, DeleteOne,
              CallRefresh, EndCompact, Files
<1>5. CASE (\E r \in Refreshers : Refresh(r)) \/ UNCHANGED vars
  BY <1>5 DEF Refresh, vars, Files
<1> QED BY <1>1, <1>2, <1>3, <1>4, <1>5 DEF Next

\* A compaction keeps what it has captured.
LEMMA CapturedKept ==
    ASSUME TypeOK, [Next]_vars, NEW c \in Compactors, Captured(c)'
    PROVE  \/ Capture(c)
           \/ /\ Captured(c)
              /\ comp'[c].cap = comp[c].cap /\ comp'[c].seq = comp[c].seq
              /\ comp'[c].at = comp[c].at /\ comp'[c].held = comp[c].held
<1> USE DEF writerVars, walVars, histVars, compVars, manifestVars
<1>0. comp \in [Compactors -> CompactState]
  BY DEF TypeOK
<1>1. CASE comp' = comp
  BY <1>1 DEF Captured
<1>2. CASE Close
  BY <1>0, <1>2 DEF Close, Captured, CompactState
<1>3. CASE Crash
  BY <1>3, IdleFacts DEF Crash, Captured
<1>4. ASSUME NEW d \in Compactors, Begin(d) PROVE comp'[c] = comp[c]
  <2>1. comp'[d].pc = "begun"
    BY <1>0, <1>4 DEF Begin, IdleCompact
  <2>2. d # c
    BY <2>1 DEF Captured
  <2> QED BY <1>0, <1>4, <2>2 DEF Begin
<1>5. ASSUME NEW d \in Compactors, CompactStep(d), d # c PROVE comp'[c] = comp[c]
  BY <1>5, CompactFrame
<1>6. CASE CompactStep(c) /\ ~Capture(c)
  <2>1. comp'[c] # IdleCompact
    BY IdleFacts DEF Captured
  <2> QED BY <1>6, <2>1, CompactFrame
<1>7. CASE OpenLoad \/ OpenFails \/ OpenReplay \/ OpenDone
  BY <1>1, <1>7 DEF OpenLoad, OpenFails, OpenReplay, OpenDone
<1>8. CASE (\E ops \in Batches : Write(ops)) \/ Rotate \/ AppendRecord \/ Apply \/ DropTrigger
  BY <1>1, <1>8 DEF Write, Rotate, AppendRecord, Apply, DropTrigger
<1>9. CASE (\E r \in Refreshers : Refresh(r)) \/ UNCHANGED vars
  BY <1>1, <1>9 DEF Refresh, vars
<1>10. CASE comp'[c] = comp[c]
  BY <1>10 DEF Captured
<1> QED
  BY <1>2, <1>3, <1>4, <1>5, <1>6, <1>7, <1>8, <1>9, <1>10 DEF Next

\* Capture runs under db.mu, so the index is the whole log but what was dropped.
LEMMA CaptureTakes ==
    ASSUME TypeOK, LockInv, NEW c \in Compactors, Capture(c)
    PROVE  /\ comp'[c].seq = cur /\ comp'[c].at = applied
           /\ comp'[c].cap = index /\ comp'[c].held = live
           /\ Up /\ applied = Len(log) /\ log' = log /\ dropped' = dropped
<1>1. /\ comp'[c].seq = cur /\ comp'[c].at = applied
      /\ comp'[c].cap = index /\ comp'[c].held = live
      /\ comp[c].mine /\ ~locked /\ log' = log /\ dropped' = dropped
  BY DEF Capture, TypeOK, CompactState, walVars, histVars
<1>2. Up /\ applied = Len(log)
  BY <1>1 DEF LockInv, Up
<1> QED BY <1>1, <1>2

LEMMA CutStep ==
    ASSUME Inductive, [Next]_vars
    PROVE  CutInv'
<1>0. /\ TypeOK /\ CutInv /\ LockInv /\ SeqInv
      /\ Len(log) \in Nat /\ cur \in Seqs
      /\ \A c \in Compactors : comp[c].at \in Nat /\ comp[c].seq \in 0..MaxSeq
  BY DEF Inductive, TypeOK, CompactState
<1> SUFFICES ASSUME NEW c \in Compactors, Captured(c)'
             PROVE  /\ comp'[c].seq \in Seqs
                    /\ comp'[c].at <= Len(log')
                    /\ \A i \in Positions' :
                          /\ i <= comp'[c].at => log'[i].seg <= comp'[c].seq
                          /\ i > comp'[c].at => log'[i].seg >= comp'[c].seq
  BY DEF CutInv
<1>1. CASE Capture(c)
  <2>1. comp'[c].seq = cur /\ comp'[c].at = Len(log) /\ log' = log
    BY <1>0, <1>1, CaptureTakes
  <2> QED BY <1>0, <2>1 DEF SeqInv, Positions
<1>2. CASE ~Capture(c)
  <2>1. Captured(c) /\ comp'[c].seq = comp[c].seq /\ comp'[c].at = comp[c].at
    BY <1>0, <1>2, CapturedKept
  <2>2. CASE log' = log
    BY <1>0, <2>1, <2>2 DEF CutInv, Positions
  <2>3. CASE AppendRecord
    <3>1. \A i \in Positions' : i \in Positions \/ (i = Len(log) + 1 /\ log'[i].seg = cur)
      BY <1>0, <2>3, AppendFrame DEF Positions
    <3>2. comp[c].seq <= cur /\ comp[c].at < Len(log) + 1
      BY <1>0, <2>1 DEF SeqInv, CutInv
    <3> QED BY <1>0, <2>1, <2>3, <3>1, <3>2, AppendFrame DEF CutInv
  <2> QED BY <2>2, <2>3, LogUnchanged
<1> QED BY <1>1, <1>2

LEMMA LogStep ==
    ASSUME Inductive, [Next]_vars
    PROVE  LogInv'
<1> USE DEF writerVars, walVars, histVars, compVars, manifestVars
<1>0. /\ TypeOK /\ SeqInv /\ CutInv /\ LockInv /\ LogInv
      /\ Len(log) \in Nat /\ cur \in Nat /\ MaxSeq \in Nat
      /\ segments \in SUBSET (1..MaxSeq)
      /\ \A c \in Compactors : comp[c].seq \in 0..MaxSeq
      /\ comp \in [Compactors -> CompactState]
  BY DEF Inductive, TypeOK, Seqs, CompactState
<1>a. \A i \in Positions : log[i].seg \in Nat
  BY <1>0, SegNat
<1>f. /\ Files \subseteq Files'
      /\ (\A c \in Compactors : ~DeleteOne(c)) => segments \subseteq segments'
  BY <1>0, FilesKept
<1>d. ASSUME NEW c \in Compactors, DeleteOne(c)
      PROVE  \E g \in segments : /\ segments' = segments \ {g} /\ g < comp[c].seq
                                 /\ comp[c].seq \in Files /\ comp[c].seq <= cur
                                 /\ UNCHANGED <<phase, cur, log, comp>>
  <2>1. OldSegments(c) \in SUBSET Nat /\ OldSegments(c) # {}
    <3>1. segments \in SUBSET Nat
      BY <1>0 DEF TypeOK, Seqs
    <3> QED BY <3>1, <1>d DEF OldSegments, DeleteOne
  <2>2. Min(OldSegments(c)) \in OldSegments(c)
    BY <2>1, MinIn
  <2>3. comp[c].seq \in Files /\ comp[c].seq <= cur
    BY <1>0, <1>d DEF DeleteOne, LogInv, SeqInv
  <2> QED BY <1>d, <2>2, <2>3 DEF DeleteOne, OldSegments
<1>1. (phase # "closed" => cur \in segments)'
  <2>1. CASE \E c \in Compactors : DeleteOne(c)
    BY <1>0, <1>d, <2>1 DEF LogInv
  <2>2. CASE OpenLoad \/ OpenFails \/ Close \/ Crash \/ Rotate
    BY <2>2, <1>0 DEF OpenLoad, OpenFails, Close, Crash, Down, Rotate, LockInv, LogInv
  <2>3. ASSUME cur' = cur, phase' # "closed" => phase # "closed", segments' = segments
        PROVE  (phase # "closed" => cur \in segments)'
    BY <1>0, <2>3 DEF LogInv
  <2>4. CASE OpenReplay \/ OpenDone \/ (\E ops \in Batches : Write(ops)) \/ AppendRecord
             \/ Apply \/ DropTrigger
    BY <2>3, <2>4 DEF OpenReplay, OpenDone, Write, AppendRecord, Apply, DropTrigger
  <2>5. ASSUME NEW c \in Compactors, Begin(c) \/ CompactStep(c), ~DeleteOne(c)
        PROVE  (phase # "closed" => cur \in segments)'
    BY <2>3, <2>5 DEF Begin, CompactStep, Capture, CaptureClosed, CreateFile, FinishSnapshot,
              FailSnapshot, CallRefresh, EndCompact
  <2>6. CASE (\E r \in Refreshers : Refresh(r)) \/ UNCHANGED vars
    BY <2>3, <2>6 DEF Refresh, vars
  <2> QED BY <2>1, <2>2, <2>4, <2>5, <2>6 DEF Next
<1>2. (\A i, j \in Positions : i <= j => log[i].seg <= log[j].seg)'
  <2>1. CASE log' = log
    BY <1>0, <2>1 DEF LogInv, Positions
  <2>2. CASE AppendRecord
    <3>1. \A i \in Positions' : i \in Positions \/ (i = Len(log) + 1 /\ log'[i].seg = cur)
      BY <1>0, <2>2, AppendFrame DEF Positions
    <3>2. \A i \in Positions : log'[i] = log[i] /\ i < Len(log) + 1 /\ log[i].seg <= cur
      BY <1>0, <2>2, AppendFrame DEF Positions, SeqInv
    <3>3. ASSUME NEW i \in Positions', NEW j \in Positions', i <= j
          PROVE  log'[i].seg <= log'[j].seg
      <4>1. CASE i \in Positions /\ j \in Positions
        BY <1>0, <3>2, <3>3, <4>1 DEF LogInv
      <4>2. CASE i \in Positions /\ j \notin Positions
        BY <3>1, <3>2, <4>2
      <4>3. CASE i \notin Positions /\ j \in Positions
        <5>1. i = Len(log) + 1 /\ j \in Nat /\ j < Len(log) + 1
          BY <3>1, <3>2, <4>3 DEF Positions
        <5> QED BY <1>0, <3>3, <5>1
      <4>4. CASE i \notin Positions /\ j \notin Positions
        BY <1>0, <3>1, <4>4
      <4> QED BY <4>1, <4>2, <4>3, <4>4
    <3> QED BY <3>3
  <2> QED BY <2>1, <2>2, LogUnchanged
<1>3. ASSUME NEW c \in Compactors, comp'[c].pc \in {"writing", "deleting", "refreshing"}
      PROVE  comp'[c].seq \in Files'
  <2>1. Captured(c)' /\ comp'[c].pc # "captured"
    BY <1>3 DEF Captured
  <2>2. ~Capture(c)
    BY <1>0, <2>1 DEF Capture, CompactState
  <2>3. Captured(c) /\ comp'[c].seq = comp[c].seq
    BY <1>0, <2>1, <2>2, CapturedKept
  <2>4. CASE comp[c].pc # "captured"
    <3>1. comp[c].seq \in Files
      BY <1>0, <2>3, <2>4 DEF LogInv, Captured
    <3> QED BY <1>f, <2>3, <3>1
  <2>5. CASE comp[c].pc = "captured"
    <3>1. CreateFile(c)
      <4>1. comp'[c].pc # comp[c].pc
        BY <2>1, <2>5
      <4>2. ASSUME NEW d \in Compactors, CompactStep(d) PROVE d = c
        BY <1>0, <4>1, <4>2, CompactFrame
      <4>3. CompactStep(c)
        <5>1. CASE OpenLoad \/ OpenFails \/ OpenReplay \/ OpenDone
          BY <4>1, <5>1 DEF OpenLoad, OpenFails, OpenReplay, OpenDone
        <5>2. CASE Close
          BY <1>0, <4>1, <5>2 DEF Close, CompactState
        <5>3. CASE Crash
          BY <2>1, <5>3, IdleFacts DEF Crash, Captured
        <5>4. CASE (\E ops \in Batches : Write(ops)) \/ Rotate \/ AppendRecord \/ Apply \/ DropTrigger
          BY <4>1, <5>4 DEF Write, Rotate, AppendRecord, Apply, DropTrigger
        <5>5. ASSUME NEW d \in Compactors, Begin(d) PROVE FALSE
          <6>1. d # c
            BY <2>5, <5>5 DEF Begin, Working
          <6>2. comp[d].pc = "idle" /\ comp'[d].pc = "begun"
            BY <1>0, <5>5 DEF Begin, Working, IdleCompact
          <6> QED BY <1>0, <4>1, <5>5, <6>1 DEF Begin
        <5>6. CASE (\E r \in Refreshers : Refresh(r)) \/ UNCHANGED vars
          BY <4>1, <5>6 DEF Refresh, vars
        <5> QED BY <4>2, <5>1, <5>2, <5>3, <5>4, <5>5, <5>6 DEF Next
      <4> QED BY <2>2, <2>5, <4>3 DEF CompactStep, CaptureClosed, FinishSnapshot, FailSnapshot,
                  DeleteOne, CallRefresh, EndCompact, Capture
    <3>2. comp[c].seq \in Seqs
      BY <1>0, <2>3 DEF CutInv
    <3>3. snap'[comp[c].seq] = Partial
      BY <1>0, <3>1, <3>2 DEF CreateFile, TypeOK
    <3> QED BY <2>3, <3>2, <3>3 DEF Files, Partial
  <2> QED BY <2>4, <2>5
<1>4. ASSUME NEW i \in Positions', log'[i].seg \notin segments'
      PROVE  \E t \in Files' : t > log'[i].seg
  <2>1. CASE AppendRecord
    <3>1. \A j \in Positions' : (j \in Positions /\ log'[j] = log[j]) \/ log'[j].seg = cur
      BY <1>0, <2>1, AppendFrame DEF Positions
    <3>2. cur \in segments /\ segments' = segments
      BY <1>0, <2>1, AppendFrame DEF AppendRecord, LockInv, LogInv
    <3>3. i \in Positions /\ log'[i] = log[i]
      BY <1>4, <3>1, <3>2
    <3> QED BY <1>0, <1>4, <1>f, <3>2, <3>3 DEF LogInv
  <2>2. CASE log' = log
    <3>1. i \in Positions
      BY <2>2 DEF Positions
    <3>2. CASE \E c \in Compactors : DeleteOne(c)
      <4>1. PICK c \in Compactors, g \in segments :
               segments' = segments \ {g} /\ g < comp[c].seq /\ comp[c].seq \in Files
        BY <1>d, <3>2
      <4>2. log[i].seg \notin segments \/ log[i].seg = g
        BY <1>4, <2>2, <4>1
      <4> QED BY <1>0, <1>f, <2>2, <3>1, <4>1, <4>2 DEF LogInv
    <3>3. CASE \A c \in Compactors : ~DeleteOne(c)
      BY <1>0, <1>4, <1>f, <2>2, <3>1, <3>3 DEF LogInv
    <3> QED BY <3>2, <3>3
  <2> QED BY <2>1, <2>2, LogUnchanged
<1> QED BY <1>1, <1>2, <1>3, <1>4 DEF LogInv

\* Appending to the log changes nothing that has already been replayed ...
LEMMA AppendKeeps ==
    ASSUME TypeOK, AppendRecord, NEW base, NEW P \in SUBSET Positions
    PROVE  Replayed(log', base, P) = Replayed(log, base, P)
<1>1. Bounded(P)
  BY BoundedSets
<1>2. \A i \in P : log'[i] = log[i]
  BY AppendFrame
<1> QED BY ONLY <1>1, <1>2, ReplayedSame

\* ... and leaves a captured state one.
LEMMA StateKept ==
    ASSUME TypeOK, SeqInv, [Next]_vars, NEW s \in 0..MaxSeq, s <= cur, NEW P,
           Cut(s, P)
    PROVE  /\ Replayed(log', Empty, P) = Replayed(log, Empty, P)
           /\ P \subseteq Positions'
           /\ \A i \in P : log'[i].seg <= s
           /\ \A i \in Positions' : log'[i].seg < s => i \in P \cup dropped'
<1>0. P \in SUBSET Positions /\ Len(log) \in Nat /\ dropped \subseteq dropped' /\ cur \in Nat
  BY DroppedKept DEF Cut, TypeOK, Seqs
<1>1. CASE log' = log
  BY <1>0, <1>1 DEF Cut, Positions
<1>2. CASE AppendRecord
  <2>1. \A i \in Positions' : (i \in Positions /\ log'[i] = log[i]) \/ log'[i].seg = cur
    BY <1>0, <1>2, AppendFrame DEF Positions
  <2>2. Positions \subseteq Positions' /\ \A i \in Positions : log'[i] = log[i]
    BY <1>0, <1>2, AppendFrame DEF Positions
  <2>3. \A i \in Positions' : log'[i].seg < s => i \in Positions /\ log'[i] = log[i]
    BY <1>0, <2>1
  <2> QED BY <1>0, <1>2, <2>2, <2>3, AppendKeeps DEF Cut
<1> QED BY <1>1, <1>2, LogUnchanged

\* Apply extends whatever replay the index is.
LEMMA ApplyExtends ==
    ASSUME TypeOK, LockInv, Apply, NEW base, NEW P \in SUBSET (1..applied),
           index = Replayed(log, base, P)
    PROVE  index' = Replayed(log, base, P \cup ((applied + 1)..Len(log)))
<1>1. applied \in Nat /\ Len(log) \in Nat /\ applied <= Len(log)
  BY DEF TypeOK, LockInv, Up, Apply
<1>2. index' = Replayed(log, index, (applied + 1)..Len(log))
  BY DEF Apply
<1>3. Bounded(P \cup ((applied + 1)..Len(log)))
  <2>1. \A i \in P \cup ((applied + 1)..Len(log)) : i \in 1..Len(log)
    BY <1>1
  <2> QED BY <1>1, <2>1 DEF Bounded
<1>4. Before(P, (applied + 1)..Len(log))
  BY <1>1 DEF Before
<1> DEFINE T == (applied + 1)..Len(log)
<1>5. index' = Replayed(log, Replayed(log, base, P), T)
  BY <1>2
<1>6. Bounded(P \cup T) /\ Before(P, T)
  BY <1>3, <1>4
<1> HIDE DEF T
<1>7. index' = Replayed(log, base, P \cup T)
  BY ONLY <1>5, <1>6, ReplayedTwice
<1> QED BY <1>7 DEF T

\* What Open rebuilds from a complete snapshot is a replay of the records of
\* the snapshot and of the later segments.
LEMMA KeptReplayed ==
    ASSUME TypeOK, LogInv, SnapInv, NEW s \in 0..MaxSeq, Loadable(s)
    PROVE  /\ Kept(s) \in SUBSET Positions
           /\ Recovered(s) = Replayed(log, Empty, Kept(s))
<1> DEFINE W == holds[s]
           T == {i \in Positions : log[i].seg \in segments /\ log[i].seg > s}
<1>1. W \in SUBSET Positions /\ Base(s) = Replayed(log, Empty, W)
      /\ \A i \in W : log[i].seg <= s
  <2>1. CASE s = 0
    <3>1. W = {}
      BY <2>1 DEF SnapInv
    <3>2. Replayed(log, Empty, {}) = Empty
      BY DEF Replayed, Empty
    <3> QED BY <2>1, <3>1, <3>2 DEF Base
  <2>2. CASE s # 0
    BY <2>2 DEF SnapInv, Loadable, Base, Cut
  <2> QED BY <2>1, <2>2
<1>2. T \in SUBSET Positions /\ Kept(s) = W \cup T
  BY DEF Kept
<1>3. ASSUME NEW i \in W, NEW j \in T PROVE i < j
  <2>1. i \in Positions /\ j \in Positions /\ i \in Nat /\ j \in Nat
    BY <1>1, <1>2 DEF Positions
  <2>2. log[i].seg <= s /\ log[j].seg > s
    BY <1>1
  <2>3. log[i].seg \in Nat /\ log[j].seg \in Nat /\ s \in Nat
    BY <2>1, SegNat
  <2>4. ~(j <= i)
    BY <2>1, <2>2, <2>3 DEF LogInv
  <2> QED BY <2>1, <2>4
<1>4. Recovered(s) = Replayed(log, Replayed(log, Empty, W), T)
  BY <1>1 DEF Recovered
<1> HIDE DEF W, T
<1>5. Bounded(W \cup T)
  BY <1>1, <1>2, BoundedSets
<1>6. Before(W, T)
  BY <1>3 DEF Before
<1> QED BY <1>1, <1>2, <1>4, <1>5, <1>6, ReplayedTwice

LEMMA IndexStep ==
    ASSUME Inductive, [Next]_vars
    PROVE  IndexInv'
<1> USE DEF writerVars, walVars, histVars, compVars, manifestVars
<1>0. /\ TypeOK /\ LockInv /\ LogInv /\ IndexInv /\ SnapInv
      /\ applied \in Nat /\ Len(log) \in Nat
  BY DEF Inductive, TypeOK
<1>frame. ASSUME UNCHANGED <<log, index, applied, live, dropped>>, Up' => Up
          PROVE  IndexInv'
  BY <1>0, <1>frame DEF IndexInv
<1>1. CASE OpenLoad \/ OpenFails \/ Close \/ Crash
  <2>1. ~Up'
    BY <1>1 DEF OpenLoad, OpenFails, Close, Crash, Down, Up
  <2> QED BY <2>1 DEF IndexInv
<1>2. CASE OpenReplay
  <2>1. /\ index' = Recovered(man) /\ applied' = Len(log) /\ log' = log
        /\ live' = Kept(man) /\ dropped' = dropped \cup LeftOut(man)
        /\ man \in 0..MaxSeq /\ Loadable(man)
    BY <1>0, <1>2 DEF OpenReplay, TypeOK
  <2>2. Kept(man) \in SUBSET Positions /\ Recovered(man) = Replayed(log, Empty, Kept(man))
    BY <1>0, <2>1, KeptReplayed
  <2>3. ASSUME NEW i \in Positions, i \notin Kept(man)
        PROVE  i \in dropped \cup LeftOut(man)
    <3>1. log[i].seg \in Nat /\ man \in Nat /\ i \notin holds[man]
      BY <1>0, <2>1, <2>3, SegNat DEF Kept
    <3>2. CASE log[i].seg = man
      BY <2>3, <3>1, <3>2 DEF LeftOut, Skipped
    <3>3. CASE log[i].seg > man
      <4>1. log[i].seg \notin segments
        BY <2>3, <3>3 DEF Kept
      <4>2. \E t \in Files : t > log[i].seg
        BY <1>0, <4>1 DEF LogInv
      <4> QED BY <2>3, <3>3, <4>1, <4>2 DEF LeftOut, Unpublished
    <3>4. CASE log[i].seg < man
      <4>1. man # 0 /\ snap[man].st = "done"
        BY <2>1, <3>1, <3>4 DEF Loadable
      <4>2. Cut(man, holds[man])
        BY <1>0, <2>1, <4>1 DEF SnapInv
      <4> QED BY <3>1, <3>4, <4>2 DEF Cut
    <3> QED BY <3>1, <3>2, <3>3, <3>4
  <2>4. live' \subseteq 1..applied'
    BY <2>1, <2>2 DEF Positions
  <2>5. \A i \in 1..applied' : i \in live' \cup dropped'
    BY <2>1, <2>3 DEF Positions
  <2> QED BY <2>1, <2>2, <2>4, <2>5 DEF IndexInv
<1>3. CASE AppendRecord
  <2>1. UNCHANGED <<phase, index, applied, live, dropped>>
    BY <1>0, <1>3, AppendFrame
  <2>2. ASSUME Up PROVE Replayed(log', Empty, live) = Replayed(log, Empty, live)
    <3>1. live \in SUBSET Positions
      BY <1>0, <2>2 DEF IndexInv, LockInv, Positions
    <3> QED BY <1>0, <1>3, <3>1, AppendKeeps
  <2> QED BY <1>0, <2>1, <2>2 DEF IndexInv, Up
<1>4. CASE Apply
  <2>1. /\ UNCHANGED <<phase, log, dropped>> /\ applied' = Len(log)
        /\ live' = live \cup ((applied + 1)..Len(log)) /\ Up /\ applied <= Len(log)
    BY <1>0, <1>4 DEF Apply, LockInv, Up
  <2>2. /\ live \in SUBSET (1..applied) /\ index = Replayed(log, Empty, live)
        /\ \A i \in 1..applied : i \in live \cup dropped
    BY <1>0, <2>1 DEF IndexInv
  <2>3. index' = Replayed(log', Empty, live')
    BY <1>0, <1>4, <2>1, <2>2, ApplyExtends
  <2>4. 1..applied' = (1..applied) \cup ((applied + 1)..Len(log))
    BY <1>0, <2>1
  <2> QED BY <2>1, <2>2, <2>3, <2>4 DEF IndexInv
<1>5. CASE OpenDone \/ (\E ops \in Batches : Write(ops)) \/ Rotate \/ DropTrigger
  BY <1>5, <1>frame DEF OpenDone, Write, Rotate, DropTrigger, Up
<1>6. ASSUME NEW c \in Compactors, Begin(c) \/ CompactStep(c)
      PROVE  IndexInv'
  BY <1>6, <1>frame
  DEF Begin, CompactStep, Capture, CaptureClosed, CreateFile, FinishSnapshot, FailSnapshot,
      DeleteOne, CallRefresh, EndCompact, Up
<1>7. CASE (\E r \in Refreshers : Refresh(r)) \/ UNCHANGED vars
  BY <1>7, <1>frame DEF Refresh, vars, Up
<1> QED BY <1>1, <1>2, <1>3, <1>4, <1>5, <1>6, <1>7 DEF Next

LEMMA CaptureStep ==
    ASSUME Inductive, [Next]_vars
    PROVE  CaptureInv'
<1>0. /\ TypeOK /\ LockInv /\ SeqInv /\ CutInv /\ IndexInv /\ CaptureInv
      /\ \A c \in Compactors : comp[c].seq \in 0..MaxSeq /\ comp[c].seq <= cur
  BY DEF Inductive, TypeOK, CompactState, SeqInv
<1> SUFFICES ASSUME NEW c \in Compactors, Captured(c)'
             PROVE  /\ comp'[c].cap = Replayed(log', Empty, comp'[c].held)
                    /\ comp'[c].held \subseteq Positions'
                    /\ \A i \in comp'[c].held : log'[i].seg <= comp'[c].seq
                    /\ \A i \in Positions' : log'[i].seg < comp'[c].seq
                                                => i \in comp'[c].held \cup dropped'
  BY DEF CaptureInv, Cut
<1>1. CASE Capture(c)
  <2>1. /\ comp'[c].seq = cur /\ comp'[c].cap = index /\ comp'[c].held = live
        /\ Up /\ applied = Len(log) /\ log' = log /\ dropped' = dropped
    BY <1>0, <1>1, CaptureTakes
  <2>2. /\ live \subseteq Positions /\ index = Replayed(log, Empty, live)
        /\ \A i \in Positions : i \in live \cup dropped /\ log[i].seg <= cur
    BY <1>0, <2>1 DEF IndexInv, SeqInv, Positions
  <2> QED BY <2>1, <2>2 DEF Positions
<1>2. CASE ~Capture(c)
  <2>1. /\ Captured(c)
        /\ comp'[c].cap = comp[c].cap /\ comp'[c].seq = comp[c].seq
        /\ comp'[c].held = comp[c].held
    BY <1>0, <1>2, CapturedKept
  <2>2. comp[c].cap = Replayed(log, Empty, comp[c].held) /\ Cut(comp[c].seq, comp[c].held)
    BY <1>0, <2>1 DEF CaptureInv
  <2> QED BY <1>0, <2>1, <2>2, StateKept
<1> QED BY <1>1, <1>2

\* A complete snapshot was complete before, or has just been finished.
LEMMA SnapKept ==
    ASSUME TypeOK, CutInv, [Next]_vars, NEW s \in Seqs, snap'[s].st = "done"
    PROVE  \/ snap'[s] = snap[s] /\ holds'[s] = holds[s]
           \/ \E c \in Compactors : /\ Captured(c) /\ comp[c].seq = s
                                    /\ snap'[s].map = comp[c].cap
                                    /\ holds'[s] = comp[c].held
<1> USE DEF writerVars, walVars, histVars, compVars, manifestVars
<1>0. /\ snap \in [Seqs -> [st : {"none", "partial", "done"}, map : State]]
      /\ holds \in [0..MaxSeq -> SUBSET Nat] /\ s \in 0..MaxSeq
  BY DEF TypeOK, Seqs
<1>1. CASE OpenLoad \/ OpenFails \/ OpenReplay \/ OpenDone \/ Close \/ Crash
  BY <1>1 DEF OpenLoad, OpenFails, OpenReplay, OpenDone, Close, Crash, Down
<1>2. CASE (\E ops \in Batches : Write(ops)) \/ Rotate \/ AppendRecord \/ Apply \/ DropTrigger
  BY <1>2 DEF Write, Rotate, AppendRecord, Apply, DropTrigger
<1>3. ASSUME NEW c \in Compactors, CreateFile(c)
      PROVE  snap'[s] = snap[s] /\ holds'[s] = holds[s]
  <2>1. snap'[s] \in {snap[s], Partial}
    BY <1>0, <1>3 DEF CreateFile
  <2> QED BY <1>3, <2>1 DEF CreateFile, Partial
<1>4. ASSUME NEW c \in Compactors, FinishSnapshot(c)
      PROVE  \/ snap'[s] = snap[s] /\ holds'[s] = holds[s]
             \/ /\ Captured(c) /\ comp[c].seq = s
                /\ snap'[s].map = comp[c].cap /\ holds'[s] = comp[c].held
  <2>1. CASE s # comp[c].seq
    BY <1>0, <1>4, <2>1 DEF FinishSnapshot
  <2>2. CASE s = comp[c].seq
    <3>1. snap'[s] \in {Done(comp[c].cap), Partial} /\ holds'[s] = comp[c].held
      BY <1>0, <1>4, <2>2 DEF FinishSnapshot
    <3>2. snap'[s] = Done(comp[c].cap)
      BY <3>1 DEF Partial
    <3> QED BY <1>4, <2>2, <3>1, <3>2 DEF FinishSnapshot, Captured, Done
  <2> QED BY <2>1, <2>2
<1>5. ASSUME NEW c \in Compactors, Begin(c) \/ CompactStep(c), ~CreateFile(c), ~FinishSnapshot(c)
      PROVE  snap'[s] = snap[s] /\ holds'[s] = holds[s]
  BY <1>5 DEF Begin, CompactStep, Capture, CaptureClosed, FailSnapshot, DeleteOne,
              CallRefresh, EndCompact
<1>6. CASE (\E r \in Refreshers : Refresh(r)) \/ UNCHANGED vars
  BY <1>6 DEF Refresh, vars
<1> QED BY <1>1, <1>2, <1>3, <1>4, <1>5, <1>6 DEF Next

LEMMA SnapStep ==
    ASSUME Inductive, [Next]_vars
    PROVE  SnapInv'
<1>0. TypeOK /\ SeqInv /\ CutInv /\ CaptureInv /\ SnapInv /\ 0 \in 0..MaxSeq
  BY DEF Inductive
<1>1. holds'[0] = {}
  <2> USE DEF writerVars, walVars, histVars, compVars, manifestVars
  <2>1. holds[0] = {} /\ holds \in [0..MaxSeq -> SUBSET Nat]
    BY <1>0 DEF SnapInv, TypeOK
  <2>2. CASE OpenLoad \/ OpenFails \/ OpenReplay \/ OpenDone \/ Close \/ Crash
    BY <2>1, <2>2 DEF OpenLoad, OpenFails, OpenReplay, OpenDone, Close, Crash, Down
  <2>3. CASE (\E ops \in Batches : Write(ops)) \/ Rotate \/ AppendRecord \/ Apply \/ DropTrigger
    BY <2>1, <2>3 DEF Write, Rotate, AppendRecord, Apply, DropTrigger
  <2>4. ASSUME NEW c \in Compactors, FinishSnapshot(c) PROVE holds'[0] = {}
    <3>1. comp[c].seq # 0
      BY <1>0, <2>4 DEF FinishSnapshot, CutInv, Captured, Seqs
    <3> QED BY <1>0, <2>1, <2>4, <3>1 DEF FinishSnapshot
  <2>5. ASSUME NEW c \in Compactors, Begin(c) \/ CompactStep(c), ~FinishSnapshot(c)
        PROVE  holds'[0] = {}
    BY <2>1, <2>5 DEF Begin, CompactStep, Capture, CaptureClosed, CreateFile, FailSnapshot,
                DeleteOne, CallRefresh, EndCompact
  <2>6. CASE (\E r \in Refreshers : Refresh(r)) \/ UNCHANGED vars
    BY <2>1, <2>6 DEF Refresh, vars
  <2> QED BY <2>2, <2>3, <2>4, <2>5, <2>6 DEF Next
<1>2. ASSUME NEW s \in Seqs, snap'[s].st = "done"
      PROVE  /\ snap'[s].map = Replayed(log', Empty, holds'[s])
             /\ holds'[s] \subseteq Positions'
             /\ \A i \in holds'[s] : log'[i].seg <= s
             /\ \A i \in Positions' : log'[i].seg < s => i \in holds'[s] \cup dropped'
  <2>0. s \in 0..MaxSeq /\ s # 0
    BY DEF Seqs
  <2>1. CASE snap'[s] = snap[s] /\ holds'[s] = holds[s]
    <3>1. snap[s].map = Replayed(log, Empty, holds[s]) /\ Cut(s, holds[s])
      BY <1>0, <1>2, <2>0, <2>1 DEF SnapInv
    <3>2. s <= cur
      BY <1>0, <1>2, <2>1 DEF SeqInv, Files
    <3> QED BY <1>0, <2>0, <2>1, <3>1, <3>2, StateKept
  <2>2. ASSUME NEW c \in Compactors, Captured(c), comp[c].seq = s,
               snap'[s].map = comp[c].cap, holds'[s] = comp[c].held
        PROVE  /\ snap'[s].map = Replayed(log', Empty, holds'[s])
               /\ holds'[s] \subseteq Positions'
               /\ \A i \in holds'[s] : log'[i].seg <= s
               /\ \A i \in Positions' : log'[i].seg < s => i \in holds'[s] \cup dropped'
    <3>1. comp[c].cap = Replayed(log, Empty, comp[c].held) /\ Cut(s, comp[c].held)
      BY <1>0, <2>2 DEF CaptureInv
    <3>2. s <= cur
      BY <1>0, <2>2 DEF SeqInv
    <3> QED BY <1>0, <2>0, <2>2, <3>1, <3>2, StateKept
  <2> QED BY <1>0, <1>2, <2>1, <2>2, SnapKept
<1>3. \A s \in 0..MaxSeq : s = 0 \/ s \in Seqs
  BY DEF Seqs
<1> QED BY <1>1, <1>2, <1>3 DEF SnapInv, Cut

LEMMA InductiveInit == Init => Inductive
<1> SUFFICES ASSUME Init PROVE Inductive
  OBVIOUS
<1>1. /\ phase = "closed" /\ locked = FALSE /\ cur = 1 /\ log = << >> /\ segments = {}
      /\ man = 0 /\ Len(log) = 0
      /\ \A c \in Compactors : comp[c] = IdleCompact
      /\ \A r \in Refreshers : ref[r] = IdleRefresh
      /\ holds = [s \in 0..MaxSeq |-> {}]
      /\ snap = [s \in Seqs |-> NoSnapshot]
  BY DEF Init, ManifestInit
<1>2. Positions = {}
  BY <1>1 DEF Positions
<1>3. TypeOK
  BY TypeInit
<1>4. LockInv
  BY <1>1, IdleFacts DEF LockInv, Up
<1>5. SeqInv
  <2>1. Files = {}
    BY DEF Init, Files, NoSnapshot
  <2>2. \A x \in {manifest, tmp} \cap Int : x <= 1
    BY DEF Init, ManifestInit
  <2> QED BY <1>1, <1>2, <2>1, <2>2, IdleFacts DEF SeqInv
<1>6. CutInv /\ CaptureInv
  BY <1>1, IdleFacts DEF CutInv, CaptureInv, Captured
<1>7. LogInv
  BY <1>1, <1>2, IdleFacts DEF LogInv
<1>8. IndexInv
  BY <1>1 DEF IndexInv, Up
<1>9. SnapInv
  BY <1>1 DEF SnapInv, NoSnapshot, Seqs
<1> QED BY <1>3, <1>4, <1>5, <1>6, <1>7, <1>8, <1>9 DEF Inductive

LEMMA InductiveStep == Inductive /\ [Next]_vars => Inductive'
<1> SUFFICES ASSUME Inductive, [Next]_vars PROVE Inductive'
  OBVIOUS
<1>1. TypeOK'
  BY TypeStep DEF Inductive
<1> QED
  BY <1>1, LockStep, SeqStep, LogStep, CutStep, IndexStep, CaptureStep, SnapStep DEF Inductive

\* The index, every capture and every complete snapshot are replays of known
\* records, and every record one of them lacks was left out by an Open or was
\* appended after (Compact, replayWAL and the write path together).
THEOREM InductiveInvariant == Spec => []Inductive
<1> QED BY InductiveInit, InductiveStep, PTL DEF Spec

-----------------------------------------------------------------------------
(* What a crash can lose *)

\* Two replays that differ in a key differ in its newest record.
LEMMA NewestDiffers ==
    ASSUME NEW l, NEW base, NEW P, NEW Q, Bounded(P \cup Q), NEW k \in Keys,
           Replayed(l, base, P)[k] # Replayed(l, base, Q)[k], base[k] = 0
    PROVE  \E i \in P \cup Q : /\ l[i].key = k /\ (i \in P <=> i \notin Q)
                               /\ i >= Replayed(l, base, P)[k]
                               /\ i >= Replayed(l, base, Q)[k]
<1>1. Bounded(P) /\ Bounded(Q)
  BY DEF Bounded
<1>2. CASE Untouched(l, P \cup Q, k)
  <2>1. Untouched(l, P, k) /\ Untouched(l, Q, k)
    BY <1>2 DEF Untouched
  <2> QED BY <2>1, ReplayedNone
<1>3. ASSUME NEW i, IsLast(l, P \cup Q, k, i)
      PROVE  /\ i \in P \cup Q /\ l[i].key = k /\ (i \in P <=> i \notin Q)
             /\ i >= Replayed(l, base, P)[k]
             /\ i >= Replayed(l, base, Q)[k]
  <2>0. \A j \in P \cup Q : j \in Nat
    BY DEF Bounded
  <2>1. ASSUME NEW R \in {P, Q} PROVE i >= Replayed(l, base, R)[k]
    <3>0. i \in Nat
      BY <1>3, <2>0 DEF IsLast
    <3>1. CASE Untouched(l, R, k)
      BY <3>0, <3>1, ReplayedNone
    <3>2. ASSUME NEW m, IsLast(l, R, k, m) PROVE i >= Replayed(l, base, R)[k]
      <4>1. m \in Nat /\ m <= i
        BY <1>3, <2>0, <3>2 DEF IsLast
      <4>2. Replayed(l, base, R)[k] = Value(l, m)
        BY <1>1, <3>2, ReplayedLast
      <4> QED BY <3>0, <4>1, <4>2 DEF Value
    <3> QED BY <1>1, <3>1, <3>2, LastOrNone
  <2>2. ASSUME i \in P, i \in Q PROVE FALSE
    <3>1. IsLast(l, P, k, i) /\ IsLast(l, Q, k, i)
      BY <1>3, <2>2 DEF IsLast
    <3> QED BY <1>1, <3>1, ReplayedLast
  <2> QED BY <1>3, <2>1, <2>2 DEF IsLast
<1> QED BY <1>2, <1>3, LastOrNone

LEMMA InductiveConfines ==
    ASSUME Inductive
    PROVE  LossConfined
<1> SUFFICES ASSUME Quiet, ~Refused, NEW k \in Keys, Recovered(manifest)[k] # index[k]
             PROVE  Explained(k)
  BY DEF LossConfined
<1> DEFINE s == manifest
<1>1. TypeOK /\ LockInv /\ LogInv /\ IndexInv /\ SnapInv
  BY DEF Inductive
<1>2. Up /\ applied = Len(log)
  BY <1>1 DEF Quiet, Up, LockInv
<1>3. s \in 0..MaxSeq /\ Loadable(s)
  BY <1>1 DEF Refused, TypeOK, ManifestTypeOK, Content
<1>4. Kept(s) \in SUBSET Positions /\ Recovered(s) = Replayed(log, Empty, Kept(s))
  BY <1>1, <1>3, KeptReplayed
<1>5. /\ live \in SUBSET Positions /\ index = Replayed(log, Empty, live)
      /\ \A i \in Positions : i \in live \cup dropped
  BY <1>1, <1>2 DEF IndexInv, Positions
<1>6. PICK i \in Kept(s) \cup live :
         /\ log[i].key = k /\ (i \in Kept(s) <=> i \notin live)
         /\ i >= Recovered(s)[k] /\ i >= index[k]
  <2>1. Bounded(Kept(s) \cup live)
    BY <1>1, <1>4, <1>5, BoundedSets
  <2>2. Empty[k] = 0
    BY DEF Empty
  <2> QED BY <1>4, <1>5, <2>1, <2>2, NewestDiffers
<1>7. i \in Positions
  BY <1>4, <1>5
<1>8. CASE i \in Kept(s)
  BY <1>5, <1>6, <1>7, <1>8 DEF Explained
<1>9. CASE i \notin Kept(s)
  <2>1. log[i].seg \in Nat /\ s \in Nat /\ i \notin holds[s]
    BY <1>1, <1>3, <1>7, <1>9, SegNat DEF Kept
  <2>2. CASE log[i].seg = s
    BY <1>6, <1>7, <2>1, <2>2 DEF Explained, Skipped
  <2>3. CASE log[i].seg > s
    <3>1. log[i].seg \notin segments
      BY <1>7, <1>9, <2>3 DEF Kept
    <3>2. \E t \in Files : t > log[i].seg
      BY <1>1, <1>7, <3>1 DEF LogInv
    <3> QED BY <1>6, <1>7, <2>3, <3>1, <3>2 DEF Explained, Unpublished
  <2>4. CASE log[i].seg < s
    <3>1. Cut(s, holds[s])
      BY <1>1, <1>3, <2>1, <2>4 DEF SnapInv, Loadable
    <3>2. i \in dropped
      BY <1>7, <2>1, <2>4, <3>1 DEF Cut
    <3> QED BY <1>6, <1>7, <3>2 DEF Explained
  <2> QED BY <2>1, <2>2, <2>3, <2>4
<1> QED BY <1>8, <1>9

(***************************************************************************)
(* After a crash Open refuses the directory or rebuilds every key, but for *)
(* the records it skips because they share their segment with the          *)
(* published snapshot (open.go:155), those of segments deleted for a       *)
(* snapshot not published (compact.go:48-52), and those an earlier Open    *)
(* had left out for these reasons.  Any manifest, any snapshot, any number *)
(* of compactions and refreshes beside each other.                         *)
(***************************************************************************)
THEOREM LossConfinedAlways == Spec => []LossConfined
<1>1. Inductive => LossConfined
  BY InductiveConfines
<1> QED BY <1>1, InductiveInvariant, PTL

-----------------------------------------------------------------------------
(* What a compaction deletes *)

(***************************************************************************)
(* No two compactions overlap: one handle sees to that (compacting), but a *)
(* compaction goes on when its handle is closed, and the next handle may   *)
(* begin its own beside it.                                                *)
(***************************************************************************)
OneCompaction == \A c, d \in Compactors : Working(c) /\ Working(d) => c = d

\* The file of a running compaction holds what the compaction has written.
WrittenInv ==
    \A c \in Compactors :
        /\ comp[c].pc = "writing" => snap[comp[c].seq] = Partial
        /\ comp[c].pc = "deleting" => snap[comp[c].seq] = Done(comp[c].cap)

LEMMA WrittenInit == Init => WrittenInv
BY IdleFacts DEF Init, WrittenInv

LEMMA WrittenStep == Inductive /\ OneCompaction /\ WrittenInv /\ [Next]_vars => WrittenInv'
<1> SUFFICES ASSUME Inductive, OneCompaction, WrittenInv, [Next]_vars PROVE WrittenInv'
  OBVIOUS
<1> USE DEF writerVars, walVars, histVars, compVars, manifestVars
<1>1. /\ snap \in [Seqs -> [st : {"none", "partial", "done"}, map : State]]
      /\ comp \in [Compactors -> CompactState]
      /\ \A c \in Compactors : Captured(c) => comp[c].seq \in Seqs
  BY DEF Inductive, TypeOK, CutInv
<1>2. ASSUME snap' = snap,
             \A c \in Compactors : \/ comp'[c].pc \notin {"writing", "deleting"}
                                   \/ /\ comp'[c].pc = comp[c].pc /\ comp'[c].seq = comp[c].seq
                                      /\ comp'[c].cap = comp[c].cap
      PROVE  WrittenInv'
  BY <1>2 DEF WrittenInv
<1>3. CASE Close
  BY <1>1, <1>2, <1>3 DEF Close, Down, CompactState
<1>4. CASE Crash
  BY <1>2, <1>4, IdleFacts DEF Crash, Down
<1>5. ASSUME NEW c \in Compactors, CreateFile(c) PROVE WrittenInv'
  <2>1. /\ comp[c].pc = "captured" /\ comp[c].seq \in Seqs
        /\ comp' = [comp EXCEPT ![c].pc = "writing"]
        /\ snap' = [snap EXCEPT ![comp[c].seq] = Partial]
    BY <1>1, <1>5 DEF CreateFile, Captured
  <2>2. \A d \in Compactors : d # c => comp'[d].pc = "idle"
    BY <2>1, <1>1 DEF OneCompaction, Working, CompactState
  <2>3. comp'[c].pc = "writing" /\ snap'[comp'[c].seq] = Partial
    BY <2>1, <1>1 DEF CompactState
  <2> QED BY <2>2, <2>3 DEF WrittenInv
<1>6. ASSUME NEW c \in Compactors, FinishSnapshot(c) PROVE WrittenInv'
  <2>1. /\ comp[c].pc = "writing" /\ comp[c].seq \in Seqs /\ snap[comp[c].seq] = Partial
        /\ comp' = [comp EXCEPT ![c].pc = "deleting"]
    BY <1>1, <1>6 DEF FinishSnapshot, Captured, WrittenInv
  <2>2. \A d \in Compactors : d # c => comp[d].pc = "idle" /\ comp'[d].pc = "idle"
    BY <2>1, <1>1 DEF OneCompaction, Working, CompactState
  <2>3. ~SharesFile(c)
    BY <2>1, <2>2 DEF SharesFile, Partial
  <2>4. snap' = [snap EXCEPT ![comp[c].seq] = Done(comp[c].cap)]
    BY <1>6, <2>3 DEF FinishSnapshot
  <2>5. comp'[c].pc = "deleting" /\ snap'[comp'[c].seq] = Done(comp'[c].cap)
    BY <2>1, <2>4, <1>1 DEF CompactState
  <2> QED BY <2>2, <2>5 DEF WrittenInv
<1>7. ASSUME NEW c \in Compactors, CompactStep(c), ~CreateFile(c), ~FinishSnapshot(c)
      PROVE  WrittenInv'
  <2>1. snap' = snap /\ \A d \in Compactors : d # c => comp'[d] = comp[d]
    BY <1>7, <1>1 DEF CompactStep, Capture, CaptureClosed, FailSnapshot, DeleteOne,
                      CallRefresh, EndCompact
  <2>2. comp'[c].pc \notin {"writing", "deleting"} \/ comp'[c] = comp[c]
    BY <1>7, <1>1, IdleFacts DEF CompactStep, Capture, CaptureClosed, FailSnapshot,
                      DeleteOne, CallRefresh, EndCompact, CompactState
  <2> QED BY <1>2, <2>1, <2>2
<1>8. ASSUME NEW c \in Compactors, Begin(c) PROVE WrittenInv'
  <2>1. snap' = snap /\ \A d \in Compactors : d # c => comp'[d] = comp[d]
    BY <1>8, <1>1 DEF Begin
  <2>2. comp'[c].pc = "begun"
    BY <1>8, <1>1 DEF Begin, IdleCompact
  <2> QED BY <1>2, <2>1, <2>2
<1>9. CASE OpenLoad \/ OpenFails \/ OpenReplay \/ OpenDone
  BY <1>2, <1>9 DEF OpenLoad, OpenFails, OpenReplay, OpenDone
<1>10. CASE (\E ops \in Batches : Write(ops)) \/ Rotate \/ AppendRecord \/ Apply \/ DropTrigger
  BY <1>2, <1>10 DEF Write, Rotate, AppendRecord, Apply, DropTrigger
<1>11. CASE \E r \in Refreshers : Refresh(r)
  BY <1>2, <1>11 DEF Refresh
<1>12. CASE UNCHANGED vars
  BY <1>2, <1>12 DEF vars
<1> QED BY <1>3, <1>4, <1>5, <1>6, <1>7, <1>8, <1>9, <1>10, <1>11, <1>12 DEF Next

\* Only a compaction deletes, and it deletes what its snapshot covers.
LEMMA DeletesCovered ==
    ASSUME Inductive, WrittenInv, [Next]_vars, NEW g \in segments \ segments'
    PROVE  \E c \in Compactors : Covers(c, g)
<1> USE DEF writerVars, walVars, histVars, compVars, manifestVars
<1>1. PICK c \in Compactors : DeleteOne(c)
  <2>1. CASE OpenLoad \/ OpenFails \/ OpenReplay \/ OpenDone
    BY <2>1 DEF OpenLoad, OpenFails, OpenReplay, OpenDone
  <2>2. CASE Close \/ Crash
    BY <2>2 DEF Close, Crash, Down
  <2>3. CASE (\E ops \in Batches : Write(ops)) \/ Rotate \/ AppendRecord \/ Apply \/ DropTrigger
    BY <2>3 DEF Write, Rotate, AppendRecord, Apply, DropTrigger
  <2>4. ASSUME NEW c \in Compactors, Begin(c) \/ CompactStep(c)
        PROVE  DeleteOne(c)
    BY <2>4 DEF Begin, CompactStep, Capture, CaptureClosed, CreateFile, FinishSnapshot,
                FailSnapshot, CallRefresh, EndCompact
  <2>5. CASE \E r \in Refreshers : Refresh(r)
    BY <2>5 DEF Refresh
  <2>6. CASE UNCHANGED vars
    BY <2>6 DEF vars
  <2> QED BY <2>1, <2>2, <2>3, <2>4, <2>5, <2>6 DEF Next
<1>2. OldSegments(c) \in SUBSET (0..MaxSeq) /\ MaxSeq \in Nat /\ OldSegments(c) # {}
      /\ segments' = segments \ {Min(OldSegments(c))}
  <2>1. segments \in SUBSET (1..MaxSeq) /\ MaxSeq \in Nat
    BY ManifestConstants DEF Inductive, TypeOK, Seqs
  <2>2. OldSegments(c) \in SUBSET (0..MaxSeq)
    <3>1. \A h \in segments : h \in 0..MaxSeq
      BY <2>1
    <3> QED BY <3>1 DEF OldSegments
  <2> QED BY <1>1, <2>1, <2>2 DEF DeleteOne
<1>3. g \in OldSegments(c)
  BY <1>2, MinIn
<1>4. g < comp[c].seq /\ g \in Nat
  BY <1>2, <1>3 DEF OldSegments
<1>5. comp[c].pc = "deleting" /\ comp[c].seq \in Nat /\ comp[c].at \in Nat
      /\ \A i \in Positions : i > comp[c].at => log[i].seg >= comp[c].seq
  BY <1>1 DEF DeleteOne, Inductive, CutInv, Captured, Seqs, TypeOK, CompactState
<1>6. ASSUME NEW i \in Positions, log[i].seg = g PROVE i <= comp[c].at
  <2>1. i \in Nat
    BY DEF Positions
  <2> QED BY <1>4, <1>5, <1>6, <2>1
<1>7. snap[comp[c].seq] = Done(comp[c].cap)
  BY <1>5 DEF WrittenInv
<1> QED BY <1>4, <1>5, <1>6, <1>7 DEF Covers

(***************************************************************************)
(* Where compactions do not overlap, a segment is deleted only by one      *)
(* whose snapshot is complete and holds all of its records                 *)
(* (compact.go:18-52).                                                     *)
(***************************************************************************)
THEOREM DeletionCoveredByOne == Spec /\ []OneCompaction => DeletionCovered
<1>1. Inductive /\ WrittenInv /\ [Next]_vars
        => [\A g \in segments \ segments' : \E c \in Compactors : Covers(c, g)]_vars
  BY DeletesCovered
<1>2. Spec /\ []OneCompaction => []WrittenInv
  BY WrittenInit, WrittenStep, InductiveInvariant, PTL DEF Spec
<1> QED BY <1>1, <1>2, InductiveInvariant, PTL DEF Spec, DeletionCovered

-----------------------------------------------------------------------------
(* The durable map *)

\* No compaction runs.
Calm == \A c \in Compactors : ~Working(c)

(***************************************************************************)
(* Then there are no snapshots, the manifest names none, every segment is  *)
(* still there, and the index is the log up to the last write that was     *)
(* applied.                                                                *)
(***************************************************************************)
NoSnapshotsInv ==
    /\ snap = [s \in Seqs |-> NoSnapshot]
    /\ manifest = 0 /\ tmp = NoFile /\ man = 0
    /\ \A r \in Refreshers : ref[r].pc \in {"idle", "list"}
    /\ \A i \in Positions : log[i].seg \in segments
    /\ phase # "closed" => cur \in segments

IndexIsLog == Up => index = Replayed(log, Empty, 1..applied)

CalmInv == NoSnapshotsInv /\ IndexIsLog

Whole == Replayed(log, Empty, Positions)

LEMMA NoFiles == ASSUME NoSnapshotsInv PROVE Files = {} /\ Base(0) = Empty
BY DEF NoSnapshotsInv, Files, NoSnapshot, Base

LEMMA WholeRecovered ==
    ASSUME TypeOK, NoSnapshotsInv
    PROVE  Recovered(0) = Whole
<1>1. {i \in Positions : log[i].seg \in segments /\ log[i].seg > 0} = Positions
  <2>1. log \in Seq(Record)
    BY DEF TypeOK
  <2>2. \A i \in Positions : log[i] \in Record
    BY <2>1 DEF Positions
  <2>3. \A i \in Positions : log[i].seg \in segments /\ log[i].seg > 0
    BY <2>2 DEF NoSnapshotsInv, Record, Seqs
  <2> QED BY <2>3
<1> QED BY <1>1, NoFiles DEF Recovered, Whole

ClientsSeeLog == Surviving = Whole

LEMMA SurvivingIsWhole ==
    ASSUME Inductive, CalmInv
    PROVE  ClientsSeeLog
<1> USE DEF ClientsSeeLog
<1>1. CASE Quiet
  <2>1. applied = Len(log) /\ Up
    BY <1>1 DEF Quiet, Up, Inductive, LockInv
  <2> QED BY <1>1, <2>1 DEF CalmInv, IndexIsLog, Surviving, Whole, Positions
<1>2. CASE ~Quiet
  BY <1>2, WholeRecovered DEF Surviving, Inductive, CalmInv, NoSnapshotsInv
<1> QED BY <1>1, <1>2

LEMMA CalmInit == Init => CalmInv
BY IdleFacts DEF Init, ManifestInit, CalmInv, NoSnapshotsInv, IndexIsLog, Up, Positions

\* Appending adds the last record, in the segment that is written to.
LEMMA NoSnapshotsStep ==
    ASSUME Inductive, Calm, NoSnapshotsInv, [Next]_vars
    PROVE  NoSnapshotsInv'
<1> USE DEF writerVars, walVars, histVars, compVars, manifestVars
<1>1. ref \in [Refreshers -> RefreshState] /\ Files = {}
  BY NoFiles DEF Inductive, TypeOK, ManifestTypeOK
<1>2. ASSUME UNCHANGED <<log, snap, manifest, tmp>>, man' = 0, segments \subseteq segments',
             phase' # "closed" => cur' \in segments',
             \/ ref' = ref
             \/ \E r \in Refreshers : ref' = Calling(r) \/ ref' = Return(r)
             \/ \A r \in Refreshers : ref'[r] = IdleRefresh
      PROVE  NoSnapshotsInv'
  <2>1. \A r \in Refreshers : ref'[r].pc \in {"idle", "list"}
    BY <1>1, <1>2 DEF NoSnapshotsInv, Calling, Return, IdleRefresh, RefreshState
  <2>2. \A i \in Positions' : log'[i].seg \in segments'
    BY <1>2 DEF NoSnapshotsInv, Positions
  <2> QED BY <1>2, <2>1, <2>2 DEF NoSnapshotsInv
<1>3. CASE OpenLoad
  <2>1. man' = 0 /\ cur' \in segments'
    BY <1>3 DEF OpenLoad, NoSnapshotsInv
  <2> QED BY <1>2, <1>3, <2>1 DEF OpenLoad
<1>4. CASE OpenFails \/ OpenDone
  BY <1>2, <1>4 DEF OpenFails, OpenDone, NoSnapshotsInv
<1>5. CASE OpenReplay
  <2>1. Main \in Refreshers
    BY StorageConstants
  <2> QED BY <1>2, <1>5, <2>1 DEF OpenReplay, NoSnapshotsInv
<1>6. CASE Close
  BY <1>2, <1>6 DEF Close, Down
<1>7. CASE Crash
  <2>1. UNCHANGED <<log, snap, segments, manifest, tmp>> /\ man' = 0 /\ phase' = "closed"
        /\ \A r \in Refreshers : ref'[r] = IdleRefresh
    BY <1>7 DEF Crash, Down, ManifestCrash
  <2> QED BY <1>2, <2>1
<1>8. CASE (\E ops \in Batches : Write(ops)) \/ Apply \/ DropTrigger
  BY <1>2, <1>8 DEF Write, Apply, DropTrigger, NoSnapshotsInv
<1>9. CASE Rotate
  <2>1. Main \in Refreshers
    BY StorageConstants
  <2>2. UNCHANGED <<log, snap, manifest, tmp>> /\ man' = 0 /\ segments \subseteq segments'
        /\ ref' = Calling(Main) /\ cur' \in segments'
    BY <1>9 DEF Rotate, NoSnapshotsInv
  <2> QED BY <1>2, <2>1, <2>2
<1>10. CASE AppendRecord
  <2>1. /\ Len(log) \in Nat /\ Len(log') = Len(log) + 1 /\ \A i \in Positions : log'[i] = log[i]
        /\ log'[Len(log) + 1].seg = cur
        /\ UNCHANGED <<phase, man, cur, segments, snap, manifest, tmp, ref>>
    BY <1>10, AppendFrame DEF Inductive, TypeOK
  <2>2. cur \in segments
    <3>1. phase = "open"
      BY <1>10 DEF AppendRecord, Inductive, LockInv
    <3> QED BY <3>1 DEF NoSnapshotsInv
  <2>3. Positions' = Positions \cup {Len(log) + 1}
    BY <2>1 DEF Positions
  <2>4. \A i \in Positions' : log'[i].seg \in segments'
    BY <2>1, <2>2, <2>3 DEF NoSnapshotsInv
  <2> QED BY <2>1, <2>4 DEF NoSnapshotsInv
<1>11. ASSUME NEW c \in Compactors, Begin(c) PROVE NoSnapshotsInv'
  BY <1>2, <1>11 DEF Begin, NoSnapshotsInv
<1>12. ASSUME NEW c \in Compactors, CompactStep(c) PROVE NoSnapshotsInv'
  <2>1. comp[c].pc = "idle"
    BY DEF Calm, Working
  <2> QED BY <1>12, <2>1 DEF CompactStep, Capture, CaptureClosed, CreateFile, FinishSnapshot,
                      FailSnapshot, DeleteOne, CallRefresh, EndCompact
<1>13. ASSUME NEW r \in Refreshers, Refresh(r) PROVE NoSnapshotsInv'
  <2>1. ref[r].pc \in {"idle", "list"} /\ UNCHANGED <<phase, man, cur, log, segments, snap>>
    BY <1>13 DEF NoSnapshotsInv, Refresh
  <2>2. ListDirs(r, {})
    BY <1>1, <1>13, <2>1 DEF Refresh, RefreshStep, CreateTmp, FlushTmp, RenameTmp
  <2>3. ref' = Return(r) /\ UNCHANGED <<manifest, tmp>>
    BY <2>2 DEF ListDirs
  <2>4. man' = 0 /\ (phase' # "closed" => cur' \in segments')
    BY <2>1 DEF NoSnapshotsInv
  <2> QED BY <1>2, <2>1, <2>3, <2>4
<1>14. CASE UNCHANGED vars
  BY <1>2, <1>14 DEF vars, NoSnapshotsInv
<1> QED BY <1>3, <1>4, <1>5, <1>6, <1>7, <1>8, <1>9, <1>10, <1>11, <1>12, <1>13, <1>14 DEF Next

LEMMA IndexIsLogStep ==
    ASSUME Inductive, NoSnapshotsInv, IndexIsLog, [Next]_vars
    PROVE  IndexIsLog'
<1> USE DEF writerVars, walVars, histVars, compVars, manifestVars
<1>1. TypeOK /\ LockInv /\ applied \in Nat /\ Len(log) \in Nat
  BY DEF Inductive, TypeOK
<1>2. ASSUME UNCHANGED <<log, index, applied>>, Up' => Up PROVE IndexIsLog'
  BY <1>2 DEF IndexIsLog
<1>3. ASSUME phase' \in {"closed", "loading"} PROVE IndexIsLog'
  BY <1>3 DEF IndexIsLog, Up
<1>4. CASE OpenLoad \/ OpenFails \/ Close \/ Crash
  <2>1. phase' \in {"closed", "loading"}
    BY <1>4 DEF OpenLoad, OpenFails, Close, Crash, Down
  <2> QED BY <1>3, <2>1
<1>5. CASE OpenReplay
  <2>1. index' = Recovered(0) /\ applied' = Len(log) /\ log' = log
    BY <1>5 DEF OpenReplay, NoSnapshotsInv
  <2>2. index' = Replayed(log, Empty, 1..applied')
    BY <1>1, <2>1, WholeRecovered DEF Whole, Positions
  <2> QED BY <2>1, <2>2 DEF IndexIsLog
<1>6. CASE AppendRecord
  <2>1. UNCHANGED <<index, applied, phase>> /\ phase = "open" /\ Up
    BY <1>6 DEF AppendRecord, Inductive, LockInv, Up
  <2>2. 1..applied \in SUBSET Positions
    BY <1>1, <2>1 DEF LockInv, Positions
  <2>3. Replayed(log', Empty, 1..applied) = Replayed(log, Empty, 1..applied)
    BY <1>1, <1>6, <2>2, AppendKeeps
  <2> QED BY <2>1, <2>3 DEF IndexIsLog
<1>7. CASE Apply
  <2>1. locked /\ phase = "open" /\ log' = log /\ applied' = Len(log)
    BY <1>1, <1>7 DEF Apply, LockInv
  <2>2. index = Replayed(log, Empty, 1..applied)
    BY <2>1 DEF IndexIsLog, Up
  <2>3. index' = Replayed(log, Empty, (1..applied) \cup ((applied + 1)..Len(log)))
    BY <1>1, <1>7, <2>2, ApplyExtends
  <2>4. applied <= Len(log)
    BY <1>1, <2>1 DEF LockInv, Up
  <2>5. (1..applied) \cup ((applied + 1)..Len(log)) = 1..Len(log)
    BY <1>1, <2>4
  <2> QED BY <2>1, <2>3, <2>5 DEF IndexIsLog
<1>8. CASE OpenDone \/ (\E ops \in Batches : Write(ops)) \/ Rotate \/ DropTrigger
  BY <1>2, <1>8 DEF OpenDone, Write, Rotate, DropTrigger, Up
<1>9. CASE \E c \in Compactors : Begin(c) \/ CompactStep(c)
  BY <1>2, <1>9 DEF Begin, CompactStep, Capture, CaptureClosed, CreateFile, FinishSnapshot,
                    FailSnapshot, DeleteOne, CallRefresh, EndCompact, Up
<1>10. CASE \E r \in Refreshers : Refresh(r)
  BY <1>2, <1>10 DEF Refresh, Up
<1>11. CASE UNCHANGED vars
  BY <1>2, <1>11 DEF vars, Up
<1> QED BY <1>4, <1>5, <1>6, <1>7, <1>8, <1>9, <1>10, <1>11 DEF Next

\* A record, once appended, is an operation of the durable map.
LEMMA AppendDurable ==
    ASSUME TypeOK, AppendRecord
    PROVE  \E k \in Keys : /\ Len(log') = Len(log) + 1
                           /\ \/ Whole' = [Whole EXCEPT ![k] = Len(log')]
                              \/ Whole' = [Whole EXCEPT ![k] = 0]
<1> DEFINE n == Len(log) + 1
           k == Head(pend).key
<1>1. /\ Len(log) \in Nat /\ Len(log') = n /\ \A i \in Positions : log'[i] = log[i]
      /\ Positions' = Positions \cup {n} /\ Positions = 1..Len(log)
  <2>1. Len(log) \in Nat /\ Len(log') = n /\ \A i \in Positions : log'[i] = log[i]
    BY AppendFrame DEF TypeOK
  <2> QED BY <2>1 DEF Positions
<1>2. k \in Keys /\ log'[n].key = k
  <2>1. pend \in Seq(Op) /\ pend # << >> /\ log \in Seq(Record)
    BY DEF AppendRecord, TypeOK
  <2>2. Head(pend) \in Op
    BY <2>1
  <2>3. log'[n].key = k
    BY <2>1 DEF AppendRecord
  <2> QED BY <2>2, <2>3 DEF Op
<1> HIDE DEF k
<1>3. n \in Nat /\ Bounded(Positions) /\ Bounded(Positions')
      /\ \A i \in Positions' : i <= n
  <2>1. Positions \in SUBSET (1..n) /\ Positions' \in SUBSET (1..n) /\ n \in Nat
    BY <1>1
  <2>2. ASSUME NEW i \in Positions' PROVE i <= n
    BY <2>1
  <2> HIDE DEF n
  <2> QED BY <2>1, <2>2 DEF Bounded
<1> HIDE DEF n
<1>4. ASSUME NEW j \in Keys, j # k
      PROVE  Replayed(log', Empty, Positions')[j] = Replayed(log, Empty, Positions)[j]
  <2>1. {i \in Positions' : log'[i].key = j} = {i \in Positions : log'[i].key = j}
    BY <1>1, <1>2, <1>4
  <2>2. Replayed(log', Empty, Positions')[j] = Replayed(log', Empty, Positions)[j]
    BY <2>1 DEF Replayed
  <2>3. Replayed(log', Empty, Positions) = Replayed(log, Empty, Positions)
    BY <1>1, <1>3, ReplayedSame
  <2> QED BY <2>2, <2>3
<1>5. Replayed(log', Empty, Positions')[k] \in {0, n}
  <2>1. n \in Positions' /\ \A i \in Positions' : i <= n
    BY <1>1, <1>3
  <2>2. IsLast(log', Positions', k, n)
    BY <1>2, <2>1 DEF IsLast
  <2>3. Replayed(log', Empty, Positions')[k] = Value(log', n)
    BY <1>2, <1>3, <2>2, ReplayedLast
  <2> QED BY <2>3 DEF Value
<1>6. PICK v \in {0, n} : Replayed(log', Empty, Positions')[k] = v
  BY <1>5
<1>7. Whole' = [Whole EXCEPT ![k] = v]
  BY <1>2, <1>4, <1>6 DEF Whole, Replayed
<1> QED BY <1>1, <1>2, <1>6, <1>7 DEF n

(***************************************************************************)
(* While no compaction runs, Storage implements DurableKV: no crash,       *)
(* restart or rotation loses a record that was appended, invents one or    *)
(* brings a deleted key back (open.go:129-199).  Batches of any size: each *)
(* record is an operation of its own.                                      *)
(***************************************************************************)
THEOREM ImplementsDurable == Spec /\ []Calm => DurableSpec
<1>1. Init => Durable!Init
  <2> SUFFICES ASSUME Init PROVE Durable!Init
    OBVIOUS
  <2>1. Inductive /\ CalmInv /\ log = << >>
    BY InductiveInit, CalmInit DEF Init
  <2>2. Positions = {} /\ Len(log) = 0
    BY <2>1 DEF Positions
  <2>3. Whole = [k \in Keys |-> 0]
    BY <2>2 DEF Whole, Replayed, Empty
  <2> QED BY <2>1, <2>2, <2>3, SurvivingIsWhole DEF Durable!Init, ClientsSeeLog
<1>2. Inductive /\ Calm /\ CalmInv /\ [Next]_vars => CalmInv'
  BY NoSnapshotsStep, IndexIsLogStep DEF CalmInv
<1>3. Inductive /\ CalmInv => ClientsSeeLog
  BY SurvivingIsWhole
<1>4. Inductive' /\ CalmInv' => ClientsSeeLog'
  BY <1>3, PTL
<1>5. Inductive /\ Inductive' /\ CalmInv /\ CalmInv' /\ [Next]_vars
        => [Durable!Next]_Durable!vars
  <2> SUFFICES ASSUME Inductive, Inductive', CalmInv, CalmInv', [Next]_vars
               PROVE  Durable!Next \/ UNCHANGED Durable!vars
    OBVIOUS
  <2>1. Surviving = Whole /\ Surviving' = Whole'
    BY <1>3, <1>4 DEF ClientsSeeLog
  <2>2. CASE AppendRecord
    <3>1. PICK k \in Keys : /\ Len(log') = Len(log) + 1
                            /\ \/ Whole' = [Whole EXCEPT ![k] = Len(log')]
                               \/ Whole' = [Whole EXCEPT ![k] = 0]
      BY <2>2, AppendDurable DEF Inductive
    <3>2. Durable!Set(k) \/ Durable!Delete(k)
      BY <2>1, <3>1 DEF Durable!Set, Durable!Delete
    <3> QED BY <3>2 DEF Durable!Next
  <2>3. CASE ~AppendRecord
    <3>1. log' = log
      BY <2>3, LogUnchanged
    <3> QED BY <2>1, <3>1 DEF Durable!vars, Whole, Positions
  <2> QED BY <2>2, <2>3
<1>6. Spec /\ []Calm => []CalmInv
  BY <1>2, CalmInit, InductiveInvariant, PTL DEF Spec
<1> QED BY <1>1, <1>5, <1>6, InductiveInvariant, PTL DEF Spec, DurableSpec, Durable!Spec

-----------------------------------------------------------------------------
(***************************************************************************)
(* The manifest.  Any number of calls of refreshManifest overlap, and the  *)
(* process dies anywhere in them: a call that shares MANIFEST.tmp with no  *)
(* other publishes a complete manifest, and a call that is not overtaken   *)
(* either publishes one that is not older than the one it replaces.        *)
(***************************************************************************)
LEMMA MaxDir ==
    ASSUME NEW S \in SUBSET Seqs, S # {}
    PROVE  Max(S) \in S /\ \A s \in S : s <= Max(S)
<1>1. MaxSeq \in Nat /\ S \in SUBSET (0..MaxSeq)
  BY ManifestConstants DEF Seqs
<1>2. Max(S) \in S /\ \A s \in S : Max(S) >= s
  BY <1>1, MaxIn
<1>3. \A s \in S : s \in Int
  BY <1>1
<1> QED BY <1>2, <1>3

-----------------------------------------------------------------------------
(* Types, whatever overlaps *)

LEMMA DirTypeStep == DirTypeOK /\ [DirNext]_dirVars => DirTypeOK'
<1> SUFFICES ASSUME DirTypeOK, [DirNext]_dirVars PROVE DirTypeOK'
  OBVIOUS
<1> USE ManifestConstants DEF DirTypeOK, ManifestTypeOK
<1>1. IdleRefresh \in RefreshState /\ 0 \in Content /\ 0 \in 0..MaxSeq
  BY DEF IdleRefresh, RefreshState, Content
<1>2. ASSUME NEW s \in Seqs, CreateSnapshot(s) PROVE DirTypeOK'
  BY <1>2 DEF CreateSnapshot, manifestVars, overlapVars
<1>3. ASSUME NEW r \in Refreshers, StartRefresh(r) PROVE DirTypeOK'
  BY <1>1, <1>3 DEF StartRefresh, Calling, RefreshState, IdleRefresh, overlapVars
<1>4. ASSUME NEW r \in Refreshers, DirRefresh(r) PROVE DirTypeOK'
  <2>0. shared' \subseteq Refreshers /\ overtaken' \subseteq Refreshers
    BY <1>4 DEF DirRefresh, NoteOverlaps
  <2>1. ref[r].seq \in Content /\ ref[r].seq \in 0..MaxSeq /\ UNCHANGED dir
    BY <1>4 DEF RefreshState, Content, DirRefresh
  <2>2. CASE ListDirs(r, dir)
    <3>1. dir # {} => Max(dir) \in 0..MaxSeq
      <4>1. \A s \in Seqs : s \in 0..MaxSeq
        BY DEF Seqs
      <4> QED BY <4>1, MaxDir
    <3> QED BY <1>1, <2>0, <2>1, <2>2, <3>1 DEF ListDirs, Return, RefreshState
  <2>3. CASE CreateTmp(r)
    BY <1>1, <2>0, <2>1, <2>3 DEF CreateTmp, RefreshState
  <2>4. CASE FlushTmp(r)
    <3>1. \A old : Overwritten(old, ref[r].seq) \subseteq Content
      BY <2>1 DEF Overwritten, Content
    <3>2. ref' \in [Refreshers -> RefreshState]
      BY <2>4 DEF FlushTmp, RefreshState
    <3> QED BY <2>0, <2>1, <2>4, <3>1, <3>2 DEF FlushTmp
  <2>5. CASE RenameTmp(r)
    <3>1. ASSUME NEW s \in Refreshers PROVE [ref[s] EXCEPT !.fd = AfterRename(ref[s].fd)] \in RefreshState
      BY DEF RefreshState, AfterRename
    <3>2. ref' \in [Refreshers -> RefreshState]
      BY <1>1, <2>5, <3>1 DEF RenameTmp, Return
    <3> QED BY <2>0, <2>1, <2>5, <3>2 DEF RenameTmp
  <2> QED BY <1>4, <2>2, <2>3, <2>4, <2>5 DEF DirRefresh, RefreshStep
<1>5. CASE DirCrash
  BY <1>1, <1>5 DEF DirCrash, ManifestCrash
<1>6. CASE UNCHANGED dirVars
  BY <1>6 DEF dirVars, overlapVars
<1> QED BY <1>2, <1>3, <1>4, <1>5, <1>6 DEF DirNext

(***************************************************************************)
(* MANIFEST and MANIFEST.tmp hold a sequence number or what two writers    *)
(* left of each other, however many calls of refreshManifest overlap.      *)
(***************************************************************************)
THEOREM DirTypeCorrect == DirSpec => []DirTypeOK
<1>1. DirInit => DirTypeOK
  BY ManifestConstants DEF DirInit, ManifestInit, DirTypeOK, ManifestTypeOK, IdleRefresh,
     RefreshState, Content
<1> QED BY <1>1, DirTypeStep, PTL DEF DirSpec

-----------------------------------------------------------------------------
(* Which overlaps do harm *)

\* What a call has listed exists.  It is not older than MANIFEST unless the
\* call was overtaken, and MANIFEST.tmp is the call's own unless it is shared.
InOrder(r) ==
    /\ Listed(r) => ref[r].seq \in dir
    /\ Listed(r) /\ r \notin overtaken => (manifest \in Seqs => manifest <= ref[r].seq)
    /\ Writing(r) /\ r \notin shared =>
         /\ ref[r].fd = "tmp"
         /\ tmp = IF ref[r].pc = "created" THEN 0 ELSE ref[r].seq
         /\ \A q \in Refreshers : Writing(q) => q = r

OrderInv ==
    /\ DirTypeOK
    /\ manifest \in {0, Garbled} \cup dir
    /\ tmp \in {0, Garbled, NoFile} \cup dir
    /\ \A r \in Refreshers : InOrder(r)

LEMMA OrderInit == DirInit => OrderInv
BY ManifestConstants DEF DirInit, ManifestInit, OrderInv, InOrder, Listed, Writing, DirTypeOK,
   ManifestTypeOK, IdleRefresh, RefreshState, Content

\* What the history variables say after a step of a call.
LEMMA OverlapNoted ==
    ASSUME NoteOverlaps, NEW s \in Refreshers
    PROVE  /\ Writing(s)' /\ s \notin shared' =>
                s \notin shared /\ \A q \in Refreshers : Writing(q)' => q = s
           /\ Listed(s)' /\ s \notin overtaken' =>
                s \notin overtaken /\ (Listed(s) => manifest' = manifest)
<1> DEFINE W(q) == Writing(q)'
           L(q) == Listed(q)'
           M == manifest' # manifest
<1>1. /\ shared' = {r \in Refreshers : W(r) /\ (r \in shared \/ \E q \in Refreshers \ {r} : W(q))}
      /\ overtaken' = {r \in Refreshers : L(r) /\ (r \in overtaken \/ (Listed(r) /\ M))}
  BY DEF NoteOverlaps
<1> HIDE DEF W, L
<1>2. /\ W(s) /\ s \notin shared' => s \notin shared /\ \A q \in Refreshers : W(q) => q = s
      /\ L(s) /\ s \notin overtaken' => s \notin overtaken /\ (Listed(s) => ~M)
  BY <1>1
<1> QED BY <1>2 DEF W, L

LEMMA OrderStep == OrderInv /\ [DirNext]_dirVars => OrderInv'
<1> SUFFICES ASSUME OrderInv, [DirNext]_dirVars PROVE OrderInv'
  OBVIOUS
<1>0. DirTypeOK'
  BY DirTypeStep DEF OrderInv
<1> USE ManifestConstants
<1>1. /\ manifest \in {0, Garbled} \cup dir /\ tmp \in {0, Garbled, NoFile} \cup dir
      /\ dir \in SUBSET Seqs
      /\ \A r \in Refreshers : InOrder(r)
      /\ ref \in [Refreshers -> RefreshState]
      /\ \A s \in Seqs : s \in Int
  BY DEF OrderInv, DirTypeOK, ManifestTypeOK, Seqs
<1>2. ASSUME NEW s \in Seqs, CreateSnapshot(s) PROVE OrderInv'
  BY <1>0, <1>1, <1>2
  DEF CreateSnapshot, manifestVars, overlapVars, OrderInv, InOrder, Listed, Writing
<1>3. ASSUME NEW r \in Refreshers, StartRefresh(r) PROVE OrderInv'
  <2>1. ASSUME NEW s \in Refreshers PROVE InOrder(s)'
    <3>1. CASE s = r
      BY <1>1, <1>3, <3>1 DEF StartRefresh, Calling, InOrder, IdleRefresh, RefreshState, Listed, Writing
    <3>2. CASE s # r
      <4>1. /\ ref'[s] = ref[s] /\ ref[r].pc = "idle" /\ ref'[r].pc = "list"
            /\ \A q \in Refreshers : q # r => ref'[q] = ref[q]
            /\ UNCHANGED <<manifest, tmp, dir, shared, overtaken>>
        BY <1>1, <1>3, <3>2 DEF StartRefresh, RefreshIdle, Calling, IdleRefresh, RefreshState, overlapVars
      <4>2. \A q \in Refreshers : Writing(q)' => Writing(q)
        BY <4>1 DEF Writing
      <4> QED BY <1>1, <4>1, <4>2 DEF InOrder, Listed, Writing
    <3> QED BY <3>1, <3>2
  <2> QED BY <1>0, <1>1, <1>3, <2>1 DEF StartRefresh, OrderInv
<1>4. ASSUME NEW r \in Refreshers, DirRefresh(r) PROVE OrderInv'
  <2>1. UNCHANGED dir /\ NoteOverlaps
    BY <1>4 DEF DirRefresh
  <2>2. \A s \in Refreshers :
          /\ Writing(s)' /\ s \notin shared' =>
               s \notin shared /\ \A q \in Refreshers : Writing(q)' => q = s
          /\ Listed(s)' /\ s \notin overtaken' =>
               s \notin overtaken /\ (Listed(s) => manifest' = manifest)
    BY <2>1, OverlapNoted
  <2>3. CASE ListDirs(r, dir)
    <3>1. dir # {} => Max(dir) \in dir /\ (manifest \in dir => manifest <= Max(dir))
      BY <1>1, MaxDir
    <3>2. UNCHANGED <<manifest, tmp>>
      BY <2>3 DEF ListDirs
    <3>3. \A s \in Refreshers : s # r => ref'[s] = ref[s]
      BY <1>1, <2>3 DEF ListDirs, Return
    <3>4. ref'[r].pc \in {"idle", "listed"} /\ (ref'[r].pc = "listed" => dir # {} /\ ref'[r].seq = Max(dir))
      BY <1>1, <2>3 DEF ListDirs, Return, IdleRefresh, RefreshState
    <3>5. manifest \in Seqs => manifest \in dir
      BY <1>1 DEF Seqs
    <3>6. InOrder(r)'
      BY <2>1, <3>1, <3>2, <3>4, <3>5 DEF InOrder, Listed, Writing
    <3>7. ASSUME NEW s \in Refreshers, s # r PROVE InOrder(s)'
      BY <1>1, <2>1, <2>2, <3>2, <3>3, <3>7 DEF InOrder, Listed, Writing
    <3> QED BY <1>0, <1>1, <2>1, <3>2, <3>6, <3>7 DEF OrderInv
  <2>4. CASE CreateTmp(r)
    <3>1. /\ \A s \in Refreshers : s # r => ref'[s] = ref[s]
          /\ ref[r].pc = "listed" /\ ref'[r].pc = "created" /\ ref'[r].fd = "tmp"
          /\ ref'[r].seq = ref[r].seq /\ tmp' = 0 /\ UNCHANGED manifest
      BY <1>1, <2>4 DEF CreateTmp, RefreshState
    <3>2. Writing(r)' /\ Listed(r)
      BY <3>1 DEF Writing, Listed
    <3>3. InOrder(r)'
      BY <1>1, <2>1, <2>2, <3>1, <3>2 DEF InOrder
    <3>4. ASSUME NEW s \in Refreshers, s # r PROVE InOrder(s)'
      <4>1. ~(Writing(s)' /\ s \notin shared')
        BY <2>2, <3>2, <3>4
      <4>2. Listed(s)' => Listed(s)
        BY <3>1, <3>4 DEF Listed
      <4> QED BY <1>1, <2>1, <2>2, <3>1, <3>4, <4>1, <4>2 DEF InOrder
    <3> QED BY <1>0, <1>1, <2>1, <3>1, <3>3, <3>4 DEF OrderInv
  <2>5. CASE FlushTmp(r)
    <3>1. /\ \A s \in Refreshers : s # r => ref'[s] = ref[s]
          /\ ref[r].pc = "created" /\ ref'[r].pc = "flushed" /\ ref'[r].fd = ref[r].fd
          /\ ref'[r].seq = ref[r].seq
      BY <1>1, <2>5 DEF FlushTmp, RefreshState
    <3>2. Writing(r) /\ Writing(r)' /\ Listed(r) /\ ref[r].seq \in dir
      BY <1>1, <3>1 DEF Writing, Listed, InOrder
    <3>3. \A old : Overwritten(old, ref[r].seq) \subseteq {Garbled} \cup dir
      BY <3>2 DEF Overwritten
    <3>4. manifest' \in {0, Garbled} \cup dir /\ tmp' \in {0, Garbled, NoFile} \cup dir
      BY <1>1, <2>5, <3>3 DEF FlushTmp
    <3>5. InOrder(r)'
      <4>1. Writing(r)' /\ r \notin shared' => ref[r].fd = "tmp" /\ tmp = 0
        BY <1>1, <2>2, <3>1, <3>2 DEF InOrder
      <4>2. ref[r].fd = "tmp" /\ tmp = 0 => tmp' = ref[r].seq
        BY <2>5 DEF FlushTmp, Overwritten
      <4>3. Listed(r)' => Listed(r)
        BY <3>2
      <4> QED BY <1>1, <2>1, <2>2, <3>1, <4>1, <4>2, <4>3 DEF InOrder
    <3>6. ASSUME NEW s \in Refreshers, s # r PROVE InOrder(s)'
      <4>1. ~(Writing(s)' /\ s \notin shared')
        BY <2>2, <3>2, <3>6
      <4>2. Listed(s)' => Listed(s)
        BY <3>1, <3>6 DEF Listed
      <4> QED BY <1>1, <2>1, <2>2, <3>1, <3>6, <4>1, <4>2 DEF InOrder
    <3> QED BY <1>0, <2>1, <3>4, <3>5, <3>6 DEF OrderInv
  <2>6. CASE RenameTmp(r)
    <3>1. ref'[r].pc = "idle" /\ ref[r].pc = "flushed"
          /\ \A s \in Refreshers : s # r => ref'[s].pc = ref[s].pc /\ ref'[s].seq = ref[s].seq
      BY <1>1, <2>6 DEF RenameTmp, Return, IdleRefresh, RefreshState
    <3>2. manifest' \in {0, Garbled} \cup dir /\ tmp' \in {0, Garbled, NoFile} \cup dir
      BY <1>1, <2>6 DEF RenameTmp
    <3>3. InOrder(r)'
      BY <3>1 DEF InOrder, Listed, Writing
    <3>4. ASSUME NEW s \in Refreshers, s # r PROVE InOrder(s)'
      <4>1. (Listed(s)' => Listed(s)) /\ (Writing(s)' => Writing(s)) /\ Writing(r)
        BY <3>1, <3>4 DEF Listed, Writing
      <4>2. ~(Writing(s)' /\ s \notin shared')
        BY <1>1, <2>2, <3>4, <4>1 DEF InOrder
      <4> QED BY <1>1, <2>1, <2>2, <3>1, <3>4, <4>1, <4>2 DEF InOrder
    <3> QED BY <1>0, <2>1, <3>2, <3>3, <3>4 DEF OrderInv
  <2> QED BY <1>4, <2>3, <2>4, <2>5, <2>6 DEF DirRefresh, RefreshStep
<1>5. CASE DirCrash
  BY <1>0, <1>1, <1>5
  DEF DirCrash, ManifestCrash, IdleRefresh, OrderInv, InOrder, Listed, Writing
<1>6. CASE UNCHANGED dirVars
  BY <1>0, <1>1, <1>6 DEF dirVars, overlapVars, OrderInv, InOrder, Listed, Writing
<1> QED BY <1>2, <1>3, <1>4, <1>5, <1>6 DEF DirNext

LEMMA OrderAlways == DirSpec => []OrderInv
BY OrderInit, OrderStep, PTL DEF DirSpec

\* A step that changes MANIFEST is a step of a call, and what it leaves there
\* when the call had MANIFEST.tmp to itself.
LEMMA Publishes ==
    ASSUME OrderInv, [DirNext]_dirVars, manifest' # manifest
    PROVE  \E r \in Refreshers :
             /\ DirRefresh(r)
             /\ r \notin shared =>
                  /\ manifest' \in dir
                  /\ r \notin overtaken => (manifest \in Seqs => manifest <= manifest')
<1>1. PICK r \in Refreshers : DirRefresh(r)
  BY DEF DirNext, dirVars, CreateSnapshot, StartRefresh, DirCrash, ManifestCrash, manifestVars
<1>2. ASSUME r \notin shared
      PROVE  /\ manifest' \in dir
             /\ r \notin overtaken => (manifest \in Seqs => manifest <= manifest')
  <2>1. InOrder(r)
    BY DEF OrderInv
  <2>2. CASE FlushTmp(r)
    BY <1>2, <2>1, <2>2 DEF FlushTmp, InOrder, Writing
  <2>3. CASE RenameTmp(r)
    BY <1>2, <2>1, <2>3 DEF RenameTmp, InOrder, Writing, Listed
  <2> QED BY <1>1, <2>2, <2>3 DEF DirRefresh, RefreshStep, ListDirs, CreateTmp
<1> QED BY <1>1, <1>2

(***************************************************************************)
(* Whatever overlaps and wherever the process dies, MANIFEST is only ever  *)
(* replaced by a complete manifest that names a snapshot on disk, but by a *)
(* call that had MANIFEST.tmp open beside another.                         *)
(***************************************************************************)
THEOREM NeverTornAlways == DirSpec => NeverTorn
<1>1. OrderInv /\ [DirNext]_dirVars
        => [manifest' # manifest =>
              manifest' \in dir \/ \E r \in shared : DirRefresh(r)]_dirVars
  BY Publishes
<1> QED BY <1>1, OrderAlways, PTL DEF DirSpec, NeverTorn

(***************************************************************************)
(* ... and only ever by one that names an older snapshot by such a call,   *)
(* or by one that was overtaken: MANIFEST changed after its listing.       *)
(***************************************************************************)
THEOREM NeverGoesBackAlways == DirSpec => NeverGoesBack
<1>1. OrderInv /\ [DirNext]_dirVars
        => [{manifest, manifest'} \subseteq Seqs /\ manifest' < manifest =>
              \E r \in shared \cup overtaken : DirRefresh(r)]_dirVars
  <2> SUFFICES ASSUME OrderInv, [DirNext]_dirVars, {manifest, manifest'} \subseteq Seqs,
                      manifest' < manifest
               PROVE  \E r \in shared \cup overtaken : DirRefresh(r)
    OBVIOUS
  <2>1. manifest \in Int /\ manifest' \in Int
    BY DEF Seqs
  <2> QED BY <2>1, Publishes
<1> QED BY <1>1, OrderAlways, PTL DEF DirSpec, NeverGoesBack

=============================================================================
