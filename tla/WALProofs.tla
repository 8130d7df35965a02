------------------------------ MODULE WALProofs ------------------------------
(***************************************************************************)
(* Proofs about WAL for any number of segments, records and calls, any     *)
(* size of a segment, and any of the faults.                               *)
(***************************************************************************)
EXTENDS WAL, SetLemmas, FiniteSetTheorems, SequenceTheorems

-----------------------------------------------------------------------------
(* The inductive invariant *)

\* Where the call in progress is with its records, which are new ones.
Calling ==
    /\ file = "nil" => pc = "idle"
    /\ pc = "idle" => mine = {}
    /\ pc = "append" => todo # {}
    /\ pc = "sync" => todo = {}
    /\ mine \cup acked \cup refused \subseteq 1..encoded
    /\ mine \cap (acked \cup refused) = {}
    /\ acked \cap refused = {}

\* The log is written at its last segment; the others are as they are synced.
Segments ==
    /\ file # "nil" => seq \in Seqs /\ \A g \in exists : g <= seq
    /\ file = "open" => seq \in exists
    /\ \A g \in Seqs \ exists : disk[g] = << >>
    /\ \A g \in Seqs : synced[g] <= Len(disk[g])
    /\ \A g, h \in exists : g < h => synced[g] = Len(disk[g])

\* Every record of a call may rotate the log once.
Room ==
    pc = "append" =>
        seq + Cardinality(todo) <= IF Full THEN MaxSeq ELSE MaxSeq + 1

Whole(g) == {i \in DOMAIN disk[g] : disk[g][i] # Torn}

\* currentSize counts every complete record of the current segment.
Counted == file = "open" => Cardinality(Whole(seq)) <= size

InSegment(r) == \E g \in exists : \E i \in DOMAIN disk[g] : disk[g][i] = r

\* A record acknowledged before a Sync is where no loss of power reaches.
Placed ==
    \A r \in safe : \A g \in exists : \A i \in DOMAIN disk[g] :
        disk[g][i] = r => i <= synced[g]

\* Explained, in the middle of a call too.
Found ==
    file # "nil" =>
        /\ \A r \in index : r \in snap.set \/ InSegment(r) \/ r \in dropped
        /\ \A r \in mine \ todo : InSegment(r)
        /\ Recovered \ index \subseteq refused \cup (mine \ todo)

WALInv ==
    /\ TypeOK
    /\ Calling
    /\ Segments
    /\ Room
    /\ SegmentBounded
    /\ Counted
    /\ Placed
    /\ Found

-----------------------------------------------------------------------------
(* The operators *)

LEMMA Facts ==
    ASSUME WALInv
    PROVE  /\ MaxSeq \in Nat /\ MaxSeq >= 1 /\ MaxRecords \in Nat /\ MaxBatch \in Nat
           /\ maxSize \in Nat /\ maxSize >= 1 /\ size \in Nat /\ encoded \in Nat
           /\ seq \in Nat /\ seq <= MaxSeq /\ exists \subseteq Seqs /\ Seqs \subseteq Nat
           /\ Torn \notin Records /\ Torn \in Content
           /\ \A g \in Seqs :
                 /\ disk[g] \in Seq(Content) /\ Len(disk[g]) \in Nat
                 /\ DOMAIN disk[g] = 1..Len(disk[g])
                 /\ synced[g] \in Nat /\ synced[g] <= Len(disk[g])
<1>1. MaxSeq \in Nat /\ MaxSeq >= 1 /\ MaxRecords \in Nat /\ MaxBatch \in Nat
  BY WALConstants
<1>2. \A n \in WALSizes : n \in Nat /\ n >= 1
  BY WALConstants
<1>3. maxSize \in WALSizes /\ size \in Nat /\ encoded \in 0..MaxRecords /\ seq \in 0..MaxSeq
        /\ exists \subseteq Seqs
  BY DEF WALInv, TypeOK
<1>4. Seqs \subseteq Nat
  BY <1>1 DEF Seqs
<1>5. \A r \in Records : r \in Int
  BY DEF Records
<1>6. \A g \in Seqs : disk[g] \in Seq(Content) /\ synced[g] \in Nat /\ synced[g] <= Len(disk[g])
  BY DEF WALInv, TypeOK, Segments
<1>7. \A g \in Seqs : Len(disk[g]) \in Nat /\ DOMAIN disk[g] = 1..Len(disk[g])
  BY <1>6, LenProperties
<1> QED BY <1>1, <1>2, <1>3, <1>4, <1>5, <1>6, <1>7, WALConstants DEF Content

\* The first record of the rest of a call.
LEMMA NextRecord ==
    ASSUME WALInv, todo # {}
    PROVE  /\ Min(todo) \in todo /\ Min(todo) \in Records /\ Min(todo) \in Content
           /\ IsFiniteSet(todo) /\ Cardinality(todo) \in Nat /\ Cardinality(todo) >= 1
           /\ Cardinality(todo \ {Min(todo)}) = Cardinality(todo) - 1
<1>1. todo \subseteq Records /\ todo \in SUBSET Nat
  <2>1. \A r \in Records : r \in Nat
    BY DEF Records
  <2> QED BY <2>1 DEF WALInv, TypeOK
<1>2. IsFiniteSet(todo)
  <2>1. IsFiniteSet(Records)
    <3>1. MaxRecords \in Int /\ 1 \in Int
      BY Facts
    <3> QED BY <3>1, FS_Interval DEF Records
  <2> QED BY <1>1, <2>1, FS_Subset
<1>3. Min(todo) \in todo
  BY <1>1, MinIn
<1>4. Cardinality(todo) \in Nat /\ Cardinality(todo \ {Min(todo)}) = Cardinality(todo) - 1
        /\ Cardinality(todo \ {Min(todo)}) \in Nat
  <2>1. IsFiniteSet(todo \ {Min(todo)})
    BY <1>2, FS_RemoveElement
  <2> QED BY <1>2, <1>3, <2>1, FS_RemoveElement, FS_CardinalityType
<1>5. Cardinality(todo) >= 1
  <2> DEFINE n == Cardinality(todo)
  <2>1. n \in Nat /\ n - 1 \in Nat
    BY <1>4
  <2> HIDE DEF n
  <2>2. n >= 1
    BY <2>1
  <2> QED BY <2>2 DEF n
<1>6. Min(todo) \in Records /\ Min(todo) \in Content
  BY <1>1, <1>3 DEF Content
<1> QED BY <1>2, <1>3, <1>4, <1>5, <1>6

LEMMA RecoveredIs ==
    ASSUME NEW r
    PROVE  r \in Recovered <=>
             \/ r \in snap.set
             \/ \E g \in exists : g > snap.seq /\ r \in Readable(g)
BY DEF Recovered

LEMMA SameLog ==
    ASSUME UNCHANGED <<disk, exists, snap>>
    PROVE  Recovered' = Recovered /\ \A r : InSegment(r)' <=> InSegment(r)
<1>1. \A g : Readable(g)' = Readable(g)
  BY DEF Readable
<1> QED BY <1>1 DEF Recovered, InSegment

\* A segment that is empty adds nothing.
LEMMA NewSegment ==
    ASSUME NEW g, disk[g] = << >> \/ g \in exists, exists' = exists \cup {g},
           UNCHANGED <<disk, snap>>
    PROVE  Recovered' = Recovered /\ \A r : InSegment(r)' <=> InSegment(r)
<1>1. \A h : Readable(h)' = Readable(h)
  BY DEF Readable
<1>2. g \notin exists => Readable(g) = {} /\ DOMAIN disk[g] = {}
  BY DEF Readable
<1>3. \A r : InSegment(r)' <=> InSegment(r)
  BY <1>2 DEF InSegment
<1>4. ASSUME NEW r PROVE r \in Recovered' <=> r \in Recovered
  <2>1. r \in Recovered' <=> \/ r \in snap.set
                             \/ \E h \in exists' : h > snap.seq /\ r \in Readable(h)
    BY <1>1 DEF Recovered
  <2> QED BY <1>2, <2>1, RecoveredIs
<1> QED BY <1>3, <1>4

\* One more record, or its remains, at the end of segment s.
LEMMA Appended ==
    ASSUME WALInv, NEW s \in Seqs, NEW c \in Content,
           disk' = [disk EXCEPT ![s] = Append(disk[s], c)], UNCHANGED <<exists, snap>>
    PROVE  /\ disk' \in [Seqs -> Seq(Content)]
           /\ \A g \in Seqs : g # s => disk'[g] = disk[g]
           /\ Len(disk'[s]) = Len(disk[s]) + 1 /\ DOMAIN disk'[s] = 1..(Len(disk[s]) + 1)
           /\ \A i \in 1..Len(disk[s]) : disk'[s][i] = disk[s][i]
           /\ disk'[s][Len(disk[s]) + 1] = c
           /\ Recovered \subseteq Recovered'
           /\ Recovered' \subseteq Recovered \cup ({c} \ {Torn})
           /\ \A r : InSegment(r) => InSegment(r)'
           /\ s \in exists => InSegment(c)'
<1> DEFINE L == Len(disk[s])
<1>1. disk \in [Seqs -> Seq(Content)] /\ disk[s] \in Seq(Content) /\ L \in Nat
        /\ DOMAIN disk[s] = 1..L
  BY Facts DEF WALInv, TypeOK
<1>2. disk'[s] = Append(disk[s], c) /\ \A g \in Seqs : g # s => disk'[g] = disk[g]
  BY <1>1
<1>3. /\ disk'[s] \in Seq(Content) /\ Len(disk'[s]) = L + 1
      /\ \A i \in 1..L : disk'[s][i] = disk[s][i]
      /\ disk'[s][L + 1] = c
  BY <1>1, <1>2, AppendProperties
<1>4. disk' \in [Seqs -> Seq(Content)] /\ DOMAIN disk'[s] = 1..(L + 1)
  BY <1>1, <1>2, <1>3, LenProperties
<1> HIDE DEF L
<1>5. \A i \in 1..(L + 1) : (i \in 1..L /\ 1..i \subseteq 1..L) \/ i = L + 1
  BY <1>1
<1>6. \A i \in 1..L : i \in 1..(L + 1)
  BY <1>1
<1>7. ASSUME NEW g \in exists, g # s
      PROVE  disk'[g] = disk[g] /\ Readable(g)' = Readable(g)
  <2>1. disk'[g] = disk[g]
    BY <1>2, <1>7, Facts
  <2> QED BY <2>1 DEF Readable
<1>8. Readable(s) \subseteq Readable(s)'
  <2> SUFFICES ASSUME NEW i \in DOMAIN disk[s], \A h \in 1..i : disk[s][h] # Torn
               PROVE  disk[s][i] \in Readable(s)'
    BY DEF Readable
  <2>1. 1..i \subseteq 1..L /\ i \in 1..L
    BY <1>1
  <2>2. \A h \in 1..i : disk'[s][h] # Torn
    BY <1>3, <2>1
  <2>3. i \in DOMAIN disk'[s] /\ disk'[s][i] = disk[s][i]
    BY <1>3, <1>4, <1>6, <2>1
  <2> QED BY <2>2, <2>3 DEF Readable
<1>9. Readable(s)' \subseteq Readable(s) \cup ({c} \ {Torn})
  <2> SUFFICES ASSUME NEW i \in DOMAIN disk'[s], \A h \in 1..i : disk'[s][h] # Torn
               PROVE  disk'[s][i] \in Readable(s) \cup ({c} \ {Torn})
    BY DEF Readable
  <2>1. CASE i \in 1..L /\ 1..i \subseteq 1..L
    <3>1. \A h \in 1..i : disk[s][h] # Torn
      BY <1>3, <2>1
    <3>2. disk'[s][i] = disk[s][i] /\ i \in DOMAIN disk[s]
      BY <1>1, <1>3, <2>1
    <3> QED BY <3>1, <3>2 DEF Readable
  <2>2. CASE i = L + 1
    <3>1. i \in 1..i
      BY <1>1, <2>2
    <3> QED BY <1>3, <2>2, <3>1
  <2> QED BY <1>4, <1>5, <2>1, <2>2
<1>10. Recovered \subseteq Recovered'
  <2> SUFFICES ASSUME NEW r \in Recovered PROVE r \in Recovered'
    OBVIOUS
  <2>1. CASE r \in snap.set
    BY <2>1 DEF Recovered
  <2>2. CASE \E g \in exists : g > snap.seq /\ r \in Readable(g)
    <3>1. \E g \in exists : g > snap.seq /\ r \in Readable(g)'
      BY <1>7, <1>8, <2>2
    <3> QED BY <3>1 DEF Recovered
  <2> QED BY <2>1, <2>2, RecoveredIs
<1>11. Recovered' \subseteq Recovered \cup ({c} \ {Torn})
  <2> SUFFICES ASSUME NEW r \in Recovered', r \notin {c} \ {Torn} PROVE r \in Recovered
    OBVIOUS
  <2>1. r \in snap.set \/ \E g \in exists : g > snap.seq /\ r \in Readable(g)'
    BY DEF Recovered
  <2> QED BY <1>7, <1>9, <2>1, RecoveredIs
<1>12. ASSUME NEW r, InSegment(r) PROVE InSegment(r)'
  <2>1. PICK g \in exists : \E i \in DOMAIN disk[g] : disk[g][i] = r
    BY <1>12 DEF InSegment
  <2>2. \E i \in DOMAIN disk'[g] : disk'[g][i] = r
    <3>1. CASE g = s
      BY <1>1, <1>3, <1>4, <1>6, <2>1, <3>1
    <3>2. CASE g # s
      BY <1>7, <2>1, <3>2
    <3> QED BY <3>1, <3>2
  <2> QED BY <2>2 DEF InSegment
<1>13. s \in exists => InSegment(c)'
  <2>1. L + 1 \in DOMAIN disk'[s] /\ disk'[s][L + 1] = c
    BY <1>1, <1>3, <1>4
  <2> QED BY <2>1 DEF InSegment
<1> QED BY <1>2, <1>3, <1>4, <1>10, <1>11, <1>12, <1>13 DEF L

LEMMA WholeFinite ==
    ASSUME WALInv, NEW g \in Seqs
    PROVE  /\ IsFiniteSet(Whole(g)) /\ Cardinality(Whole(g)) \in Nat
           /\ Cardinality(Whole(g)) <= Len(disk[g])
<1>1. Whole(g) \subseteq 1..Len(disk[g]) /\ Len(disk[g]) \in Nat
  BY Facts DEF Whole
<1>2. IsFiniteSet(1..Len(disk[g])) /\ Cardinality(1..Len(disk[g])) = Len(disk[g])
  <2>1. IsFiniteSet(1..Len(disk[g]))
    BY <1>1, FS_Interval
  <2>2. Cardinality(1..Len(disk[g])) = IF 1 > Len(disk[g]) THEN 0 ELSE Len(disk[g]) - 1 + 1
    BY <1>1, FS_Interval, SMTT(30)
  <2> QED BY <1>1, <2>1, <2>2
<1> QED BY <1>1, <1>2, FS_Subset, FS_CardinalityType

-----------------------------------------------------------------------------
(* The frames of a step *)

\* A call that returns an error.
LEMMA RefuseFrame ==
    ASSUME WALInv, file # "nil", file' # "nil", Refuse,
           TypeOK', Segments', SegmentBounded', Counted', Placed',
           Recovered' = Recovered, \A r : InSegment(r) => InSegment(r)', UNCHANGED snap
    PROVE  WALInv'
<1>1. /\ pc' = "idle" /\ todo' = {} /\ mine' = {} /\ refused' = refused \cup mine
      /\ UNCHANGED <<encoded, index, acked, safe, dropped>>
  BY DEF Refuse
<1>2. Calling' /\ Room'
  BY <1>1 DEF WALInv, Calling, Room
<1>3. Found'
  BY <1>1 DEF WALInv, Found
<1> QED BY <1>2, <1>3 DEF WALInv

\* A process that ends.
LEMMA DownFrame ==
    ASSUME WALInv, Down, UNCHANGED exists, TypeOK', SegmentBounded', Placed',
           \A g \in Seqs \ exists : disk'[g] = << >>,
           \A g \in Seqs : synced'[g] <= Len(disk'[g]),
           \A g, h \in exists : g < h => synced'[g] = Len(disk'[g])
    PROVE  WALInv'
<1>1. /\ file' = "nil" /\ pc' = "idle" /\ todo' = {} /\ mine' = {}
      /\ UNCHANGED <<encoded, acked, refused, safe, dropped>>
  BY DEF Down, history
<1>2. Calling' /\ Room' /\ Counted' /\ Found'
  BY <1>1 DEF WALInv, Calling, Room, Counted, Found
<1>3. Segments'
  BY <1>1 DEF Segments
<1> QED BY <1>2, <1>3 DEF WALInv

-----------------------------------------------------------------------------
(* The steps *)

LEMMA OpenStep ==
    ASSUME WALInv, Open
    PROVE  WALInv' /\ Recovered' = Recovered
<1>0. PICK s : s = Max(exists \cup {1})
  OBVIOUS
<1>1. /\ file = "nil" /\ seq' = s /\ exists' = exists \cup {s}
      /\ file' = "open" /\ size' = Len(disk[s]) /\ index' = Recovered
      /\ UNCHANGED <<maxSize, disk, synced, snap, callVars, history>>
  BY <1>0 DEF Open
<1>2. s \in exists \cup {1} /\ \A g \in exists \cup {1} : s >= g
  <2>1. MaxSeq \in Nat /\ \A g \in exists \cup {1} : g \in 0..MaxSeq
    BY Facts DEF Seqs
  <2>2. exists \cup {1} \in SUBSET (0..MaxSeq)
    BY <2>1
  <2> QED BY <1>0, <2>1, <2>2, MaxIn
<1>3. s \in Seqs /\ \A g \in exists : g <= s /\ g \in Nat
  <2>1. 1 \in Seqs
    BY Facts DEF Seqs
  <2> QED BY <1>2, <2>1, Facts
<1>4. s \notin exists => disk[s] = << >> /\ exists = {}
  <2>1. s \notin exists => \A g \in exists : g <= 1 /\ g # 1 /\ g >= 1
    BY <1>2, <1>3, Facts DEF Seqs
  <2>2. \A g \in exists : ~(g <= 1 /\ g # 1 /\ g >= 1)
    BY <1>3
  <2> QED BY <1>3, <2>1, <2>2 DEF WALInv, Segments
<1>5. Recovered' = Recovered /\ \A r : InSegment(r)' <=> InSegment(r)
  BY <1>1, <1>4, NewSegment
<1>6. Recovered \subseteq Records
  <2>1. \A g \in exists : Readable(g) \subseteq Records
    <3>1. \A g \in Seqs : \A i \in DOMAIN disk[g] : disk[g][i] \in Content
      BY Facts, ElementOfSeq
    <3>2. ASSUME NEW g \in exists, NEW i \in DOMAIN disk[g], \A h \in 1..i : disk[g][h] # Torn
          PROVE  disk[g][i] \in Records
      <4>1. g \in Seqs /\ i \in 1..i
        BY Facts
      <4> QED BY <3>1, <3>2, <4>1 DEF Content
    <3> QED BY <3>2 DEF Readable
  <2>2. snap.set \subseteq Records
    BY DEF WALInv, TypeOK
  <2> QED BY <2>1, <2>2 DEF Recovered
<1>7. TypeOK'
  <2>1. s \in 0..MaxSeq /\ Len(disk[s]) \in Nat
    BY <1>3, Facts DEF Seqs
  <2> QED BY <1>1, <1>3, <1>6, <2>1 DEF WALInv, TypeOK, callVars, history
<1>8. Calling' /\ Room'
  <2>1. pc = "idle" /\ todo' = todo /\ mine' = mine /\ pc' = pc /\ encoded' = encoded
          /\ acked' = acked /\ refused' = refused
    BY <1>1 DEF WALInv, Calling, callVars, history
  <2> QED BY <1>1, <2>1 DEF WALInv, Calling, Room
<1>9. Segments'
  <2>1. \A g \in exists' : g <= s
    BY <1>1, <1>2, <1>3
  <2>2. \A g, h \in exists' : g < h => synced[g] = Len(disk[g])
    <3>1. CASE s \in exists
      <4>1. exists' = exists
        BY <1>1, <3>1
      <4> QED BY <4>1 DEF WALInv, Segments
    <3>2. CASE s \notin exists
      <4>1. \A g, h \in exists' : g = h /\ g \in Nat
        BY <1>1, <1>3, <1>4, <3>2, Facts
      <4> QED BY <4>1
    <3> QED BY <3>1, <3>2
  <2> QED BY <1>1, <1>3, <2>1, <2>2 DEF WALInv, Segments
<1>10. SegmentBounded' /\ Counted'
  <2>1. Cardinality(Whole(s)) <= Len(disk[s])
    BY <1>3, WholeFinite
  <2>2. Whole(s)' = Whole(s)
    BY <1>1 DEF Whole
  <2>3. seq' = s
    BY <1>1
  <2>4. Counted'
    BY <1>1, <2>1, <2>2 DEF Counted, Whole
  <2> QED BY <1>1, <2>4 DEF WALInv, SegmentBounded
<1>11. Placed'
  <2>1. disk[s] # << >> => s \in exists
    BY <1>4
  <2>2. \A g \in exists' : g \in exists \/ DOMAIN disk[g] = {}
    BY <1>1, <2>1
  <2> QED BY <1>1, <2>2 DEF WALInv, Placed, history
<1>12. Found'
  <2>1. mine = {} /\ mine' = mine /\ snap' = snap
    BY <1>1 DEF WALInv, Calling, callVars
  <2>2. \A r \in Recovered : r \in snap.set \/ InSegment(r)
    BY DEF Recovered, Readable, InSegment
  <2> QED BY <1>1, <1>5, <2>1, <2>2 DEF Found
<1> QED BY <1>5, <1>7, <1>8, <1>9, <1>10, <1>11, <1>12 DEF WALInv

LEMMA BeginStep ==
    ASSUME WALInv, NEW n \in 1..MaxBatch, Begin(n)
    PROVE  WALInv' /\ Recovered' = Recovered
<1> DEFINE M == (encoded + 1)..(encoded + n)
<1>1. /\ file # "nil" /\ pc = "idle" /\ pc' = "append"
      /\ encoded + n <= MaxRecords /\ seq + n <= MaxSeq
      /\ mine' = M /\ todo' = M /\ encoded' = encoded + n
      /\ UNCHANGED <<fileVars, diskVars, snap, index, history>>
  BY DEF Begin
<1>2. n \in Nat /\ n >= 1 /\ encoded \in Nat /\ MaxRecords \in Nat /\ MaxSeq \in Nat /\ seq \in Nat
  BY Facts
<1>3. M \subseteq 1..(encoded + n) /\ M \subseteq Records /\ M # {} /\ M \cap 1..encoded = {}
        /\ 1..encoded \subseteq 1..(encoded + n)
  <2>1. \A i \in M : i \in 1..(encoded + n) /\ i \in 1..MaxRecords /\ i \notin 1..encoded
    BY <1>1, <1>2
  <2>2. encoded + 1 \in M
    BY <1>2
  <2>3. \A i \in 1..encoded : i \in 1..(encoded + n)
    BY <1>2
  <2> HIDE DEF M
  <2> QED BY <2>1, <2>2, <2>3 DEF Records
<1>4. Cardinality(M) = n
  <2>1. Cardinality(M) = IF encoded + 1 > encoded + n THEN 0 ELSE (encoded + n) - (encoded + 1) + 1
    BY <1>2, FS_Interval
  <2> QED BY <1>2, <2>1
<1>5. encoded + n \in 0..MaxRecords
  BY <1>1, <1>2
<1> HIDE DEF M
<1>6. TypeOK'
  BY <1>1, <1>3, <1>5 DEF WALInv, TypeOK, fileVars, diskVars, history
<1>7. Calling'
  BY <1>1, <1>3 DEF WALInv, Calling, fileVars, history
<1>8. Room'
  <2>1. seq' + Cardinality(todo') = seq + n
    BY <1>1, <1>4 DEF fileVars
  <2>2. seq + n <= MaxSeq /\ seq + n <= MaxSeq + 1
    BY <1>1, <1>2
  <2> QED BY <2>1, <2>2 DEF Room
<1>9. Segments' /\ SegmentBounded' /\ Counted' /\ Placed'
  BY <1>1 DEF WALInv, Segments, SegmentBounded, Counted, Whole, Placed, fileVars, diskVars, history
<1>10. Recovered' = Recovered /\ \A r : InSegment(r)' <=> InSegment(r)
  BY <1>1, SameLog DEF diskVars
<1>11. Found'
  <2>1. mine \ todo = {} /\ mine' \ todo' = {}
    BY <1>1 DEF WALInv, Calling
  <2>2. UNCHANGED <<file, snap, index, dropped, refused>>
    BY <1>1 DEF fileVars, history
  <2> QED BY <1>10, <2>1, <2>2 DEF WALInv, Found
<1> QED BY <1>6, <1>7, <1>8, <1>9, <1>10, <1>11 DEF WALInv

\* The next segment is new.
LEMMA NextSegment ==
    ASSUME WALInv, pc = "append", Full
    PROVE  /\ seq \in Seqs /\ seq + 1 \in Seqs /\ seq + 1 \notin exists
           /\ disk[seq + 1] = << >>
           /\ seq + Cardinality(todo) <= MaxSeq
           /\ \A g \in exists : g <= seq
<1>1. file # "nil" /\ todo # {}
  BY DEF WALInv, Calling
<1>2. seq \in Seqs /\ \A g \in exists : g <= seq
  BY <1>1 DEF WALInv, Segments
<1>3. seq + Cardinality(todo) <= MaxSeq
  BY DEF WALInv, Room
<1>4. seq + 1 <= MaxSeq
  <2> DEFINE n == Cardinality(todo)
  <2>1. n \in Nat /\ n >= 1 /\ seq \in Nat /\ MaxSeq \in Nat /\ seq + n <= MaxSeq
    BY <1>1, <1>3, NextRecord, Facts
  <2> HIDE DEF n
  <2> QED BY <2>1
<1>5. seq + 1 \in Seqs /\ seq + 1 \notin exists
  BY <1>2, <1>4, Facts DEF Seqs
<1> QED BY <1>2, <1>3, <1>5 DEF WALInv, Segments

\* After a Sync every segment is on the disk.
LEMMA FlushedAll ==
    ASSUME WALInv, file = "open"
    PROVE  /\ Flushed(seq) \in [Seqs -> Nat]
           /\ \A g \in Seqs : Flushed(seq)[g] <= Len(disk[g]) /\ synced[g] <= Flushed(seq)[g]
           /\ \A g \in exists : Flushed(seq)[g] = Len(disk[g])
<1>1. seq \in exists /\ seq \in Seqs /\ \A g \in exists : g < seq \/ g = seq
  <2>1. seq \in exists /\ \A g \in exists : g <= seq /\ g \in Nat /\ seq \in Nat
    BY Facts DEF WALInv, Segments
  <2> QED BY <2>1, Facts
<1>2. synced \in [Seqs -> Nat]
  BY DEF WALInv, TypeOK
<1>3. \A g \in Seqs : Flushed(seq)[g] = IF g = seq THEN Len(disk[g]) ELSE synced[g]
  BY <1>1, <1>2 DEF Flushed
<1>4. Flushed(seq) \in [Seqs -> Nat]
  BY <1>1, <1>2, Facts DEF Flushed
<1>5. \A g \in exists : g < seq => synced[g] = Len(disk[g])
  BY <1>1 DEF WALInv, Segments
<1>6. \A g \in Seqs : Flushed(seq)[g] <= Len(disk[g]) /\ synced[g] <= Flushed(seq)[g]
  BY <1>3, Facts
<1> QED BY <1>1, <1>3, <1>4, <1>5, <1>6, Facts

\* What is in order between the segments stays so when all of them are synced.
LEMMA FlushedSegments ==
    ASSUME WALInv, file = "open", synced' = Flushed(seq), UNCHANGED disk,
           exists' = exists \/ exists' = exists \cup {seq + 1},
           (seq + 1 \in Seqs /\ disk[seq + 1] = << >>) \/ exists' = exists,
           UNCHANGED safe
    PROVE  /\ \A g \in Seqs \ exists' : disk'[g] = << >>
           /\ \A g \in Seqs : synced'[g] <= Len(disk'[g])
           /\ \A g, h \in exists' : g < h => synced'[g] = Len(disk'[g])
           /\ Placed'
<1>1. \A g \in Seqs \ exists' : disk'[g] = << >>
  BY DEF WALInv, Segments
<1>2. \A g \in exists' : synced'[g] = Len(disk'[g])
  <2>1. ASSUME exists' # exists PROVE synced'[seq + 1] = Len(disk[seq + 1])
    <3>1. Len(<< >>) = 0
      OBVIOUS
    <3>2. synced'[seq + 1] <= 0 /\ synced'[seq + 1] \in Nat
      BY <2>1, <3>1, FlushedAll
    <3>3. \A n \in Nat : n <= 0 => n = 0
      OBVIOUS
    <3> QED BY <2>1, <3>1, <3>2, <3>3
  <2> QED BY <2>1, FlushedAll
<1>3. Placed'
  <2> SUFFICES ASSUME NEW r \in safe, NEW g \in exists', NEW i \in DOMAIN disk[g]
               PROVE  i <= synced'[g]
    BY DEF Placed
  <2>1. g \in Seqs
    BY Facts
  <2>2. i \in 1..Len(disk[g]) /\ Len(disk[g]) \in Nat
    BY <2>1, Facts
  <2> QED BY <1>2, <2>2
<1>4. \A g \in Seqs : synced'[g] <= Len(disk'[g])
  BY FlushedAll
<1> QED BY <1>1, <1>2, <1>3, <1>4

LEMMA RotateStep ==
    ASSUME WALInv, Rotate
    PROVE  WALInv' /\ Recovered' = Recovered
<1>1. /\ pc = "append" /\ Full /\ file = "open" /\ synced' = Flushed(seq)
      /\ seq' = seq + 1 /\ exists' = exists \cup {seq + 1} /\ size' = Len(disk[seq + 1])
      /\ UNCHANGED <<file, maxSize, disk, snap, callVars, index, history>>
  BY DEF Rotate
<1>2. /\ seq \in Seqs /\ seq + 1 \in Seqs /\ seq + 1 \notin exists
      /\ disk[seq + 1] = << >> /\ seq + Cardinality(todo) <= MaxSeq
      /\ \A g \in exists : g <= seq
  BY <1>1, NextSegment
<1>3. size' = 0
  BY <1>1, <1>2
<1>4. Recovered' = Recovered /\ \A r : InSegment(r)' <=> InSegment(r)
  BY <1>1, <1>2, NewSegment
<1>5. TypeOK'
  <2>1. seq + 1 \in 0..MaxSeq
    BY <1>2, Facts DEF Seqs
  <2> QED BY <1>1, <1>2, <1>3, <2>1, FlushedAll, SMTT(30) DEF WALInv, TypeOK, callVars, history
<1>6. Calling'
  BY <1>1 DEF WALInv, Calling, callVars, history
<1>7. /\ \A g \in Seqs \ exists' : disk'[g] = << >>
      /\ \A g \in Seqs : synced'[g] <= Len(disk'[g])
      /\ \A g, h \in exists' : g < h => synced'[g] = Len(disk'[g])
      /\ Placed'
  BY <1>1, <1>2, FlushedSegments DEF history
<1>8. Segments'
  <2>1. \A g \in exists' : g <= seq + 1
    BY <1>1, <1>2, Facts
  <2> QED BY <1>1, <1>2, <1>7, <2>1 DEF Segments
<1>9. Room'
  <2>1. ~Full'
    BY <1>1, <1>3, Facts DEF Full
  <2> DEFINE n == Cardinality(todo)
  <2>2. n \in Nat /\ seq \in Nat /\ MaxSeq \in Nat
    BY <1>1, NextRecord, Facts DEF WALInv, Calling
  <2>3. seq' + Cardinality(todo') = seq + 1 + n
    BY <1>1 DEF callVars
  <2>4. seq + n <= MaxSeq
    BY <1>2
  <2> HIDE DEF n
  <2>5. seq + 1 + n <= MaxSeq + 1
    BY <2>2, <2>4
  <2> QED BY <2>1, <2>3, <2>5 DEF Room
<1>10. SegmentBounded' /\ Counted'
  <2>1. Whole(seq + 1)  = {}
    BY <1>2 DEF Whole
  <2>2. Counted'
    BY <1>1, <1>3, <2>1, FS_EmptySet DEF Counted, Whole
  <2> QED BY <1>1, <2>2 DEF WALInv, SegmentBounded
<1>11. Found'
  BY <1>1, <1>4 DEF WALInv, Found, callVars, history
<1> QED BY <1>4, <1>5, <1>6, <1>7, <1>8, <1>9, <1>10, <1>11 DEF WALInv

LEMMA RotateSyncFailsStep ==
    ASSUME WALInv, RotateSyncFails
    PROVE  WALInv' /\ Recovered' = Recovered
<1>1. /\ pc = "append" /\ Refuse /\ UNCHANGED <<fileVars, diskVars, snap>>
      /\ file # "nil"
  BY DEF RotateSyncFails, WALInv, Calling
<1>2. Recovered' = Recovered /\ \A r : InSegment(r)' <=> InSegment(r)
  BY <1>1, SameLog DEF diskVars
<1>3. TypeOK'
  BY <1>1 DEF WALInv, TypeOK, Refuse, fileVars, diskVars
<1>4. Segments' /\ SegmentBounded' /\ Counted' /\ Placed'
  BY <1>1 DEF WALInv, Segments, SegmentBounded, Counted, Whole, Placed, Refuse, fileVars, diskVars
<1> QED BY <1>1, <1>2, <1>3, <1>4, RefuseFrame DEF fileVars

LEMMA RotateCloseFailsStep ==
    ASSUME WALInv, RotateCloseFails
    PROVE  WALInv' /\ Recovered' = Recovered
<1>1. /\ pc = "append" /\ file = "open" /\ Refuse /\ file' = "stale" /\ synced' = Flushed(seq)
      /\ UNCHANGED <<seq, size, maxSize, disk, exists, snap>>
  BY DEF RotateCloseFails
<1>2. UNCHANGED safe
  BY <1>1 DEF Refuse
<1>3. Recovered' = Recovered /\ \A r : InSegment(r)' <=> InSegment(r)
  BY <1>1, SameLog
<1>4. TypeOK'
  BY <1>1, FlushedAll DEF WALInv, TypeOK, Refuse
<1>5. /\ \A g \in Seqs \ exists' : disk'[g] = << >>
      /\ \A g \in Seqs : synced'[g] <= Len(disk'[g])
      /\ \A g, h \in exists' : g < h => synced'[g] = Len(disk'[g])
      /\ Placed'
  BY <1>1, <1>2, FlushedSegments
<1>6. Segments' /\ SegmentBounded' /\ Counted'
  BY <1>1, <1>5 DEF WALInv, Segments, SegmentBounded, Counted
<1> QED BY <1>1, <1>3, <1>4, <1>5, <1>6, RefuseFrame

LEMMA RotateOpenFailsStep ==
    ASSUME WALInv, RotateOpenFails
    PROVE  WALInv' /\ Recovered' = Recovered
<1>1. /\ pc = "append" /\ Full /\ file = "open" /\ Refuse /\ file' = "stale"
      /\ synced' = Flushed(seq) /\ seq' = seq + 1
      /\ exists' = exists \/ exists' = exists \cup {seq + 1}
      /\ UNCHANGED <<size, maxSize, disk, snap>>
  BY DEF RotateOpenFails
<1>2. /\ seq \in Seqs /\ seq + 1 \in Seqs /\ disk[seq + 1] = << >>
      /\ \A g \in exists : g <= seq
  BY <1>1, NextSegment
<1>3. UNCHANGED safe
  BY <1>1 DEF Refuse
<1>4. Recovered' = Recovered /\ \A r : InSegment(r)' <=> InSegment(r)
  BY <1>1, <1>2, SameLog, NewSegment
<1>5. TypeOK'
  <2>1. seq + 1 \in 0..MaxSeq
    BY <1>2, Facts DEF Seqs
  <2>2. exists' \subseteq Seqs
    BY <1>1, <1>2, Facts
  <2> QED BY <1>1, <2>1, <2>2, FlushedAll DEF WALInv, TypeOK, Refuse
<1>6. /\ \A g \in Seqs \ exists' : disk'[g] = << >>
      /\ \A g \in Seqs : synced'[g] <= Len(disk'[g])
      /\ \A g, h \in exists' : g < h => synced'[g] = Len(disk'[g])
      /\ Placed'
  BY <1>1, <1>2, <1>3, FlushedSegments
<1>7. Segments'
  <2>1. \A g \in exists' : g <= seq + 1
    BY <1>1, <1>2, Facts
  <2> QED BY <1>1, <1>2, <1>6, <2>1 DEF Segments
<1>8. SegmentBounded' /\ Counted'
  BY <1>1 DEF WALInv, SegmentBounded, Counted
<1> QED BY <1>1, <1>4, <1>5, <1>6, <1>7, <1>8, RefuseFrame

\* What an append leaves of the segments, synced or not.
LEMMA AppendedSegments ==
    ASSUME WALInv, file = "open", NEW c \in Content, c \notin safe,
           disk' = [disk EXCEPT ![seq] = Append(disk[seq], c)],
           UNCHANGED <<file, seq, maxSize, exists, synced, snap, safe>>
    PROVE  /\ Segments' /\ Placed'
           /\ \A g \in Seqs : g # seq => Whole(g)' = Whole(g)
           /\ Whole(seq)' = IF c = Torn THEN Whole(seq)
                            ELSE Whole(seq) \cup {Len(disk[seq]) + 1}
           /\ Len(disk[seq]) + 1 \notin Whole(seq)
<1>1. seq \in exists /\ seq \in Seqs /\ \A g \in exists : g <= seq
  BY Facts DEF WALInv, Segments
<1> DEFINE L == Len(disk[seq])
<1>2. L \in Nat /\ DOMAIN disk[seq] = 1..L
  BY <1>1, Facts
<1>3. /\ \A g \in Seqs : g # seq => disk'[g] = disk[g]
      /\ Len(disk'[seq]) = L + 1 /\ DOMAIN disk'[seq] = 1..(L + 1)
      /\ \A i \in 1..L : disk'[seq][i] = disk[seq][i]
      /\ disk'[seq][L + 1] = c
  BY <1>1, Appended
<1>4. seq' = seq
  OBVIOUS
<1> HIDE DEF L
<1>5. \A i \in 1..(L + 1) : i \in 1..L \/ i = L + 1
  BY <1>2
<1>6. Segments'
  <2>1. \A g \in Seqs : synced[g] <= Len(disk'[g])
    <3>1. \A g \in Seqs : g # seq => synced[g] <= Len(disk'[g])
      BY <1>3, Facts
    <3>2. synced[seq] <= L /\ synced[seq] \in Nat
      BY <1>1, Facts DEF L
    <3>3. synced[seq] <= L + 1
      BY <1>2, <3>2
    <3> QED BY <1>3, <3>1, <3>3
  <2>2. \A g, h \in exists : g < h => g # seq
    BY <1>1, Facts
  <2> QED BY <1>1, <1>3, <2>1, <2>2, Facts DEF WALInv, Segments
<1>7. Placed'
  <2> SUFFICES ASSUME NEW r \in safe, NEW g \in exists, NEW i \in DOMAIN disk'[g],
                      disk'[g][i] = r
               PROVE  i <= synced[g]
    BY DEF Placed
  <2>1. CASE g = seq
    <3>1. i \in 1..L /\ disk[g][i] = r
      BY <1>3, <1>5, <2>1
    <3> QED BY <1>2, <2>1, <3>1 DEF WALInv, Placed
  <2>2. CASE g # seq
    <3>1. disk'[g] = disk[g]
      BY <1>3, <2>2, Facts
    <3> QED BY <3>1 DEF WALInv, Placed
  <2> QED BY <2>1, <2>2
<1>8. \A g \in Seqs : g # seq => Whole(g)' = Whole(g)
  BY <1>3 DEF Whole
<1>9. L + 1 \notin 1..L /\ L + 1 \in 1..(L + 1) /\ \A i \in 1..L : i \in 1..(L + 1)
  BY <1>2
<1>10. Whole(seq)' = {i \in 1..(L + 1) : disk'[seq][i] # Torn}
  BY <1>3 DEF Whole
<1>11. Whole(seq) = {i \in 1..L : disk'[seq][i] # Torn}
  BY <1>2, <1>3 DEF Whole
<1>12. Whole(seq)' = IF c = Torn THEN Whole(seq) ELSE Whole(seq) \cup {L + 1}
  BY <1>3, <1>5, <1>9, <1>10, <1>11
<1> QED BY <1>6, <1>7, <1>8, <1>9, <1>11, <1>12 DEF L

LEMMA WriteStep ==
    ASSUME WALInv, Write
    PROVE  WALInv' /\ Recovered \subseteq Recovered'
<1>1. PICK c : c = Min(todo)
  OBVIOUS
<1>2. /\ pc = "append" /\ ~Full /\ file = "open"
      /\ disk' = [disk EXCEPT ![seq] = Append(disk[seq], c)]
      /\ size' = size + 1 /\ todo' = todo \ {c}
      /\ pc' = IF todo' = {} THEN "sync" ELSE "append"
      /\ UNCHANGED <<file, seq, maxSize, exists, synced, snap, mine, encoded, index, history>>
  BY <1>1 DEF Write
<1>3. todo # {} /\ todo \subseteq mine /\ mine \subseteq Records
  BY <1>2 DEF WALInv, Calling, TypeOK
<1>4. /\ c \in todo /\ c \in Records /\ c \in Content /\ c # Torn
      /\ Cardinality(todo) \in Nat /\ Cardinality(todo') = Cardinality(todo) - 1
  BY <1>1, <1>2, <1>3, NextRecord, Facts
<1>5. seq \in exists /\ seq \in Seqs
  BY <1>2, Facts DEF WALInv, Segments
<1>6. UNCHANGED <<acked, refused, safe, dropped>>
  BY <1>2 DEF history
<1>7. c \notin safe
  BY <1>3, <1>4 DEF WALInv, Calling, TypeOK
<1>8. /\ disk' \in [Seqs -> Seq(Content)]
      /\ Recovered \subseteq Recovered'
      /\ Recovered' \subseteq Recovered \cup {c}
      /\ \A r : InSegment(r) => InSegment(r)'
      /\ InSegment(c)'
  BY <1>2, <1>4, <1>5, Appended
<1>9. /\ Segments' /\ Placed'
      /\ \A g \in Seqs : g # seq => Whole(g)' = Whole(g)
      /\ Whole(seq)' = Whole(seq) \cup {Len(disk[seq]) + 1}
      /\ Len(disk[seq]) + 1 \notin Whole(seq)
  BY <1>2, <1>4, <1>6, <1>7, AppendedSegments
<1>10. TypeOK'
  <2>1. size + 1 \in Nat
    BY Facts
  <2> QED BY <1>2, <1>3, <1>6, <1>8, <2>1 DEF WALInv, TypeOK
<1>11. Calling'
  BY <1>2, <1>6 DEF WALInv, Calling
<1>12. Room'
  <2> DEFINE n == Cardinality(todo)
  <2>1. seq + n <= MaxSeq + 1 /\ seq \in Nat /\ MaxSeq \in Nat /\ n \in Nat
    BY <1>2, <1>4, Facts DEF WALInv, Room
  <2>2. seq' + Cardinality(todo') = seq + (n - 1)
    BY <1>2, <1>4
  <2> HIDE DEF n
  <2>3. seq + (n - 1) <= MaxSeq /\ seq + (n - 1) <= MaxSeq + 1
    BY <2>1
  <2> QED BY <2>2, <2>3 DEF Room
<1>13. Cardinality(Whole(seq)') = Cardinality(Whole(seq)) + 1
         /\ Cardinality(Whole(seq)) <= size /\ Cardinality(Whole(seq)) \in Nat
  <2>1. IsFiniteSet(Whole(seq)) /\ Cardinality(Whole(seq)) \in Nat
    BY <1>5, WholeFinite
  <2>2. Cardinality(Whole(seq) \cup {Len(disk[seq]) + 1}) = Cardinality(Whole(seq)) + 1
    BY <1>9, <2>1, FS_AddElement
  <2> QED BY <1>2, <1>9, <2>1, <2>2 DEF WALInv, Counted
<1>14. Cardinality(Whole(seq)') <= size + 1 /\ size + 1 <= maxSize
  <2> DEFINE n == Cardinality(Whole(seq))
  <2>1. n \in Nat /\ n <= size /\ size \in Nat
    BY <1>13, Facts
  <2>2. n + 1 <= size + 1
    <3> HIDE DEF n
    <3> QED BY <2>1
  <2>3. size + 1 <= maxSize
    BY <1>2, Facts DEF Full
  <2> QED BY <1>13, <2>2, <2>3
<1>15. SegmentBounded'
  <2>1. \A g \in Seqs : Cardinality(Whole(g)) <= maxSize
    BY DEF WALInv, SegmentBounded, Whole
  <2>2. Cardinality(Whole(seq)') <= maxSize
    <3> DEFINE n == Cardinality(Whole(seq)')
    <3>1. n \in Nat /\ n <= size + 1 /\ size + 1 <= maxSize /\ size \in Nat /\ maxSize \in Nat
      BY <1>13, <1>14, Facts
    <3> HIDE DEF n
    <3>2. n <= maxSize
      BY <3>1
    <3> QED BY <3>2 DEF n
  <2>3. \A g \in Seqs : Cardinality(Whole(g)') <= maxSize
    BY <1>2, <1>9, <2>1, <2>2
  <2> QED BY <1>2, <2>3 DEF SegmentBounded, Whole
<1>16. Counted'
  <2>1. Whole(seq)' = {i \in DOMAIN disk'[seq'] : disk'[seq'][i] # Torn}
    BY <1>2 DEF Whole
  <2> QED BY <1>2, <1>14, <2>1 DEF Counted, Whole
<1>17. Found'
  <2>1. mine \ todo' = (mine \ todo) \cup {c}
    BY <1>2, <1>3, <1>4
  <2>2. /\ \A r \in index : r \in snap.set \/ InSegment(r) \/ r \in dropped
        /\ \A r \in mine \ todo : InSegment(r)
        /\ Recovered \ index \subseteq refused \cup (mine \ todo)
    BY <1>2 DEF WALInv, Found
  <2> QED BY <1>2, <1>6, <1>8, <2>1, <2>2 DEF Found
<1> QED BY <1>8, <1>9, <1>10, <1>11, <1>12, <1>15, <1>16, <1>17 DEF WALInv

LEMMA WriteFailsStep ==
    ASSUME WALInv, WriteFails
    PROVE  WALInv' /\ Recovered \subseteq Recovered'
<1>1. /\ pc = "append" /\ Refuse /\ UNCHANGED <<fileVars, exists, synced, snap>>
      /\ file # "nil" /\ Torn \in Content
      /\ \/ UNCHANGED disk
         \/ file = "open" /\ disk' = [disk EXCEPT ![seq] = Append(disk[seq], Torn)]
  BY Facts DEF WriteFails, WALInv, Calling
<1>2. UNCHANGED <<file, seq, size, maxSize, safe>>
  BY <1>1 DEF Refuse, fileVars
<1>3. CASE UNCHANGED disk
  <2>1. Recovered' = Recovered /\ \A r : InSegment(r)' <=> InSegment(r)
    BY <1>1, <1>3, SameLog
  <2>2. TypeOK'
    BY <1>1, <1>2, <1>3 DEF WALInv, TypeOK, Refuse
  <2>3. Segments' /\ SegmentBounded' /\ Counted' /\ Placed'
    BY <1>1, <1>2, <1>3 DEF WALInv, Segments, SegmentBounded, Counted, Whole, Placed
  <2> QED BY <1>1, <1>2, <2>1, <2>2, <2>3, RefuseFrame
<1>4. CASE file = "open" /\ disk' = [disk EXCEPT ![seq] = Append(disk[seq], Torn)]
  <2>1. seq \in exists /\ seq \in Seqs
    BY <1>4, Facts DEF WALInv, Segments
  <2>2. /\ disk' \in [Seqs -> Seq(Content)] /\ Recovered' = Recovered
        /\ \A r : InSegment(r) => InSegment(r)'
    BY <1>1, <1>4, <2>1, Appended
  <2>3. Torn \notin safe
    BY Facts DEF WALInv, TypeOK
  <2>4. /\ Segments' /\ Placed'
        /\ \A g \in Seqs : g # seq => Whole(g)' = Whole(g)
        /\ Whole(seq)' = Whole(seq)
    BY <1>1, <1>2, <1>4, <2>3, AppendedSegments
  <2>5. TypeOK'
    BY <1>1, <1>2, <2>2 DEF WALInv, TypeOK, Refuse
  <2>6. \A g \in Seqs : Whole(g)' = Whole(g)
    BY <1>2, <2>4
  <2>7. SegmentBounded'
    BY <1>2, <2>6 DEF WALInv, SegmentBounded, Whole
  <2>8. Counted'
    BY <1>2, <2>1, <2>6 DEF WALInv, Counted, Whole
  <2> QED BY <1>1, <1>2, <2>2, <2>4, <2>5, <2>7, <2>8, RefuseFrame
<1> QED BY <1>1, <1>3, <1>4

LEMMA FinishStep ==
    ASSUME WALInv, Finish
    PROVE  WALInv' /\ Recovered' = Recovered
<1>1. /\ pc = "sync" /\ UNCHANGED <<synced, safe>>
      /\ index' = index \cup mine /\ acked' = acked \cup mine
      /\ pc' = "idle" /\ todo' = {} /\ mine' = {}
      /\ UNCHANGED <<fileVars, disk, exists, snap, encoded, refused, dropped>>
  BY DEF Finish, withDefaults
<1>2. todo = {} /\ file # "nil" /\ mine \subseteq Records
  BY <1>1 DEF WALInv, Calling, TypeOK
<1>3. Recovered' = Recovered /\ \A r : InSegment(r)' <=> InSegment(r)
  BY <1>1, SameLog
<1>4. TypeOK'
  BY <1>1, <1>2 DEF WALInv, TypeOK, fileVars
<1>5. Calling' /\ Room'
  BY <1>1 DEF WALInv, Calling, Room
<1>6. Segments' /\ SegmentBounded' /\ Counted' /\ Placed'
  BY <1>1 DEF WALInv, Segments, SegmentBounded, Counted, Whole, Placed, fileVars
<1>7. Found'
  BY <1>1, <1>2, <1>3 DEF WALInv, Found
<1> QED BY <1>3, <1>4, <1>5, <1>6, <1>7 DEF WALInv

LEMMA SyncStep ==
    ASSUME WALInv, Sync
    PROVE  WALInv' /\ Recovered' = Recovered
<1>1. /\ pc = "idle" /\ file = "open" /\ synced' = Flushed(seq)
      /\ safe' = safe \cup (acked \cap index)
      /\ UNCHANGED <<fileVars, disk, exists, snap, callVars, index, acked, refused, dropped>>
  BY DEF Sync
<1>2. Recovered' = Recovered /\ \A r : InSegment(r)' <=> InSegment(r)
  BY <1>1, SameLog
<1>3. TypeOK'
  BY <1>1, FlushedAll DEF WALInv, TypeOK, fileVars, callVars
<1>4. Calling' /\ Room' /\ SegmentBounded' /\ Counted'
  BY <1>1 DEF WALInv, Calling, Room, SegmentBounded, Counted, Whole, Full, fileVars, callVars
<1>5. Segments'
  BY <1>1, FlushedAll DEF WALInv, Segments, fileVars
<1>6. Placed'
  <2> SUFFICES ASSUME NEW g \in exists, NEW i \in DOMAIN disk[g] PROVE i <= synced'[g]
    BY <1>1 DEF Placed
  <2>1. i \in 1..Len(disk[g]) /\ Len(disk[g]) \in Nat
    BY Facts
  <2> QED BY <1>1, <2>1, FlushedAll
<1>7. Found'
  BY <1>1, <1>2 DEF WALInv, Found, fileVars, callVars
<1> QED BY <1>2, <1>3, <1>4, <1>5, <1>6, <1>7 DEF WALInv

\* A Compact either publishes the index or leaves what recovery finds alone.
LEMMA CompactStep ==
    ASSUME WALInv, Compact
    PROVE  WALInv' /\ safe \cap Recovered \subseteq Recovered'
<1>1. /\ file # "nil" /\ pc = "idle"
      /\ snap' = IF seq >= snap.seq
                 THEN [seq |-> seq, set |-> index, ok |-> TRUE, durable |-> FALSE] ELSE snap
      /\ exists' = {g \in exists : g >= seq}
      /\ disk' = [g \in Seqs |-> IF g \in exists' THEN disk[g] ELSE << >>]
      /\ synced' = [g \in Seqs |-> IF g \in exists' THEN synced[g] ELSE 0]
      /\ dropped' = dropped \cup Abandoned
      /\ UNCHANGED <<fileVars, callVars, index, acked, refused, safe>>
  BY DEF Compact
<1>2. seq \in Seqs /\ \A g \in exists : g <= seq /\ g \in Nat
  BY <1>1, Facts DEF WALInv, Segments
<1>3. exists' \subseteq exists /\ exists' \subseteq Seqs /\ \A g \in exists' : g = seq
  BY <1>1, <1>2, Facts
<1>4. UNCHANGED <<file, seq, size, maxSize, pc, todo, mine, encoded>>
  BY <1>1 DEF fileVars, callVars
<1>5. \A g \in Seqs : \/ disk'[g] = disk[g] /\ synced'[g] = synced[g]
                      \/ g \notin exists' /\ disk'[g] = << >> /\ synced'[g] = 0
  BY <1>1
<1>6. \A g \in exists' : disk'[g] = disk[g] /\ synced'[g] = synced[g]
  BY <1>1, <1>3
<1>7. \A g \in Seqs : \A i \in DOMAIN disk[g] : disk[g][i] \in Content
  BY Facts, ElementOfSeq
<1>8. Abandoned \subseteq Records
  <2>1. UNION {{disk[g][i] : i \in DOMAIN disk[g]} : g \in {h \in exists : h < seq}} \subseteq Content
    BY <1>7, Facts
  <2> QED BY <2>1 DEF Abandoned, Content
<1>9. TypeOK'
  <2>1. disk' \in [Seqs -> Seq(Content)]
    <3>1. << >> \in Seq(Content) /\ \A g \in Seqs : disk[g] \in Seq(Content)
      BY Facts
    <3> QED BY <1>1, <3>1
  <2>2. synced' \in [Seqs -> Nat]
    <3>1. \A g \in Seqs : synced[g] \in Nat
      BY Facts
    <3> QED BY <1>1, <3>1
  <2>3. snap' \in [seq : 0..MaxSeq, set : SUBSET Records, ok : BOOLEAN, durable : BOOLEAN]
    <3>1. seq \in 0..MaxSeq /\ index \in SUBSET Records
      BY DEF WALInv, TypeOK
    <3>2. snap \in [seq : 0..MaxSeq, set : SUBSET Records, ok : BOOLEAN, durable : BOOLEAN]
      BY DEF WALInv, TypeOK
    <3> QED BY <1>1, <3>1, <3>2
  <2> QED BY <1>1, <1>3, <1>4, <1>8, <2>1, <2>2, <2>3 DEF WALInv, TypeOK
<1>10. Calling' /\ Room'
  BY <1>1, <1>4 DEF WALInv, Calling, Room
<1>11. Segments'
  <2>1. \A g \in Seqs \ exists' : disk'[g] = << >>
    BY <1>1
  <2>2. \A g \in Seqs : synced'[g] <= Len(disk'[g])
    <3>1. Len(<< >>) = 0
      OBVIOUS
    <3> QED BY <1>5, <3>1, Facts
  <2>3. \A g, h \in exists' : ~(g < h)
    BY <1>3, <1>2, Facts
  <2>4. file = "open" => seq \in exists'
    BY <1>1, <1>2, Facts DEF WALInv, Segments
  <2> QED BY <1>2, <1>3, <1>4, <2>1, <2>2, <2>3, <2>4 DEF Segments
<1>12. SegmentBounded' /\ Counted'
  <2>1. ASSUME NEW g \in Seqs PROVE Cardinality(Whole(g)') <= maxSize
    <3>1. CASE disk'[g] = disk[g]
      <4>1. Whole(g)' = Whole(g)
        BY <3>1 DEF Whole
      <4> QED BY <4>1 DEF WALInv, SegmentBounded, Whole
    <3>2. CASE disk'[g] = << >>
      <4>1. Whole(g)' = {}
        BY <3>2 DEF Whole
      <4> QED BY <4>1, FS_EmptySet, Facts
    <3> QED BY <1>5, <3>1, <3>2
  <2>2. file = "open" => disk'[seq] = disk[seq]
    BY <1>1, <1>2, <1>6, Facts DEF WALInv, Segments
  <2>3. Counted'
    BY <1>4, <2>2 DEF WALInv, Counted, Whole
  <2> QED BY <1>4, <2>1, <2>3 DEF SegmentBounded, Whole
<1>13. Placed'
  BY <1>1, <1>3, <1>6 DEF WALInv, Placed
<1>14. mine \ todo = {} /\ Recovered \ index \subseteq refused
         /\ \A r \in index : r \in snap.set \/ InSegment(r) \/ r \in dropped
  BY <1>1 DEF WALInv, Calling, Found
<1>15. CASE seq >= snap.seq
  <2>1. snap'.seq = seq /\ snap'.set = index
    BY <1>1, <1>15
  <2>2. Recovered' = index
    <3>1. \A g \in exists' : ~(g > seq)
      BY <1>3, Facts
    <3> QED BY <2>1, <3>1 DEF Recovered
  <2>3. Found'
    BY <1>1, <1>4, <1>14, <2>1, <2>2 DEF Found
  <2>4. safe \cap Recovered \subseteq index
    BY <1>14 DEF WALInv, TypeOK, Calling
  <2> QED BY <1>9, <1>10, <1>11, <1>12, <1>13, <2>2, <2>3, <2>4 DEF WALInv
<1>16. CASE ~(seq >= snap.seq)
  <2>1. snap' = snap /\ snap.seq \in Nat /\ seq \in Nat
    BY <1>1, <1>16, Facts DEF WALInv, TypeOK
  <2>2. \A g \in exists : ~(g > snap.seq)
    BY <1>2, <1>16, <2>1
  <2>3. Recovered = snap.set /\ Recovered' = snap.set
    BY <1>3, <2>1, <2>2 DEF Recovered
  <2>4. ASSUME NEW r \in index, InSegment(r) PROVE InSegment(r)' \/ r \in dropped'
    <3>1. PICK g \in exists : \E i \in DOMAIN disk[g] : disk[g][i] = r
      BY <2>4 DEF InSegment
    <3>2. CASE g \in exists'
      BY <1>6, <3>1, <3>2 DEF InSegment
    <3>3. CASE g \notin exists'
      <4>1. g < seq
        BY <1>1, <1>2, <2>1, <3>3
      <4>2. r # Torn
        BY Facts DEF WALInv, TypeOK
      <4>3. r \in Abandoned
        BY <1>16, <3>1, <4>1, <4>2 DEF Abandoned
      <4> QED BY <1>1, <4>3
    <3> QED BY <3>2, <3>3
  <2>5. Found'
    <3>1. \A r \in index : r \in snap.set \/ InSegment(r)' \/ r \in dropped'
      BY <1>1, <1>14, <2>4
    <3> QED BY <1>1, <1>4, <1>14, <2>1, <2>3, <3>1 DEF Found
  <2> QED BY <1>9, <1>10, <1>11, <1>12, <1>13, <2>3, <2>5 DEF WALInv
<1> QED BY <1>15, <1>16

LEMMA CloseStep ==
    ASSUME WALInv, Close
    PROVE  WALInv' /\ Recovered' = Recovered
<1>1. /\ Down /\ UNCHANGED <<disk, exists, snap>>
      /\ \/ synced' = synced
         \/ file = "open" /\ synced' = Flushed(seq)
  BY DEF Close
<1>2. Recovered' = Recovered
  BY <1>1, SameLog
<1>3. synced' \in [Seqs -> Nat] /\ \A g \in Seqs : synced[g] <= synced'[g]
  BY <1>1, FlushedAll, Facts, SMTT(30) DEF WALInv, TypeOK
<1>4. UNCHANGED <<maxSize, encoded, acked, refused, safe, dropped>>
        /\ file' = "nil" /\ seq' = 0 /\ size' = 0 /\ pc' = "idle"
        /\ todo' = {} /\ mine' = {} /\ index' = {}
  BY <1>1 DEF Down, history
<1>5. TypeOK'
  BY <1>1, <1>3, <1>4, Facts DEF WALInv, TypeOK
<1>6. \A g \in Seqs : synced'[g] <= Len(disk[g])
  BY <1>1, FlushedAll, Facts
<1>7. \A g, h \in exists : g < h => synced'[g] = Len(disk[g])
  BY <1>1, FlushedAll DEF WALInv, Segments
<1>8. Placed'
  <2> SUFFICES ASSUME NEW r \in safe, NEW g \in exists, NEW i \in DOMAIN disk[g],
                      disk[g][i] = r
               PROVE  i <= synced'[g]
    BY <1>1, <1>4 DEF Placed
  <2>1. i <= synced[g] /\ g \in Seqs /\ i \in Nat
    BY Facts DEF WALInv, Placed
  <2>2. synced[g] <= synced'[g] /\ synced[g] \in Nat /\ synced'[g] \in Nat
    BY <1>3, <2>1, Facts
  <2> QED BY <2>1, <2>2
<1>9. SegmentBounded' /\ \A g \in Seqs \ exists : disk'[g] = << >>
  BY <1>1, <1>4 DEF WALInv, SegmentBounded, Segments
<1> QED BY <1>1, <1>2, <1>5, <1>6, <1>7, <1>8, <1>9, DownFrame

LEMMA KillStep ==
    ASSUME WALInv, Kill
    PROVE  WALInv' /\ Recovered' = Recovered
<1>1. Down /\ UNCHANGED <<disk, exists, synced, snap>>
  BY DEF Kill, diskVars
<1>2. Recovered' = Recovered
  BY <1>1, SameLog
<1>3. UNCHANGED <<maxSize, encoded, acked, refused, safe, dropped>>
        /\ file' = "nil" /\ seq' = 0 /\ size' = 0 /\ pc' = "idle"
        /\ todo' = {} /\ mine' = {} /\ index' = {}
  BY <1>1 DEF Down, history
<1>4. TypeOK'
  BY <1>1, <1>3, Facts DEF WALInv, TypeOK
<1>5. SegmentBounded' /\ Placed'
  BY <1>1, <1>3 DEF WALInv, SegmentBounded, Placed
<1>6. /\ \A g \in Seqs \ exists : disk'[g] = << >>
      /\ \A g \in Seqs : synced'[g] <= Len(disk'[g])
      /\ \A g, h \in exists : g < h => synced'[g] = Len(disk'[g])
  BY <1>1 DEF WALInv, Segments
<1> QED BY <1>1, <1>2, <1>4, <1>5, <1>6, DownFrame

\* Of a segment a loss of power leaves all that was synced, and nothing new.
LEMMA CutLeaves ==
    ASSUME WALInv, NEW g \in Seqs, NEW c \in Cut(g)
    PROVE  /\ c \in Seq(Content) /\ Len(c) \in Nat /\ DOMAIN c = 1..Len(c)
           /\ \A i \in DOMAIN c : i \in DOMAIN disk[g] /\ (c[i] = disk[g][i] \/ c[i] = Torn)
           /\ \A i \in 1..synced[g] : i \in DOMAIN c /\ c[i] = disk[g][i]
<1> DEFINE L == Len(disk[g])
<1>1. disk[g] \in Seq(Content) /\ L \in Nat /\ DOMAIN disk[g] = 1..L
        /\ synced[g] \in Nat /\ synced[g] <= L /\ Torn \in Content
  BY Facts
<1>2. PICK n \in synced[g]..L :
         \/ c = SubSeq(disk[g], 1, n)
         \/ n < L /\ c = Append(SubSeq(disk[g], 1, n), Torn)
  BY DEF Cut
<1>3. n \in Nat /\ synced[g] <= n /\ n <= L
  BY <1>1, <1>2
<1> DEFINE p == SubSeq(disk[g], 1, n)
<1>4. p \in Seq(Content) /\ Len(p) = n /\ \A i \in 1..n : p[i] = disk[g][i]
  <2>1. \A i \in 1..n : i \in 1..L
    BY <1>1, <1>3
  <2>2. \A i \in 1..n : disk[g][i] \in Content
    BY <1>1, <2>1, ElementOfSeq
  <2>3. /\ p \in Seq(Content)
        /\ Len(p) = IF 1 <= n THEN n - 1 + 1 ELSE 0
        /\ \A i \in 1..(n - 1 + 1) : p[i] = disk[g][1 + i - 1]
    BY <1>3, <2>2, SubSeqProperties
  <2>4. n - 1 + 1 = n /\ \A i \in 1..n : 1 + i - 1 = i
    BY <1>3
  <2>5. Len(p) = n
    BY <1>3, <2>3
  <2> QED BY <2>3, <2>4, <2>5
<1> HIDE DEF p, L
<1>5. DOMAIN p = 1..n
  BY <1>4, LenProperties
<1>6. \A i \in 1..synced[g] : i \in 1..n
  BY <1>1, <1>3
<1>7. CASE c = p
  <2>1. \A i \in 1..n : i \in 1..L
    BY <1>1, <1>3
  <2> QED BY <1>1, <1>3, <1>4, <1>5, <1>6, <1>7, <2>1
<1>8. CASE n < L /\ c = Append(p, Torn)
  <2>1. /\ c \in Seq(Content) /\ Len(c) = n + 1
        /\ \A i \in 1..n : c[i] = p[i]
        /\ c[n + 1] = Torn
    BY <1>1, <1>4, <1>8, AppendProperties
  <2>2. DOMAIN c = 1..(n + 1)
    BY <2>1, LenProperties
  <2>3. \A i \in 1..(n + 1) : i \in 1..L /\ (i \in 1..n \/ i = n + 1)
    BY <1>1, <1>3, <1>8
  <2>4. \A i \in 1..n : i \in 1..(n + 1)
    BY <1>3
  <2>5. n + 1 \in Nat
    BY <1>3
  <2> QED BY <1>1, <1>4, <1>6, <2>1, <2>2, <2>3, <2>4, <2>5
<1> QED BY <1>2, <1>7, <1>8 DEF p, L

LEMMA PowerLossStep ==
    ASSUME WALInv, PowerLoss
    PROVE  WALInv' /\ (safe \cap Recovered \subseteq Recovered' \/ ~snap'.ok)
<1>1. /\ Down /\ UNCHANGED exists
      /\ synced' = [g \in Seqs |-> Len(disk'[g])]
      /\ \/ snap' = [snap EXCEPT !.durable = TRUE]
         \/ snap' = [snap EXCEPT !.ok = FALSE]
  BY DEF PowerLoss
<1>2. \A g \in Seqs :
         \/ g \in exists /\ disk'[g] \in Cut(g)
         \/ disk'[g] = disk[g] /\ (g \in exists => ~(synced[g] < Len(disk[g])))
  <2> DEFINE U == {g \in exists : synced[g] < Len(disk[g])}
  <2>1. PICK d \in [U -> UNION {Cut(g) : g \in U}] :
           /\ \A g \in U : d[g] \in Cut(g)
           /\ disk' = [g \in Seqs |-> IF g \in U THEN d[g] ELSE disk[g]]
    BY DEF PowerLoss
  <2> QED BY <2>1
<1>3. disk' = [g \in Seqs |-> disk'[g]]
  BY DEF PowerLoss
<1>4. \A g \in Seqs : g \notin exists => disk[g] = << >> /\ synced[g] <= 0 /\ synced[g] \in Nat
  <2>1. Len(<< >>) = 0
    OBVIOUS
  <2>2. \A g \in Seqs : g \notin exists => disk[g] = << >>
    BY DEF WALInv, Segments
  <2> QED BY <2>1, <2>2, Facts
<1>5. ASSUME NEW g \in Seqs
      PROVE  /\ disk'[g] \in Seq(Content) /\ Len(disk'[g]) \in Nat
             /\ DOMAIN disk'[g] = 1..Len(disk'[g])
             /\ \A i \in DOMAIN disk'[g] :
                   i \in DOMAIN disk[g] /\ (disk'[g][i] = disk[g][i] \/ disk'[g][i] = Torn)
             /\ \A i \in 1..synced[g] : i \in DOMAIN disk'[g] /\ disk'[g][i] = disk[g][i]
  <2>1. CASE disk'[g] \in Cut(g)
    BY <2>1, CutLeaves
  <2>2. CASE disk'[g] = disk[g]
    <3>1. \A i \in 1..synced[g] : i \in 1..Len(disk[g])
      BY Facts
    <3> QED BY <2>2, <3>1, Facts
  <2> QED BY <1>2, <2>1, <2>2
<1>6. UNCHANGED <<maxSize, encoded, acked, refused, safe, dropped>>
        /\ file' = "nil" /\ seq' = 0 /\ size' = 0 /\ pc' = "idle"
        /\ todo' = {} /\ mine' = {} /\ index' = {}
  BY <1>1 DEF Down, history
<1>7. \A g \in Seqs : synced'[g] = Len(disk'[g])
  BY <1>1
<1>8. TypeOK'
  <2>1. disk' \in [Seqs -> Seq(Content)]
    <3>1. \A g \in Seqs : disk'[g] \in Seq(Content)
      BY <1>5
    <3> QED BY <1>3, <3>1
  <2>2. synced' \in [Seqs -> Nat]
    BY <1>1, <1>5
  <2>3. snap' \in [seq : 0..MaxSeq, set : SUBSET Records, ok : BOOLEAN, durable : BOOLEAN]
    <3>1. snap \in [seq : 0..MaxSeq, set : SUBSET Records, ok : BOOLEAN, durable : BOOLEAN]
      BY DEF WALInv, TypeOK
    <3> QED BY <1>1, <3>1
  <2> QED BY <1>1, <1>6, <2>1, <2>2, <2>3, Facts DEF WALInv, TypeOK
<1>9. SegmentBounded'
  <2>1. ASSUME NEW g \in Seqs PROVE Cardinality(Whole(g)') <= maxSize
    <3>1. Whole(g)' \subseteq Whole(g)
      BY <1>5 DEF Whole
    <3>2. IsFiniteSet(Whole(g)) /\ Cardinality(Whole(g)) \in Nat
            /\ Cardinality(Whole(g)) <= maxSize
      BY WholeFinite DEF WALInv, SegmentBounded, Whole
    <3> DEFINE m == Cardinality(Whole(g)')
               n == Cardinality(Whole(g))
    <3>3. m \in Nat /\ m <= n /\ n \in Nat /\ n <= maxSize /\ maxSize \in Nat
      BY <3>1, <3>2, FS_Subset, FS_CardinalityType, Facts
    <3> HIDE DEF m, n
    <3>4. m <= maxSize
      BY <3>3
    <3> QED BY <3>4 DEF m
  <2> QED BY <1>6, <2>1 DEF SegmentBounded, Whole
<1>10. Placed'
  <2> SUFFICES ASSUME NEW g \in exists, NEW i \in DOMAIN disk'[g] PROVE i <= synced'[g]
    BY <1>1 DEF Placed
  <2>1. i \in 1..Len(disk'[g]) /\ Len(disk'[g]) \in Nat /\ synced'[g] = Len(disk'[g])
    BY <1>5, <1>7, Facts
  <2> QED BY <2>1
<1>11. /\ \A g \in Seqs \ exists : disk'[g] = << >>
       /\ \A g \in Seqs : synced'[g] <= Len(disk'[g])
       /\ \A g, h \in exists : g < h => synced'[g] = Len(disk'[g])
  <2>1. \A g \in Seqs \ exists : disk'[g] = << >>
    BY <1>2, <1>4
  <2> QED BY <1>5, <1>7, <2>1, Facts
<1>12. WALInv'
  BY <1>1, <1>8, <1>9, <1>10, <1>11, DownFrame
<1>13. CASE snap' = [snap EXCEPT !.durable = TRUE]
  <2>1. snap'.seq = snap.seq /\ snap'.set = snap.set
    BY <1>13 DEF WALInv, TypeOK
  <2>2. ASSUME NEW r \in safe, r \in Recovered PROVE r \in Recovered'
    <3>1. CASE r \in snap.set
      BY <2>1, <3>1 DEF Recovered
    <3>2. ASSUME NEW g \in exists, g > snap.seq, r \in Readable(g) PROVE r \in Readable(g)'
      <4>1. PICK i \in DOMAIN disk[g] : disk[g][i] = r /\ \A h \in 1..i : disk[g][h] # Torn
        BY <3>2 DEF Readable
      <4>2. g \in Seqs /\ i \in Nat /\ i <= synced[g] /\ synced[g] \in Nat /\ i >= 1
        BY <4>1, Facts DEF WALInv, Placed
      <4>3. i \in 1..synced[g] /\ \A h \in 1..i : h \in 1..synced[g]
        BY <4>2
      <4>4. i \in DOMAIN disk'[g] /\ disk'[g][i] = r /\ \A h \in 1..i : disk'[g][h] # Torn
        BY <1>5, <4>1, <4>2, <4>3
      <4> QED BY <4>4 DEF Readable
    <3> QED BY <1>1, <2>1, <2>2, <3>1, <3>2, RecoveredIs DEF Recovered
  <2> QED BY <1>12, <2>2
<1>14. CASE snap' = [snap EXCEPT !.ok = FALSE]
  <2>1. ~snap'.ok
    BY <1>14 DEF WALInv, TypeOK
  <2> QED BY <1>12, <2>1
<1> QED BY <1>1, <1>13, <1>14

-----------------------------------------------------------------------------
(* The theorems *)

LEMMA InitInv ==
    ASSUME Init
    PROVE  WALInv
<1> USE DEF Init
<1>1. \A g \in Seqs : disk[g] = << >> /\ synced[g] = 0 /\ DOMAIN disk[g] = {} /\ Len(disk[g]) = 0
  OBVIOUS
<1>2. TypeOK
  <2>1. << >> \in Seq(Content) /\ 0 \in Nat
    OBVIOUS
  <2>2. 0 \in 0..MaxSeq /\ 0 \in 0..MaxRecords
    BY WALConstants
  <2>3. disk \in [Seqs -> Seq(Content)] /\ synced \in [Seqs -> Nat]
    BY <2>1
  <2>4. snap \in [seq : 0..MaxSeq, set : SUBSET Records, ok : BOOLEAN, durable : BOOLEAN]
    BY <2>2 DEF NoSnapshot
  <2> QED BY <2>2, <2>3, <2>4 DEF TypeOK
<1>3. Calling /\ Segments /\ Room /\ Counted /\ Placed /\ Found
  BY <1>1 DEF Calling, Segments, Room, Counted, Placed, Found
<1>4. SegmentBounded
  <2>1. maxSize \in Nat
    BY WALConstants
  <2>2. ASSUME NEW g \in Seqs PROVE {i \in DOMAIN disk[g] : disk[g][i] # Torn} = {}
    BY <1>1
  <2>3. Cardinality({}) <= maxSize
    BY <2>1, FS_EmptySet
  <2> QED BY <2>2, <2>3 DEF SegmentBounded
<1> QED BY <1>2, <1>3, <1>4 DEF WALInv

\* Every step keeps the invariant, and what was synced where recovery finds it.
LEMMA NextInv ==
    ASSUME WALInv, [Next]_vars
    PROVE  WALInv' /\ (safe \cap Recovered \subseteq Recovered' \/ ~snap'.ok)
<1>1. CASE UNCHANGED vars
  <2>1. /\ UNCHANGED <<file, seq, size, maxSize, disk, exists, synced, snap, pc, todo, mine,
                       encoded, index, acked, refused, safe, dropped>>
    BY <1>1 DEF vars, fileVars, diskVars, callVars, history
  <2>2. Recovered' = Recovered /\ \A r : InSegment(r)' <=> InSegment(r)
    BY <2>1, SameLog
  <2>3. TypeOK' /\ Calling' /\ Segments' /\ Room' /\ SegmentBounded' /\ Counted' /\ Placed'
    BY <2>1 DEF WALInv, TypeOK, Calling, Segments, Room, Full, SegmentBounded, Counted,
                Whole, Placed
  <2>4. Found'
    BY <2>1, <2>2 DEF WALInv, Found
  <2> QED BY <2>2, <2>3, <2>4 DEF WALInv
<1>2. CASE Open \/ Close \/ Kill \/ PowerLoss
  BY <1>2, OpenStep, CloseStep, KillStep, PowerLossStep
<1>3. CASE \E n \in 1..MaxBatch : Begin(n)
  BY <1>3, BeginStep
<1>4. CASE Rotate \/ RotateSyncFails \/ RotateCloseFails \/ RotateOpenFails
  BY <1>4, RotateStep, RotateSyncFailsStep, RotateCloseFailsStep, RotateOpenFailsStep
<1>5. CASE Write \/ WriteFails \/ Finish
  BY <1>5, WriteStep, WriteFailsStep, FinishStep
<1>6. CASE Sync \/ Compact
  BY <1>6, SyncStep, CompactStep
<1> QED BY <1>1, <1>2, <1>3, <1>4, <1>5, <1>6 DEF Next

\* Every state is one that WALInv describes.
THEOREM Invariance == Spec => []WALInv
<1>1. WALInv /\ [Next]_vars => WALInv'
  BY NextInv
<1> QED BY <1>1, InitInv, PTL DEF Spec

\* The variables have their types: no rotation leaves the sequence numbers,
\* and what counts as synced was acknowledged.
THEOREM TypeCorrect == Spec => []TypeOK
<1>1. WALInv => TypeOK
  BY DEF WALInv
<1> QED BY <1>1, Invariance, PTL

\* No segment holds more complete records than MaxWALSize, whatever fails
\* (wal.go:66-76).
THEOREM SegmentsBounded == Spec => []SegmentBounded
<1>1. WALInv => SegmentBounded
  BY DEF WALInv
<1> QED BY <1>1, Invariance, PTL

\* What the index and a restart may differ in, and why (wal.go, open.go:147-176,
\* compact.go:44-50).
THEOREM DifferencesExplained == Spec => []Explained
<1>1. WALInv => Explained
  <2> SUFFICES ASSUME WALInv, file # "nil", pc = "idle"
               PROVE  /\ \A r \in index \ Recovered : Unread(r) \/ r \in dropped
                      /\ Recovered \ index \subseteq refused
    BY DEF Explained
  <2>1. Recovered \ index \subseteq refused
    BY DEF WALInv, Found, Calling
  <2>2. ASSUME NEW r \in index \ Recovered, r \notin dropped PROVE Unread(r)
    <3>1. r \notin snap.set
      BY DEF Recovered
    <3>2. PICK g \in exists : \E i \in DOMAIN disk[g] : disk[g][i] = r
      BY <2>2, <3>1 DEF WALInv, Found, InSegment
    <3>3. PICK i \in DOMAIN disk[g] : disk[g][i] = r
      BY <3>2
    <3>4. g \in Nat /\ snap.seq \in Nat
      BY Facts DEF WALInv, TypeOK
    <3>5. CASE g <= snap.seq
      BY <3>3, <3>5 DEF Unread
    <3>6. CASE g > snap.seq
      <4>1. r \notin Readable(g)
        BY <3>6, RecoveredIs
      <4>2. \E j \in 1..i : disk[g][j] = Torn
        BY <3>3, <4>1 DEF Readable
      <4> QED BY <3>3, <4>2 DEF Unread
    <3> QED BY <3>4, <3>5, <3>6
  <2> QED BY <2>1, <2>2
<1> QED BY <1>1, Invariance, PTL

\* No step takes from recovery a record that it would have found and that was
\* acknowledged before a Sync (wal.go:81-88, 109-116).
THEOREM SyncedStay == Spec => SyncedStays
<1>1. WALInv /\ [Next]_vars => [\A r \in safe \cap Recovered : r \in Recovered' \/ ~snap'.ok]_vars
  BY NextInv
<1> QED BY <1>1, Invariance, PTL DEF Spec, SyncedStays

=============================================================================
