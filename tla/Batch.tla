------------------------------- MODULE Batch -------------------------------
(***************************************************************************)
(* The batch object (batch.go): calls buffer operations in it, Write       *)
(* appends their records to the log one after the other and then applies   *)
(* them to the index, Discard gives them up.  An object whose Write failed *)
(* is still open and may be written again, after more operations and after *)
(* writes of others; an object outlives the handle it is bound to.         *)
(*                                                                         *)
(* An object belongs to one goroutine (it has no lock).  Two objects and   *)
(* the direct writes Set and Delete meet at db.mu.  A failed append leaves *)
(* nothing behind here: WAL has torn records and segments.  The value of a *)
(* Set is the name of who wrote it.                                        *)
(***************************************************************************)
EXTENDS Integers, Sequences, FiniteSetsExt

CONSTANTS
    Keys,
    Objects,       \* batch objects
    Direct,        \* the writer that uses no batch
    NoKey,         \* the empty key
    LongKey,       \* a key longer than MaxKeySize
    HugeValue,     \* a value longer than MaxValueSize
    None,          \* no value, no holder
    MaxBatchSize,  \* Options.MaxBatchSize; every key and value has length 1
    MaxCalls,      \* bound on the operations asked of one object
    MaxLog,        \* bound on the records of the log
    MaxTries,      \* bound on the writes begun
    MaxOpens       \* bound on the handles opened

ASSUME BatchConstants ==
    /\ Keys \cap {NoKey, LongKey} = {} /\ NoKey # LongKey
    /\ HugeValue \notin Objects \cup {Direct} /\ Direct \notin Objects
    /\ None \notin Objects \cup {Direct, HugeValue}
    /\ {MaxBatchSize, MaxCalls, MaxLog, MaxTries, MaxOpens} \subseteq Nat

VARIABLES
    phase,     \* of the database: "closed" or "open"
    readOnly,  \* Options.ReadOnly
    handle,    \* how many handles have been opened
    batch,     \* the state of each object
    holder,    \* the object whose Write holds db.mu, or None
    todo,      \* its records not appended yet
    log,       \* the records of the log
    index,     \* MemIndex: key -> value or None
    tries,     \* history: every write begun, and how it ended
    opened     \* history: the length of the log at the last Open

dbVars == <<phase, readOnly, handle>>
vars == <<dbVars, batch, holder, todo, log, index, tries, opened>>

-----------------------------------------------------------------------------
(* Data *)

Op == [key : Keys \cup {NoKey, LongKey}, val : Objects \cup {Direct, HugeValue, None}]

\* What an object may be asked: to set or delete a key, and the requests that
\* addOp does not take.
Requests(b) ==
    [key : Keys, val : {b, None}]
      \cup [key : {NoKey, LongKey}, val : {b}] \cup [key : Keys, val : {HugeValue}]

OpSize(op) == IF op.val = None THEN 1 ELSE 2

\* db is the number of the handle the object is bound to: 0 before NewBatch,
\* -1 when the process that held it has died.  asked, wish and discarded are
\* history; wish is what the caller is promised: everything it asked for, but
\* the operations on the empty key.
Unmade == [db |-> 0, ops |-> << >>, size |-> 0, closed |-> FALSE, err |-> FALSE,
           asked |-> << >>, wish |-> << >>, discarded |-> FALSE]

Lost == [Unmade EXCEPT !.db = -1]

\* m after the operations of s at the positions P.
Replayed(m, s, P) ==
    [k \in Keys |->
        LET Q == {i \in P : s[i].key = k}
        IN  IF Q = {} THEN m[k] ELSE s[Max(Q)].val]

Empty == [k \in Keys |-> None]

TooLarge(op) == op.key # NoKey /\ (op.key = LongKey \/ op.val = HugeValue)

Init ==
    /\ phase = "closed" /\ readOnly = FALSE /\ handle = 0
    /\ batch = [b \in Objects |-> Unmade]
    /\ holder = None /\ todo = << >>
    /\ log = << >> /\ index = Empty
    /\ tries = << >> /\ opened = 0

-----------------------------------------------------------------------------
(* Buffering *)

NewBatch(b) ==
    /\ batch[b] = Unmade
    /\ phase = "open"
    /\ batch' = [batch EXCEPT ![b].db = handle]
    /\ UNCHANGED <<dbVars, holder, todo, log, index, tries, opened>>

\* The goroutine of b is not inside Write.
Free(b) == batch[b].db > 0 /\ holder # b

\* addOp keeps nothing of an operation it does not take: an empty key is
\* passed over in silence, a key or value that is too large is remembered as
\* the error that Write returns.
addOp(b, op) ==
    /\ Free(b) /\ ~batch[b].closed
    /\ Len(batch[b].asked) < MaxCalls
    /\ LET taken == op.key # NoKey /\ ~TooLarge(op)
       IN  batch' = [batch EXCEPT
                        ![b].asked = Append(@, op),
                        ![b].wish = IF op.key # NoKey THEN Append(@, op) ELSE @,
                        ![b].err = @ \/ TooLarge(op),
                        ![b].ops = IF taken THEN Append(@, op) ELSE @,
                        ![b].size = IF taken THEN @ + OpSize(op) ELSE @]
    /\ UNCHANGED <<dbVars, holder, todo, log, index, tries, opened>>

Discard(b) ==
    /\ Free(b)
    /\ batch' = [batch EXCEPT ![b].closed = TRUE, ![b].ops = << >>, ![b].size = 0,
                              ![b].discarded = @ \/ ~batch[b].closed]
    /\ UNCHANGED <<dbVars, holder, todo, log, index, tries, opened>>

-----------------------------------------------------------------------------
(* Write *)

Ended(how) == [tries EXCEPT ![Len(tries)].how = how]

\* The checks of Write, the last four under db.mu.  When one of them fails
\* Write returns and nothing has changed: the object stays as it is.
Admitted(b) ==
    /\ ~batch[b].closed /\ ~batch[b].err /\ batch[b].ops # << >>
    /\ phase = "open" /\ batch[b].db = handle
    /\ ~readOnly
    /\ batch[b].size <= MaxBatchSize

Begin(b) ==
    /\ Free(b) /\ holder = None
    /\ Admitted(b)
    /\ Len(tries) < MaxTries /\ Len(log) + Len(batch[b].ops) <= MaxLog
    /\ holder' = b
    /\ todo' = batch[b].ops
    /\ tries' = Append(tries, [by |-> b, wish |-> batch[b].wish, how |-> "running"])
    /\ UNCHANGED <<dbVars, batch, log, index, opened>>

\* A variant that applies each operation as soon as its record is in the log.
AppendApplied ==
    /\ todo # << >>
    /\ log' = Append(log, [key |-> Head(todo).key, val |-> Head(todo).val,
                           try |-> Len(tries)])
    /\ todo' = Tail(todo)
    /\ index' = [index EXCEPT ![Head(todo).key] = Head(todo).val]
    /\ UNCHANGED <<dbVars, batch, holder, tries, opened>>

AppendRaw ==
    /\ todo # << >>
    /\ log' = Append(log, [key |-> Head(todo).key, val |-> Head(todo).val,
                           try |-> Len(tries)])
    /\ todo' = Tail(todo)
    /\ UNCHANGED <<dbVars, batch, holder, index, tries, opened>>

\* A variant that goes on with the next record.
AppendSkips ==
    /\ todo # << >>
    /\ todo' = Tail(todo)
    /\ UNCHANGED <<dbVars, batch, holder, log, index, tries, opened>>

\* Write returns the error.  The records before it stay in the log, and the
\* object stays open with all its operations.
AppendFails ==
    /\ todo # << >>
    /\ holder' = None /\ todo' = << >>
    /\ tries' = Ended("failed")
    /\ UNCHANGED <<dbVars, batch, log, index, opened>>

\* The same after the last record, where SyncAlways syncs.
SyncFails ==
    /\ holder # None /\ todo = << >>
    /\ holder' = None
    /\ tries' = Ended("failed")
    /\ UNCHANGED <<dbVars, batch, todo, log, index, opened>>

\* A variant that leaves the object open.
ApplyOpen ==
    /\ holder # None /\ todo = << >>
    /\ index' = Replayed(index, batch[holder].ops, DOMAIN batch[holder].ops)
    /\ holder' = None
    /\ tries' = Ended("ok")
    /\ UNCHANGED <<dbVars, batch, todo, log, opened>>

\* A variant that returns without releasing db.mu.
ApplyLocked ==
    /\ holder # None /\ todo = << >>
    /\ index' = Replayed(index, batch[holder].ops, DOMAIN batch[holder].ops)
    /\ batch' = [batch EXCEPT ![holder].closed = TRUE]
    /\ tries' = Ended("ok")
    /\ UNCHANGED <<dbVars, holder, todo, log, opened>>

Apply ==
    /\ holder # None /\ todo = << >>
    /\ index' = Replayed(index, batch[holder].ops, DOMAIN batch[holder].ops)
    /\ batch' = [batch EXCEPT ![holder].closed = TRUE]
    /\ holder' = None
    /\ tries' = Ended("ok")
    /\ UNCHANGED <<dbVars, todo, log, opened>>

\* DB.Set and DB.Delete: one record, then the index, unless Sync fails.
DirectWrite(k, v, synced) ==
    /\ phase = "open" /\ ~readOnly /\ holder = None
    /\ Len(tries) < MaxTries /\ Len(log) < MaxLog
    /\ log' = Append(log, [key |-> k, val |-> v, try |-> Len(tries) + 1])
    /\ index' = IF synced THEN [index EXCEPT ![k] = v] ELSE index
    /\ tries' = Append(tries, [by |-> Direct, wish |-> <<[key |-> k, val |-> v]>>,
                               how |-> IF synced THEN "ok" ELSE "failed"])
    /\ UNCHANGED <<dbVars, batch, holder, todo, opened>>

-----------------------------------------------------------------------------
(* The database *)

Open(ro) ==
    /\ phase = "closed" /\ handle < MaxOpens
    /\ phase' = "open" /\ readOnly' = ro /\ handle' = handle + 1
    /\ index' = Replayed(Empty, log, DOMAIN log)
    /\ opened' = Len(log)
    /\ UNCHANGED <<batch, holder, todo, log, tries>>

Close ==
    /\ phase = "open" /\ holder = None
    /\ phase' = "closed" /\ index' = Empty
    /\ UNCHANGED <<readOnly, handle, batch, holder, todo, log, tries, opened>>

Crash ==
    /\ phase = "open"
    /\ phase' = "closed" /\ index' = Empty
    /\ batch' = [b \in Objects |-> IF batch[b].db > 0 THEN Lost ELSE batch[b]]
    /\ holder' = None /\ todo' = << >>
    /\ tries' = IF holder = None THEN tries ELSE Ended("cut")
    /\ UNCHANGED <<readOnly, handle, log, opened>>

Next ==
    \/ \E b \in Objects :
          \/ NewBatch(b) \/ Discard(b) \/ Begin(b)
          \/ \E op \in Requests(b) : addOp(b, op)
    \/ AppendRaw \/ AppendFails \/ SyncFails \/ Apply
    \/ \E k \in Keys, v \in {Direct, None}, synced \in BOOLEAN : DirectWrite(k, v, synced)
    \/ \E ro \in BOOLEAN : Open(ro)
    \/ Close \/ Crash

Spec == Init /\ [][Next]_vars

-----------------------------------------------------------------------------
(* Properties *)

States ==
    [db : -1..MaxOpens, ops : Seq(Op), size : Nat, closed : BOOLEAN, err : BOOLEAN,
     asked : Seq(Op), wish : Seq(Op), discarded : BOOLEAN]

TypeOK ==
    /\ phase \in {"closed", "open"} /\ readOnly \in BOOLEAN /\ handle \in 0..MaxOpens
    /\ batch \in [Objects -> States]
    /\ holder \in Objects \cup {None}
    /\ holder # None => phase = "open" /\ ~batch[holder].closed
    /\ todo \in Seq(Op)
    /\ \A i \in DOMAIN log : log[i].try \in DOMAIN tries
    /\ index \in [Keys -> Objects \cup {Direct, None}]
    /\ \A t \in DOMAIN tries : tries[t].how \in {"running", "ok", "failed", "cut"}
    /\ opened \in 0..Len(log)

Of(t) == {i \in DOMAIN log : log[i].try = t}

Written(t) == [i \in 1..Cardinality(Of(t)) |->
                  LET r == log[Min(Of(t)) + i - 1] IN [key |-> r.key, val |-> r.val]]

(***************************************************************************)
(* The log holds of every write an unbroken, ordered prefix of what its    *)
(* caller asked for, and all of it when Write returned nil: no record of   *)
(* another write in between, none left out, none twice (batch.go:113-120), *)
(* and nothing of an object that was asked for something too large.        *)
(***************************************************************************)
InLog ==
    \A t \in DOMAIN tries :
        /\ Of(t) # {} => Of(t) = Min(Of(t))..Max(Of(t))
        /\ Written(t) = SubSeq(tries[t].wish, 1, Cardinality(Of(t)))
        /\ tries[t].how = "ok" => Cardinality(Of(t)) = Len(tries[t].wish)
        /\ \A i \in DOMAIN tries[t].wish : ~TooLarge(tries[t].wish[i])

(***************************************************************************)
(* What readers see is what recovery found and, since then, every write    *)
(* that returned nil, whole and in the order of the log.  So a restart can *)
(* change a key only to what a Write that failed has left of it in the     *)
(* log, and no longer once that object has been written after all.         *)
(***************************************************************************)
IndexExplained ==
    phase = "open" =>
        index = Replayed(Empty, log,
                         {i \in DOMAIN log : i <= opened \/ tries[log[i].try].how = "ok"})

(***************************************************************************)
(* An object is written successfully at most once, only a Write that       *)
(* failed may be repeated, and a discarded object is never written.        *)
(***************************************************************************)
WrittenOnce ==
    /\ \A s, t \in DOMAIN tries :
          s < t /\ tries[s].by = tries[t].by /\ tries[s].by \in Objects
            => tries[s].how = "failed"
    /\ holder # None => ~batch[holder].discarded

-----------------------------------------------------------------------------
(* What the repository's documents say and the code does not do *)

(***************************************************************************)
(* requirements.md:123, "IF any operation in a batch fails, THEN THE DB    *)
(* SHALL roll back all operations in the batch": an object whose caller    *)
(* asked for something that could not be done is not written.              *)
(***************************************************************************)
NothingDropped ==
    holder # None =>
        \A i \in DOMAIN batch[holder].asked : batch[holder].asked[i].key # NoKey

=============================================================================
