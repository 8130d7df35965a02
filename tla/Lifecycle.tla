----------------------------- MODULE Lifecycle -----------------------------
(***************************************************************************)
(* The life of one DB handle: the locks every call takes, the two          *)
(* background workers, the compaction goroutines a rotation starts, and    *)
(* Close, which stops the workers while it holds db.mu.                    *)
(*                                                                         *)
(* db.mu is a Go RWMutex: a goroutine that calls Lock first announces      *)
(* itself, which keeps new readers out, and then waits for the readers     *)
(* that are in.  WALManager.mu is a plain mutex, always taken inside       *)
(* db.mu.  The data behind the locks is the subject of the other modules.  *)
(***************************************************************************)
EXTENDS Naturals, FiniteSets

CONSTANTS
    Clients,      \* goroutines of the application
    SyncWorker,   \* the goroutine of startSyncWorker
    TTLWorker,    \* the goroutine of startTTLWorker
    Compactor,    \* the goroutine of compactAsync
    Periodic,     \* is SyncMode SyncPeriodic?
    None          \* no goroutine

Workers == {SyncWorker, TTLWorker}

Procs == Clients \cup Workers \cup {Compactor}

ASSUME LifecycleConstants ==
    /\ SyncWorker # TTLWorker /\ Compactor \notin Workers
    /\ Clients \cap (Workers \cup {Compactor}) = {}
    /\ None \notin Procs
    /\ Periodic \in BOOLEAN

VARIABLES
    pc,        \* where each goroutine is
    job,       \* what it is doing there
    readers,   \* the goroutines that hold db.mu.RLock
    writer,    \* the one that holds db.mu.Lock or has announced itself
    walmu,     \* the one that holds WALManager.mu
    closed,    \* DB.closed
    walOpen,   \* WALManager.currentFile is open
    ticking,   \* the tickers have not been stopped
    tick,      \* workers for which a tick is waiting in the channel
    stopCh,    \* "open", "closed", or "panic" when it is closed twice
    spawned    \* a compaction goroutine is to run

lockVars == <<readers, writer, walmu>>
handleVars == <<closed, walOpen, ticking, stopCh>>
vars == <<pc, job, lockVars, handleVars, tick, spawned>>

ClientJobs == {"read", "write", "sync", "close"}

\* The jobs that take db.mu.Lock: cleanupExpired is one of them.
Exclusive == {"write", "close", "clean"}

Init ==
    /\ pc = [p \in Procs |->
                IF p \in Workers THEN IF p = SyncWorker /\ ~Periodic THEN "exited" ELSE "select"
                ELSE "idle"]
    /\ job = [p \in Procs |->
                 IF p = SyncWorker THEN "sync" ELSE IF p = TTLWorker THEN "clean"
                 ELSE IF p = Compactor THEN "compact" ELSE "read"]
    /\ readers = {} /\ writer = None /\ walmu = None
    /\ closed = FALSE /\ walOpen = TRUE
    /\ ticking = TRUE /\ tick = {}
    /\ stopCh = "open"
    /\ spawned = FALSE

At(p, l) == pc[p] = l

Goto(p, l) == pc' = [pc EXCEPT ![p] = l]

-----------------------------------------------------------------------------
(* Calls, ticks and goroutines that begin *)

AskFor(j) == IF j \in Exclusive THEN "lock" ELSE "rlock"

Call(p, j) ==
    /\ At(p, "idle")
    /\ Goto(p, AskFor(j))
    /\ job' = [job EXCEPT ![p] = j]
    /\ UNCHANGED <<lockVars, handleVars, tick, spawned>>

\* beginCompaction, under its own mutex, then Compact asks for db.mu.RLock.
StartCompact ==
    /\ spawned
    /\ At(Compactor, "idle")
    /\ spawned' = FALSE
    /\ Goto(Compactor, "rlock")
    /\ UNCHANGED <<job, lockVars, handleVars, tick>>

\* The channel of a ticker holds one tick; Stop does not take it back.
TickerFires(w) ==
    /\ ticking
    /\ tick' = tick \cup {w}
    /\ UNCHANGED <<pc, job, lockVars, handleVars, spawned>>

\* select takes either case when both are ready.
SelectTick(w) ==
    /\ At(w, "select")
    /\ w \in tick
    /\ tick' = tick \ {w}
    /\ Goto(w, AskFor(job[w]))
    /\ UNCHANGED <<job, lockVars, handleVars, spawned>>

SelectStop(w) ==
    /\ At(w, "select")
    /\ stopCh # "open"
    /\ Goto(w, "exited")
    /\ UNCHANGED <<job, lockVars, handleVars, tick, spawned>>

-----------------------------------------------------------------------------
(* db.mu *)

RLock(p) ==
    /\ At(p, "rlock")
    /\ writer = None
    /\ readers' = readers \cup {p}
    /\ Goto(p, "held")
    /\ UNCHANGED <<job, writer, walmu, handleVars, tick, spawned>>

Announce(p) ==
    /\ At(p, "lock")
    /\ writer = None
    /\ writer' = p
    /\ Goto(p, "drain")
    /\ UNCHANGED <<job, readers, walmu, handleVars, tick, spawned>>

Lock(p) ==
    /\ At(p, "drain")
    /\ readers = {}
    /\ Goto(p, "held")
    /\ UNCHANGED <<job, lockVars, handleVars, tick, spawned>>

\* Where a goroutine is once it has released db.mu.
Home(p) ==
    IF p \in Workers THEN "select" ELSE IF p = Compactor THEN "files" ELSE "idle"

Unlock(p) ==
    /\ At(p, "unlock")
    /\ IF writer = p THEN writer' = None /\ UNCHANGED readers
       ELSE readers' = readers \ {p} /\ UNCHANGED writer
    /\ Goto(p, Home(p))
    /\ UNCHANGED <<job, walmu, handleVars, tick, spawned>>

-----------------------------------------------------------------------------
(* Under db.mu *)

\* What a call does after it found the handle open.
After(j) ==
    CASE j = "read" -> "using"
      [] j = "clean" -> "unlock"
      [] j = "close" -> "wait"
      [] OTHER -> "walwait"

\* A variant in which a call that finds the handle closed returns at once,
\* with db.mu still locked.
CheckClosedLeaks(p) ==
    /\ At(p, "held")
    /\ IF closed
       THEN Goto(p, Home(p)) /\ UNCHANGED handleVars
       ELSE /\ Goto(p, After(job[p]))
            /\ IF job[p] = "close"
               THEN /\ closed' = TRUE /\ ticking' = FALSE
                    /\ stopCh' = IF stopCh = "open" THEN "closed" ELSE "panic"
                    /\ UNCHANGED walOpen
               ELSE UNCHANGED handleVars
    /\ UNCHANGED <<job, lockVars, tick, spawned>>

\* A variant in which Close does not ask whether the handle is closed.
CheckClosedTwice(p) ==
    /\ At(p, "held")
    /\ IF closed /\ job[p] # "close"
       THEN Goto(p, "unlock") /\ UNCHANGED handleVars
       ELSE /\ Goto(p, After(job[p]))
            /\ IF job[p] = "close"
               THEN /\ closed' = TRUE /\ ticking' = FALSE
                    /\ stopCh' = IF stopCh = "open" THEN "closed" ELSE "panic"
                    /\ UNCHANGED walOpen
               ELSE UNCHANGED handleVars
    /\ UNCHANGED <<job, lockVars, tick, spawned>>

\* A variant of Close that stops the tickers and leaves stopCh open.
CheckClosedSilent(p) ==
    /\ At(p, "held")
    /\ IF closed
       THEN Goto(p, "unlock") /\ UNCHANGED handleVars
       ELSE /\ Goto(p, After(job[p]))
            /\ IF job[p] = "close"
               THEN closed' = TRUE /\ ticking' = FALSE /\ UNCHANGED <<stopCh, walOpen>>
               ELSE UNCHANGED handleVars
    /\ UNCHANGED <<job, lockVars, tick, spawned>>

\* Every call looks at db.closed first.  Close sets it, stops the tickers and
\* closes stopCh.
CheckClosed(p) ==
    /\ At(p, "held")
    /\ IF closed
       THEN Goto(p, "unlock") /\ UNCHANGED handleVars
       ELSE /\ Goto(p, After(job[p]))
            /\ IF job[p] = "close"
               THEN /\ closed' = TRUE /\ ticking' = FALSE
                    /\ stopCh' = IF stopCh = "open" THEN "closed" ELSE "panic"
                    /\ UNCHANGED walOpen
               ELSE UNCHANGED handleVars
    /\ UNCHANGED <<job, lockVars, tick, spawned>>

\* wg.Wait, still with db.mu.
WorkersDone(p) ==
    /\ At(p, "wait")
    /\ \A w \in Workers : At(w, "exited")
    /\ Goto(p, "walwait")
    /\ UNCHANGED <<job, lockVars, handleVars, tick, spawned>>

Use(p) ==
    /\ At(p, "using")
    /\ Goto(p, "unlock")
    /\ UNCHANGED <<job, lockVars, handleVars, tick, spawned>>

WALLock(p) ==
    /\ At(p, "walwait")
    /\ walmu = None
    /\ walmu' = p
    /\ Goto(p, "wal")
    /\ UNCHANGED <<job, readers, writer, handleVars, tick, spawned>>

\* AppendRecord, Sync, CurrentSeq, or Sync and Close.  An append that rotates
\* starts a compaction.
WALUse(p) ==
    /\ At(p, "wal")
    /\ walmu' = None
    /\ walOpen' = (walOpen /\ job[p] # "close")
    /\ \/ job[p] = "write" /\ spawned' = TRUE
       \/ UNCHANGED spawned
    /\ Goto(p, "unlock")
    /\ UNCHANGED <<job, readers, writer, closed, ticking, stopCh, tick>>

\* Compact goes on without any lock: the snapshot, the segments, MANIFEST.
CompactFiles ==
    /\ At(Compactor, "files")
    /\ Goto(Compactor, "idle")
    /\ UNCHANGED <<job, lockVars, handleVars, tick, spawned>>

-----------------------------------------------------------------------------
Begin ==
    \/ \E p \in Clients : \E j \in ClientJobs : Call(p, j)
    \/ \E w \in Workers : TickerFires(w)

\* What a goroutine that is ready does, and what it may have to wait for.
Run(p) == Lock(p) \/ CheckClosed(p) \/ WorkersDone(p) \/ Use(p) \/ WALUse(p) \/ Unlock(p)

Acquire(p) == RLock(p) \/ Announce(p) \/ WALLock(p)

Next ==
    \/ Begin
    \/ StartCompact \/ CompactFiles
    \/ \E w \in Workers : SelectTick(w) \/ SelectStop(w)
    \/ \E p \in Procs : Run(p) \/ Acquire(p)

Spec == Init /\ [][Next]_vars

(***************************************************************************)
(* Goroutines that can run do run, and Go's locks are not unfair for ever. *)
(* A worker's select cannot ignore a closed channel for ever either: the   *)
(* tickers are stopped before the channel is closed, so at most one more   *)
(* tick can be taken.  Nobody is obliged to call, no ticker to fire, and   *)
(* no compaction to begin.                                                 *)
(***************************************************************************)
Fairness ==
    /\ \A p \in Procs : WF_vars(Run(p)) /\ SF_vars(Acquire(p))
    /\ \A w \in Workers : WF_vars(SelectStop(w))

FairSpec == Spec /\ Fairness

-----------------------------------------------------------------------------
(* Properties *)

Jobs == ClientJobs \cup {"clean", "compact"}

Labels ==
    {"idle", "select", "exited", "rlock", "lock", "drain", "held", "using", "wait",
     "walwait", "wal", "unlock", "files"}

TypeOK ==
    /\ pc \in [Procs -> Labels]
    /\ job \in [Procs -> Jobs]
    /\ readers \subseteq Procs
    /\ writer \in Procs \cup {None}
    /\ walmu \in Procs \cup {None}
    /\ closed \in BOOLEAN /\ walOpen \in BOOLEAN /\ ticking \in BOOLEAN
    /\ tick \subseteq Workers
    /\ stopCh \in {"open", "closed", "panic"}
    /\ spawned \in BOOLEAN

InLock == {"held", "using", "wait", "walwait", "wal", "unlock"}

(***************************************************************************)
(* Who holds a lock is exactly who is between taking and releasing it: no  *)
(* early return of a call forgets db.mu or the lock of the log, and a      *)
(* goroutine with db.mu.Lock is alone.                                     *)
(***************************************************************************)
LocksMatch ==
    /\ TypeOK
    /\ job[Compactor] = "compact"
    /\ \A p \in Procs :
         /\ p \in readers <=> pc[p] \in InLock /\ job[p] \notin Exclusive
         /\ writer = p <=> pc[p] \in InLock \cup {"drain"} /\ job[p] \in Exclusive
         /\ walmu = p <=> pc[p] = "wal"
         /\ writer = p /\ pc[p] # "drain" => readers = {}
         /\ pc[p] = "rlock" => job[p] \notin Exclusive
         /\ pc[p] \in {"lock", "drain"} => job[p] \in Exclusive

\* Past the test of db.closed, with the handle in use.
Inside(p) == pc[p] \in {"using", "wait", "walwait", "wal"}

(***************************************************************************)
(* Once Close has set db.closed nobody but that Close is inside the handle *)
(* (close.go:13), the log is closed only then, and stopCh is closed once,  *)
(* however many goroutines call Close at the same time.                    *)
(***************************************************************************)
ClosedForGood ==
    /\ closed => \A p \in Procs : Inside(p) => job[p] = "close" /\ writer = p
    /\ ~walOpen => closed
    /\ stopCh # "panic"

\* Only a Close that has set db.closed goes on to close anything.
CloseInv ==
    /\ ~closed => stopCh = "open"
    /\ \A p \in Procs : Inside(p) /\ job[p] = "close" => closed

Safe == LocksMatch /\ CloseInv /\ ClosedForGood

\* Close waits for a worker that waits for the db.mu Close holds.
CloseCycle ==
    \E p \in Procs, w \in Workers : At(p, "wait") /\ pc[w] \in {"rlock", "lock"}

(***************************************************************************)
(* Every call returns, unless a Close has met a worker whose tick came     *)
(* just before: no other combination of db.mu, the lock of the log, the    *)
(* rotation hook and the workers keeps anyone waiting for ever.            *)
(***************************************************************************)
Progress == \A p \in Clients : ~At(p, "idle") ~> At(p, "idle") \/ CloseCycle

(***************************************************************************)
(* requirements.md:172, "THE DB SHALL prevent deadlocks by enforcing a     *)
(* consistent lock hierarchy": Close returns.                              *)
(***************************************************************************)
CloseReturns == \A p \in Clients : At(p, "wait") ~> At(p, "idle")

=============================================================================
