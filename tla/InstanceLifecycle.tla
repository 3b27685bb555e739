------------------------- MODULE InstanceLifecycle -------------------------
(* The locks around an open database (Instance): the automatic snapshots      *)
(* after a write, snapshots and lists asked for, and the operations that open,*)
(* close or replace the database.  All instances of the process share one     *)
(* admission to snapshot validation.                                          *)
(*                                                                            *)
(* What a snapshot or a restore does to its files is in PruneJournal and      *)
(* RestoreJournal; the ledger's own worker is in TransactionSaves.            *)
EXTENDS FiniteSets

CONSTANTS
  Instances, Procs, None,
  Elsewhere     \* the other instances of the process, as holders of the admission

VARIABLES
  db,           \* i.db and i.opener: "open" or "closed"
  running, pending, closing,    \* snapshotRunning, snapshotPending, snapshotClosing
  snapshotMu,   \* the request that holds snapshotMu while it waits for mu
  mu,           \* the holder of mu's write lock
  lifecycleMu,  \* the holder of dbLifecycleMu
  writer, readers,  \* snapshotLifecycle: who locks it or waits to, and who reads it
  admission,    \* the holder of snapshotValidationAdmission
  worker,       \* the control state of the automatic snapshots' goroutine
  call,         \* the request each goroutine serves
  owed          \* history: a write after the last copy asked for a snapshot

lockVars == <<snapshotMu, mu, lifecycleMu, writer, readers, admission>>
flagVars == <<running, pending, closing>>
vars == <<db, running, pending, closing, snapshotMu, mu, lifecycleMu, writer, readers, admission,
          worker, call, owed>>

\* A worker holds locks under the name of its instance.
Actors == Procs \cup Instances
LifecycleOps == {"initialize", "close", "restore"}
Idle == [op |-> "none", of |-> None, at |-> "idle"]
WorkerAt == {"idle", "rlock", "first", "retry", "again", "recheck", "mu", "copy", "prune",
             "unlock", "next"}

TypeOK ==
  /\ db \in [Instances -> {"open", "closed"}]
  /\ running \in [Instances -> BOOLEAN] /\ pending \in [Instances -> BOOLEAN]
  /\ closing \in [Instances -> BOOLEAN] /\ owed \in [Instances -> BOOLEAN]
  /\ snapshotMu \in [Instances -> Procs \cup {None}]
  /\ mu \in [Instances -> Actors \cup {None}]
  /\ lifecycleMu \in [Instances -> Procs \cup {None}]
  /\ writer \in [Instances -> Procs \cup {None}] /\ readers \in [Instances -> SUBSET Actors]
  /\ admission \in Actors \cup {Elsewhere, None}
  /\ worker \in [Instances -> WorkerAt]
  /\ call \in [Procs -> [op : LifecycleOps \cup {"none", "write", "create", "list"},
                         of : Instances \cup {None},
                         at : {"idle", "ready", "rlock", "admission", "mu", "copy", "list",
                               "life", "closing", "drain", "lock", "held", "swap", "end", "open"}]]

Init ==
  /\ db = [i \in Instances |-> "closed"]
  /\ running = [i \in Instances |-> FALSE] /\ pending = [i \in Instances |-> FALSE]
  /\ closing = [i \in Instances |-> FALSE] /\ owed = [i \in Instances |-> FALSE]
  /\ snapshotMu = [i \in Instances |-> None] /\ mu = [i \in Instances |-> None]
  /\ lifecycleMu = [i \in Instances |-> None]
  /\ writer = [i \in Instances |-> None] /\ readers = [i \in Instances |-> {}]
  /\ admission = None
  /\ worker = [i \in Instances |-> "idle"]
  /\ call = [p \in Procs |-> Idle]

Ready(p, op, i, at) == call[p] = [op |-> op, of |-> i, at |-> at]
Goto(p, at) == call' = [call EXCEPT ![p].at = at]
Return(p) == call' = [call EXCEPT ![p] = Idle]

\* A request for one of the operations begins.
Begin(p, op, i, at) ==
  /\ call[p] = Idle /\ call' = [call EXCEPT ![p] = [op |-> op, of |-> i, at |-> at]]
  /\ UNCHANGED <<db, flagVars, lockVars, worker, owed>>

----------------------------------------------------------------------------
(* The write of a service, and the snapshot it asks for (StartAutoSnapshot).  *)

\* It keeps snapshotMu while it waits to read db.  A closing instance is left
\* alone.
StartAutoSnapshot(p, i) ==
  /\ Ready(p, "write", i, "ready") /\ snapshotMu[i] = None
  /\ IF closing[i] THEN Return(p) /\ UNCHANGED snapshotMu
                   ELSE Goto(p, "mu") /\ snapshotMu' = [snapshotMu EXCEPT ![i] = p]
  /\ UNCHANGED <<db, flagVars, mu, lifecycleMu, writer, readers, admission, worker, owed>>

\* A running worker is asked for one more snapshot, else a goroutine starts.
Scheduled(p, i) ==
  /\ Ready(p, "write", i, "mu") /\ mu[i] = None
  /\ IF db[i] = "closed" THEN UNCHANGED <<running, pending, worker, owed>>
     ELSE /\ owed' = [owed EXCEPT ![i] = TRUE]
          /\ IF running[i]
             THEN pending' = [pending EXCEPT ![i] = TRUE] /\ UNCHANGED <<running, worker>>
             ELSE /\ running' = [running EXCEPT ![i] = TRUE]
                  /\ worker' = [worker EXCEPT ![i] = "rlock"] /\ UNCHANGED pending
  /\ snapshotMu' = [snapshotMu EXCEPT ![i] = None] /\ Return(p)
  /\ UNCHANGED <<db, closing, mu, lifecycleMu, writer, readers, admission>>

----------------------------------------------------------------------------
(* The goroutine of the automatic snapshots (runAutoSnapshots).               *)

Work(i, from, to) == worker[i] = from /\ worker' = [worker EXCEPT ![i] = to]

WorkerRLock(i) ==
  /\ Work(i, "rlock", "first") /\ writer[i] = None
  /\ readers' = [readers EXCEPT ![i] = @ \cup {i}]
  /\ UNCHANGED <<db, flagVars, snapshotMu, mu, lifecycleMu, writer, admission, call, owed>>

\* acquireAutoSnapshotValidation.  The first attempt is made even on a closing
\* instance; an attempt that succeeds later looks once more.
Admitted(i) ==
  /\ admission = None /\ admission' = i
  /\ \/ Work(i, "first", "mu")
     \/ Work(i, "again", "recheck")
  /\ UNCHANGED <<db, flagVars, snapshotMu, mu, lifecycleMu, writer, readers, call, owed>>

\* The mutant waits for its turn without looking at closing.
NeverGivesUp(i) == "retry"
\* Where a worker goes after it looked at closing.
GivesUp(i) == IF closing[i] THEN "unlock" ELSE "retry"

\* 100 ms have passed without the admission.
TimesOut(i) ==
  /\ admission # None /\ snapshotMu[i] = None
  /\ \E at \in {"first", "again"} : Work(i, at, GivesUp(i))
  /\ UNCHANGED <<db, flagVars, lockVars, call, owed>>

Retries(i) ==
  /\ snapshotMu[i] = None
  /\ Work(i, "retry", IF GivesUp(i) = "retry" THEN "again" ELSE "unlock")
  /\ UNCHANGED <<db, flagVars, lockVars, call, owed>>

Rechecks(i) ==
  /\ snapshotMu[i] = None
  /\ Work(i, "recheck", IF closing[i] THEN "unlock" ELSE "mu")
  /\ admission' = IF closing[i] THEN None ELSE admission
  /\ UNCHANGED <<db, flagVars, snapshotMu, mu, lifecycleMu, writer, readers, call, owed>>

\* createSnapshot holds mu while it copies, and then cleanOldSnapshots runs.
WorkerCopies(i) ==
  /\ Work(i, "mu", "copy") /\ mu[i] = None
  /\ mu' = [mu EXCEPT ![i] = i] /\ owed' = [owed EXCEPT ![i] = FALSE]
  /\ UNCHANGED <<db, flagVars, snapshotMu, lifecycleMu, writer, readers, admission, call>>
WorkerCopied(i) ==
  /\ \E to \in {"prune", "unlock"} :
       /\ Work(i, "copy", to)
       /\ admission' = IF to = "unlock" THEN None ELSE admission   \* the copy failed
  /\ mu' = [mu EXCEPT ![i] = None]
  /\ UNCHANGED <<db, flagVars, snapshotMu, lifecycleMu, writer, readers, call, owed>>
WorkerPruned(i) ==
  /\ Work(i, "prune", "unlock") /\ mu[i] = None /\ admission' = None
  /\ UNCHANGED <<db, flagVars, snapshotMu, mu, lifecycleMu, writer, readers, call, owed>>
WorkerUnlocks(i) ==
  /\ Work(i, "unlock", "next") /\ readers' = [readers EXCEPT ![i] = @ \ {i}]
  /\ UNCHANGED <<db, flagVars, snapshotMu, mu, lifecycleMu, writer, admission, call, owed>>

\* Whether the goroutine makes the one follow-up run of the writes it coalesced.
FollowUp(i) == pending[i] /\ ~closing[i]

WorkerNext(i) ==
  /\ snapshotMu[i] = None
  /\ Work(i, "next", IF FollowUp(i) THEN "rlock" ELSE "idle")
  /\ running' = [running EXCEPT ![i] = FollowUp(i)]
  /\ pending' = [pending EXCEPT ![i] = FALSE]
  /\ UNCHANGED <<db, closing, lockVars, call, owed>>

Worker(i) ==
  \/ WorkerRLock(i) \/ Admitted(i) \/ TimesOut(i) \/ Retries(i) \/ Rechecks(i)
  \/ WorkerCopies(i) \/ WorkerCopied(i) \/ WorkerPruned(i) \/ WorkerUnlocks(i) \/ WorkerNext(i)

----------------------------------------------------------------------------
(* Snapshots and lists that a request asks for.                               *)

\* snapshotLifecycle is read for the whole operation.
RLock(p, i) ==
  /\ \E op \in {"create", "list"} : Ready(p, op, i, "rlock")
  /\ writer[i] = None /\ Goto(p, "admission")
  /\ readers' = [readers EXCEPT ![i] = @ \cup {p}]
  /\ UNCHANGED <<db, flagVars, snapshotMu, mu, lifecycleMu, writer, admission, worker, owed>>

\* acquireSnapshotValidation, or the request ends first (ctx.Done).
Acquire(p, i) ==
  /\ call[p].of = i /\ call[p].at = "admission" /\ admission = None /\ admission' = p
  /\ Goto(p, IF call[p].op = "list" THEN "list" ELSE "mu")
  /\ UNCHANGED <<db, flagVars, snapshotMu, mu, lifecycleMu, writer, readers, worker, owed>>
Canceled(p, i) ==
  /\ \E op \in {"create", "list"} : Ready(p, op, i, "admission")
  /\ readers' = [readers EXCEPT ![i] = @ \ {p}] /\ Return(p)
  /\ UNCHANGED <<db, flagVars, snapshotMu, mu, lifecycleMu, writer, admission, worker, owed>>

\* createSnapshot answers with an error when the database is closed.
CreateSnapshot(p, i) ==
  /\ Ready(p, "create", i, "mu") /\ mu[i] = None
  /\ mu' = [mu EXCEPT ![i] = p] /\ Goto(p, "copy")
  /\ owed' = [owed EXCEPT ![i] = @ /\ db[i] = "closed"]
  /\ UNCHANGED <<db, flagVars, snapshotMu, lifecycleMu, writer, readers, admission, worker>>
EndSnapshot(p, i) ==
  /\ \/ Ready(p, "create", i, "copy") /\ mu' = [mu EXCEPT ![i] = None]
     \/ Ready(p, "list", i, "list") /\ mu[i] = None /\ UNCHANGED mu
  /\ admission' = None /\ readers' = [readers EXCEPT ![i] = @ \ {p}] /\ Return(p)
  /\ UNCHANGED <<db, flagVars, snapshotMu, lifecycleMu, writer, worker, owed>>

----------------------------------------------------------------------------
(* initialize, Close and RestoreSnapshotContext.                              *)

InLifecycle(p, i, at) == call[p].op \in LifecycleOps /\ call[p].of = i /\ call[p].at = at

\* beginDBLifecycle: one operation at a time, no new worker, the running one
\* ends, and then the lock, behind the snapshots that still read it.
TakeLifecycle(p, i) ==
  /\ InLifecycle(p, i, "life") /\ lifecycleMu[i] = None
  /\ lifecycleMu' = [lifecycleMu EXCEPT ![i] = p] /\ Goto(p, "closing")
  /\ UNCHANGED <<db, flagVars, snapshotMu, mu, writer, readers, admission, worker, owed>>
BeginClosing(p, i) ==
  /\ InLifecycle(p, i, "closing") /\ snapshotMu[i] = None
  /\ closing' = [closing EXCEPT ![i] = TRUE] /\ Goto(p, "drain")
  /\ owed' = [owed EXCEPT ![i] = FALSE]
  /\ UNCHANGED <<db, running, pending, lockVars, worker>>

\* The mutant takes the lock as soon as no snapshot reads.
NotAwaited(i) == TRUE
\* The condition the operation waits for.
WorkerEnded(i) == ~running[i]

AwaitWorker(p, i) ==
  /\ InLifecycle(p, i, "drain") /\ snapshotMu[i] = None /\ WorkerEnded(i)
  /\ writer' = [writer EXCEPT ![i] = p] /\ Goto(p, "lock")
  /\ UNCHANGED <<db, flagVars, snapshotMu, mu, lifecycleMu, readers, admission, worker, owed>>
Lock(p, i) ==
  /\ InLifecycle(p, i, "lock") /\ readers[i] = {}
  /\ Goto(p, IF call[p].op = "restore" THEN "admission" ELSE "held")
  /\ UNCHANGED <<db, flagVars, lockVars, worker, owed>>

\* The restore is canceled before it has the admission.
RestoreCanceled(p, i) ==
  /\ Ready(p, "restore", i, "admission") /\ Goto(p, "end")
  /\ UNCHANGED <<db, flagVars, lockVars, worker, owed>>

\* With mu: the handle is closed, and opened again unless the operation is a
\* close or fails.  A restore of a closed database is refused.
LockHandle(p, i) ==
  /\ InLifecycle(p, i, "held") \/ Ready(p, "restore", i, "mu")
  /\ mu[i] = None /\ mu' = [mu EXCEPT ![i] = p] /\ Goto(p, "swap")
  /\ UNCHANGED <<db, flagVars, snapshotMu, lifecycleMu, writer, readers, admission, worker, owed>>
SwapHandle(p, i) ==
  /\ InLifecycle(p, i, "swap") /\ mu' = [mu EXCEPT ![i] = None]
  /\ \E result \in {"open", "closed"} :
       /\ call[p].op = "close" => result = "closed"
       /\ call[p].op = "restore" /\ db[i] = "closed" => result = "closed"
       /\ db' = [db EXCEPT ![i] = result]
  /\ admission' = IF admission = p THEN None ELSE admission
  /\ Goto(p, "end")
  /\ UNCHANGED <<flagVars, snapshotMu, lifecycleMu, writer, readers, worker, owed>>

\* endDBLifecycle.
Unlock(p, i) ==
  /\ InLifecycle(p, i, "end") /\ writer' = [writer EXCEPT ![i] = None] /\ Goto(p, "open")
  /\ UNCHANGED <<db, flagVars, snapshotMu, mu, lifecycleMu, readers, admission, worker, owed>>
EndLifecycle(p, i) ==
  /\ InLifecycle(p, i, "open") /\ snapshotMu[i] = None
  /\ closing' = [closing EXCEPT ![i] = FALSE]
  /\ lifecycleMu' = [lifecycleMu EXCEPT ![i] = None] /\ Return(p)
  /\ UNCHANGED <<db, running, pending, snapshotMu, mu, writer, readers, admission, worker, owed>>

----------------------------------------------------------------------------
Request(p, i) ==
  \/ Begin(p, "write", i, "ready")
  \/ \E op \in {"create", "list"} : Begin(p, op, i, "rlock")
  \/ \E op \in LifecycleOps : Begin(p, op, i, "life")

\* A request that has begun goes on without the others' cancellation.
Serve(p, i) ==
  \/ StartAutoSnapshot(p, i) \/ Scheduled(p, i) \/ RLock(p, i) \/ CreateSnapshot(p, i)
  \/ EndSnapshot(p, i) \/ TakeLifecycle(p, i)
  \/ BeginClosing(p, i) \/ AwaitWorker(p, i) \/ Lock(p, i) \/ LockHandle(p, i)
  \/ SwapHandle(p, i) \/ Unlock(p, i) \/ EndLifecycle(p, i)

\* An instance that is not among Instances takes the admission and returns it.
OtherVault ==
  /\ \/ admission = None /\ admission' = Elsewhere
     \/ admission = Elsewhere /\ admission' = None
  /\ UNCHANGED <<db, flagVars, snapshotMu, mu, lifecycleMu, writer, readers, worker, call, owed>>

Next ==
  \/ OtherVault
  \/ \E i \in Instances :
       \/ Worker(i)
       \/ \E p \in Procs :
            \/ Request(p, i) \/ Serve(p, i) \/ Acquire(p, i) \/ Canceled(p, i)
            \/ RestoreCanceled(p, i)

Spec == Init /\ [][Next]_vars

\* Goroutines run; mutexes and the admission's channel serve who waits in turn,
\* and every vault gives the admission back.  No worker is promised it: it asks
\* anew every 100 ms.
Fairness ==
  /\ \A i \in Instances : WF_vars(Worker(i))
  /\ \A p \in Procs : SF_vars(\E i \in Instances : Serve(p, i) \/ Acquire(p, i))
  /\ WF_vars(admission = Elsewhere /\ OtherVault)
LiveSpec == Spec /\ Fairness

----------------------------------------------------------------------------
(* The properties of the open instances.                                      *)

\* A write that asked for a snapshot of an open database gets a copy that begins
\* after it: while it is owed, the goroutine is before its copy or will make the
\* follow-up run (StartAutoSnapshot, runAutoSnapshots).  Only a lifecycle
\* operation drops it.  The goroutine copies, prunes or waits for its turn only on
\* a database that is open and stays so: initialize, Close and
\* RestoreSnapshotContext wait for it, and none starts while one of them runs.
SnapshotOwed ==
  \A i \in Instances :
    /\ owed[i] => running[i] /\ (pending[i] \/ worker[i] \in {"rlock", "first", "retry", "again", "recheck", "mu"})
    /\ worker[i] # "idle" =>
         /\ db[i] = "open"
         /\ \A p \in Procs : ~InLifecycle(p, i, "swap") /\ ~InLifecycle(p, i, "held")

\* A lifecycle operation gets the instance to itself, whatever snapshots are in
\* progress here and whoever holds the process-wide admission (beginDBLifecycle,
\* acquireAutoSnapshotValidation): closing a vault never waits for ever for
\* another vault.
GetsIn(p, i) ==
  InLifecycle(p, i, "drain") ~> ~InLifecycle(p, i, "drain") /\ ~InLifecycle(p, i, "lock")
LifecycleGetsIn == \A p \in Procs, i \in Instances : GetsIn(p, i)
============================================================================
