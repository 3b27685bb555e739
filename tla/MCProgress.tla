----------------------------- MODULE MCProgress -----------------------------
(* What must eventually happen, for TLC: the settling of accepted saves, the  *)
(* closing of a desktop vault and of a database.  The components do not wait  *)
(* for each other here, so a behaviour is of one of them: part says which.    *)
EXTENDS TransactionSaves

CONSTANTS a, b, one, p1, p2, rec1, rec2, db1, Elsewhere

VARIABLES part, up, file, vault, manifest, instance, active, draining, closed, staleLease, appMu,
          staleChoice, at, csv, told, mine, crossed

VARIABLES db, running, pending, stopping, snapshotMu, mu, lifecycleMu, writer, readers, admission,
          keeper, call, owed

desktopVars == <<up, file, vault, manifest, instance, active, draining, closed, staleLease, appMu,
                 staleChoice, at, csv, told, mine, crossed>>
lifecycleVars == <<db, running, pending, stopping, snapshotMu, mu, lifecycleMu, writer, readers,
                   admission, keeper, call, owed>>
suiteVars == <<part, vars, desktopVars, lifecycleVars>>

Desktop == INSTANCE DesktopAccount WITH
    disk <- file, pc <- at, acked <- told, Procs <- {p1, p2}, Passwords <- {one}, Recoveries <- {rec1, rec2}

Lifecycle == INSTANCE InstanceLifecycle WITH
    closing <- stopping, worker <- keeper, Procs <- {p1, p2}, Instances <- {db1}

MCSize == [x \in Contents |-> 1]

SuiteInit ==
    /\ part \in {"saves", "desktop", "lifecycle"}
    /\ Init /\ Desktop!Init /\ Lifecycle!Init

Saves(A)      == part = "saves" /\ A /\ UNCHANGED <<part, desktopVars, lifecycleVars>>
Desktops(A)   == part = "desktop" /\ A /\ UNCHANGED <<part, vars, lifecycleVars>>
Lifecycles(A) == part = "lifecycle" /\ A /\ UNCHANGED <<part, vars, desktopVars>>

SuiteNext == Saves(Next) \/ Desktops(Desktop!Next) \/ Lifecycles(Lifecycle!Next)

\* The fairness of every component in its own behaviours.  The components exclude each other,
\* so fairness to the union of one action of each is fairness to each of them.
SuiteFairness ==
    /\ WF_suiteVars(Saves(WorkerStep) \/ Desktops(Desktop!Finish(p1)) \/ Lifecycles(Lifecycle!Worker(db1)))
    /\ WF_suiteVars(\/ Saves(\E r \in waiting : AnswerTransactionSave(r))
                    \/ Desktops(Desktop!Finish(p2))
                    \/ Lifecycles(admission = Elsewhere /\ Lifecycle!OtherVault))
    /\ WF_suiteVars(Saves(Open \/ RegisterLedgerWorker \/ CloseEnd))
    /\ WF_suiteVars(Saves(\E id \in Ids : TransactionSaveStatus(id)))
    /\ \A p \in {p1, p2} :
         SF_suiteVars(\/ Desktops(Desktop!Lock(p) \/ Desktop!Close(p))
                      \/ Lifecycles(Lifecycle!Serve(p, db1) \/ Lifecycle!Acquire(p, db1)))

SuiteSpec == SuiteInit /\ [][SuiteNext]_suiteVars /\ SuiteFairness

\* Any two of: handlers about to answer, faults, a snapshot.
FewEvents == Cardinality(waiting) + faults + Cardinality(images) <= 2

\* Every accepted save is settled (TransactionSaves).  The ids are interchangeable, so one
\* stands for all of them.
EventuallySettled == Settles(a)

\* Every lock, restore and shutdown of the desktop program ends (DesktopAccount).  The
\* goroutines are interchangeable, so one stands for all of them.
DesktopDrains == Desktop!DrainEnds(p1)

\* Closing a database never waits for ever (InstanceLifecycle), seen from one goroutine.
LifecycleGetsIn == Lifecycle!GetsIn(p1, db1)
=============================================================================
