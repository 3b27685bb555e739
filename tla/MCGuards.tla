------------------------------ MODULE MCGuards ------------------------------
(* Components that guard an account or a database inside one process, for     *)
(* TLC: the limits on logins, the desktop account, the locks around an open   *)
(* database, and the AI clients' transactions and audit.  They share no state,*)
(* so a behaviour is of one of them: part says which.                         *)
EXTENDS LoginLimits, TLC

CONSTANTS None, Elsewhere, db1, one, two, rec1, rec2, rec3, agent, key1, key2, here, there

VARIABLES part

VARIABLES up, disk, vault, manifest, instance, active, draining, closed, staleLease, appMu,
          staleChoice, pc, csv, acked, mine, crossed

VARIABLES db, running, pending, closing, snapshotMu, mu, lifecycleMu, writer, readers, admission,
          worker, call, owed

VARIABLES day, idem, usage, ledger, seq, adding, created, answers

VARIABLES clock, windows, details, overflow, lastSweep, req, arrivals, reported, refused

desktopVars == <<up, disk, vault, manifest, instance, active, draining, closed, staleLease, appMu,
                 staleChoice, pc, csv, acked, mine, crossed>>
lifecycleVars == <<db, running, pending, closing, snapshotMu, mu, lifecycleMu, writer, readers,
                   admission, worker, call, owed>>
aiVars == <<day, idem, usage, ledger, seq, adding, created, answers>>
gatewayVars == <<clock, windows, details, overflow, lastSweep, req, arrivals, reported, refused>>
suiteVars == <<part, vars, desktopVars, lifecycleVars, aiVars, gatewayVars>>

Desktop == INSTANCE DesktopAccount WITH Passwords <- {one, two}, Recoveries <- {rec1, rec2, rec3}

Lifecycle == INSTANCE InstanceLifecycle WITH Instances <- {db1}

AI == INSTANCE AITransactions WITH
    call <- adding, Credentials <- {agent}, Keys <- {key1, key2}, Contents <- {one, two},
    Forms <- {here, there}, MaxTransactionsPerDay <- 1, MaxDay <- 1, MaxId <- 3

Gateway == INSTANCE AIGateway WITH
    now <- clock, Addresses <- {here, there}, Credentials <- {agent}, FailedLimit <- 1,
    RequestLimit <- 1, MaxWindows <- 2, MaxDetailed <- 1, Window <- 1, MaxTime <- 2,
    MaxArrivals <- 3

SuiteInit ==
    /\ part \in {"limits", "desktop", "lifecycle", "ai", "gateway"}
    /\ Init /\ Desktop!Init /\ Lifecycle!Init /\ AI!Init /\ Gateway!Init

Limits ==
    part = "limits" /\ Next /\ UNCHANGED <<part, desktopVars, lifecycleVars, aiVars, gatewayVars>>
DesktopStep ==
    part = "desktop" /\ Desktop!Next /\ UNCHANGED <<part, vars, lifecycleVars, aiVars, gatewayVars>>
LifecycleStep ==
    part = "lifecycle" /\ Lifecycle!Next /\ UNCHANGED <<part, vars, desktopVars, aiVars, gatewayVars>>
AIStep ==
    part = "ai" /\ AI!Next /\ UNCHANGED <<part, vars, desktopVars, lifecycleVars, gatewayVars>>
GatewayStep ==
    part = "gateway" /\ Gateway!Next /\ UNCHANGED <<part, vars, desktopVars, lifecycleVars, aiVars>>

\* The bounds on time and arrivals end these two.
Bounded == part \in {"limits", "gateway"} /\ UNCHANGED suiteVars

SuiteNext == Limits \/ DesktopStep \/ LifecycleStep \/ AIStep \/ GatewayStep \/ Bounded

SuiteSpec == SuiteInit /\ [][SuiteNext]_suiteVars

\* Goroutines are interchangeable in every component.
Symmetric == Permutations(Procs)

\* Operations run on the open database their lease, and their user's choice, is for
\* (DesktopAccount).
DesktopLeases == Desktop!DesktopLeases

\* A password the user knows of opens the vault (DesktopAccount).
DesktopWayIn == Desktop!DesktopWayIn

\* A write is followed by a snapshot that begins after it, of an open database
\* (InstanceLifecycle).
SnapshotOwed == Lifecycle!SnapshotOwed

\* A key adds one transaction, and the quota counts it (AITransactions).
AIOnce == AI!AIOnce

\* No refusal is lost to the audit (AIGateway).
AuditAccounts == Gateway!AuditAccounts
=============================================================================
