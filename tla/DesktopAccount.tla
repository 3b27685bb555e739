--------------------------- MODULE DesktopAccount ---------------------------
(* The desktop program's single local account: the coordinator that opens     *)
(* and closes the encrypted vault, the leases the bindings of the user        *)
(* interface borrow from it, and the account manifest on disk.                *)
(*                                                                            *)
(* A process is a goroutine that serves one call of the user interface.       *)
(* App.mu is held for the whole of a set-up, unlock, recovery, change,        *)
(* rotation, lock or restore (appMu names the holder while such a call can    *)
(* wait); the coordinator's own mutex is released only while a call waits     *)
(* for leases and while the database is restored or closed, so everything     *)
(* between two such points is one action.                                     *)
(*                                                                            *)
(* Both programs' counters called "generation" are only ever compared with a  *)
(* value recorded earlier.  staleLease and staleChoice are the processes      *)
(* whose recorded value is no longer the current one.                         *)
(*                                                                            *)
(* A manifest is what its two envelopes open to: the password and the         *)
(* recovery secret.  The data root has no legacy database (DesktopMigration   *)
(* has that case), and a call that authenticates with a wrong secret changes  *)
(* nothing and is left out.                                                   *)
EXTENDS FiniteSets, Integers

CONSTANTS Procs, Passwords, Recoveries, None

VARIABLES
  up,            \* the program runs, with a coordinator
  disk,          \* the manifest file, or None
  vault,         \* "none", "dir": the vaults directory only, "file": the vault
  manifest,      \* c.manifest
  instance,      \* c.instance # nil
  active,        \* c.active
  draining,      \* c.draining
  closed,        \* c.closed
  staleLease,    \* holders of a lease of an earlier c.generation
  appMu,         \* the process holding App.mu across a wait, or None
  staleChoice,   \* CSV calls that recorded an earlier App.generation
  pc,
  csv,           \* the processes serving a CSV call that opened a dialog
  \* What the user knows, and what happened to the ledger meanwhile.
  acked,         \* a set-up has been answered with success
  mine,          \* the passwords the user chose since the last success
  crossed        \* CSV calls whose ledger was locked or replaced meanwhile

diskVars == <<disk, vault, manifest, acked, mine>>
coordVars == <<instance, active, draining, closed, staleLease>>
appVars == <<appMu, staleChoice, csv, crossed>>
vars == <<up, diskVars, coordVars, appVars, pc>>

Manifest == [pw : Passwords, rec : Recoveries]
Leased == {"leased", "using"}
Exclusive == {"restoring", "restoreClose", "lockClose", "closeClose"}
Waiting == {"lock", "lockWait", "restoreWait", "close", "closeWait"}
Pcs == {"idle", "dialog", "copy", "snapshot"} \cup Leased \cup Exclusive \cup Waiting

TypeOK ==
  /\ up \in BOOLEAN /\ instance \in BOOLEAN /\ draining \in BOOLEAN
  /\ closed \in BOOLEAN /\ acked \in BOOLEAN
  /\ disk \in Manifest \cup {None} /\ manifest \in Manifest \cup {None}
  /\ vault \in {"none", "dir", "file"}
  /\ active \in 0..Cardinality(Procs)
  /\ appMu \in Procs \cup {None}
  /\ pc \in [Procs -> Pcs]
  /\ mine \subseteq Passwords
  /\ \A s \in {staleLease, staleChoice, csv, crossed} : s \subseteq Procs

Init ==
  /\ up = FALSE /\ disk = None /\ vault = "none" /\ manifest = None
  /\ instance = FALSE /\ active = 0 /\ draining = FALSE /\ closed = FALSE
  /\ staleLease = {} /\ appMu = None /\ staleChoice = {}
  /\ pc = [p \in Procs |-> "idle"] /\ csv = {}
  /\ acked = FALSE /\ mine = {} /\ crossed = {}

Go(p, l) == pc' = [pc EXCEPT ![p] = l]
Holders == {p \in Procs : pc[p] \in Leased \cup {"snapshot"}}

requireMutableLocked == up /\ ~closed /\ ~draining
requireUnlockedLocked == requireMutableLocked /\ manifest # None /\ instance
Unlocked == instance /\ ~draining /\ ~closed

\* c.generation++ ; App.generation++
NextGeneration == staleLease' = {p \in Procs : pc[p] \in Leased}
NextChoice == staleChoice' = csv
\* The open ledger goes away or is replaced (no code: what the user sees).
Boundary == crossed' = csv

-----------------------------------------------------------------------------
(* The program starts; New refuses a vaults directory without a manifest.     *)
newCoordinator ==
  /\ ~up
  /\ IF disk = None /\ vault # "none"
       THEN UNCHANGED <<up, manifest>>
       ELSE up' = TRUE /\ manifest' = disk
  /\ UNCHANGED <<disk, vault, acked, mine, coordVars, appVars, pc>>

(* The process ends at any moment; what is not on disk is gone.               *)
Down ==
  /\ up' = FALSE /\ manifest' = None
  /\ instance' = FALSE /\ active' = 0 /\ draining' = FALSE /\ closed' = FALSE
  /\ staleLease' = {} /\ appMu' = None /\ staleChoice' = {}
  /\ pc' = [p \in Procs |-> "idle"] /\ csv' = {} /\ crossed' = {}

Crash == up /\ Down /\ UNCHANGED <<disk, vault, acked, mine>>

-----------------------------------------------------------------------------
(* A call that rewrites the manifest to m, choosing password w (or none).     *)
(* writeManifestAtomic can fail before its rename, and, when the directory    *)
(* cannot be synced, after it: the caller then goes on with the old manifest  *)
(* in memory while the new one is on disk.                                    *)
writeManifestAtomic(m, outcome) ==
  disk' = IF outcome = "failed" THEN disk ELSE m

Outcomes == {"ok", "failed", "published"}

(* The user's idea of the password: a failed call leaves both possible.       *)
Chose(w, outcome) == mine' = IF outcome = "ok" THEN {w} ELSE mine \cup {w}

Setup(p) ==
  /\ pc[p] = "idle" /\ appMu = None
  /\ requireMutableLocked /\ manifest = None
  /\ \E w \in Passwords, r \in Recoveries, o \in Outcomes :
       /\ writeManifestAtomic([pw |-> w, rec |-> r], o)
       /\ Chose(w, o)
       /\ IF o = "ok"
            THEN /\ vault' = "file" /\ manifest' = [pw |-> w, rec |-> r]
                 /\ instance' = TRUE /\ acked' = TRUE
                 /\ NextGeneration /\ NextChoice
            ELSE \* openFresh or the manifest failed: cleanupFreshVault
                 /\ vault' = "dir"
                 /\ UNCHANGED <<manifest, instance, acked, staleLease, staleChoice>>
  /\ UNCHANGED <<up, active, draining, closed, appMu, csv, crossed, pc>>

(* The process ends inside Setup, with the vault created and no manifest.     *)
SetupCut(p) ==
  /\ pc[p] = "idle" /\ appMu = None
  /\ requireMutableLocked /\ manifest = None
  /\ vault' = "file" /\ Down /\ UNCHANGED <<disk, acked, mine>>

(* The password the manifest in memory was sealed with is presented; opening  *)
(* fails when the vault file is missing, and may fail anyway.                 *)
Unlock(p) ==
  /\ pc[p] = "idle" /\ appMu = None
  /\ requireMutableLocked /\ manifest # None /\ ~instance
  /\ manifest.pw \in mine /\ vault = "file"
  /\ instance' = TRUE
  /\ NextGeneration /\ NextChoice
  /\ UNCHANGED <<up, diskVars, active, draining, closed, appMu, csv, crossed, pc>>

\* Mutant: cleans up the way a failed set-up does.
RecoverRemoves == vault' = "dir" /\ UNCHANGED <<manifest, instance, staleLease, staleChoice>>

(* What a failed recovery does with the vault it opened: it only closes it.   *)
RecoverFailed == UNCHANGED <<vault, manifest, instance, staleLease, staleChoice>>

(* The secret of the manifest in memory; a fresh one replaces it.             *)
Recover(p) ==
  /\ pc[p] = "idle" /\ appMu = None
  /\ requireMutableLocked /\ manifest # None /\ ~instance
  /\ vault = "file"
  /\ \E w \in Passwords, r \in Recoveries \ {manifest.rec, disk.rec}, o \in Outcomes :
       /\ writeManifestAtomic([pw |-> w, rec |-> r], o)
       /\ Chose(w, o)
       /\ IF o = "ok"
            THEN /\ manifest' = [pw |-> w, rec |-> r] /\ instance' = TRUE
                 /\ NextGeneration /\ NextChoice /\ UNCHANGED vault
            ELSE RecoverFailed
  /\ UNCHANGED <<up, acked, active, draining, closed, appMu, csv, crossed, pc>>

(* ChangePassword keeps the recovery envelope of the manifest in memory.      *)
ChangePassword(p) ==
  /\ pc[p] = "idle" /\ appMu = None
  /\ requireUnlockedLocked /\ manifest.pw \in mine
  /\ \E w \in Passwords, o \in Outcomes :
       LET m == [manifest EXCEPT !.pw = w] IN
       /\ writeManifestAtomic(m, o)
       /\ manifest' = IF o = "ok" THEN m ELSE manifest
       /\ Chose(w, o)
  /\ UNCHANGED <<up, vault, acked, coordVars, appVars, pc>>

(* RotateRecovery keeps its password envelope; the user saved r beforehand.   *)
(* Success makes the password the user has just proved the one on disk.       *)
RotateRecovery(p) ==
  /\ pc[p] = "idle" /\ appMu = None
  /\ requireUnlockedLocked /\ manifest.pw \in mine
  /\ \E r \in Recoveries, o \in Outcomes :
       LET m == [manifest EXCEPT !.rec = r] IN
       /\ writeManifestAtomic(m, o)
       /\ manifest' = IF o = "ok" THEN m ELSE manifest
       /\ Chose(manifest.pw, o)
  /\ UNCHANGED <<up, vault, acked, coordVars, appVars, pc>>

-----------------------------------------------------------------------------
(* Service(): every binding that reads or changes the ledger.                 *)
Service(p) ==
  /\ requireUnlockedLocked
  /\ active' = active + 1
  /\ staleLease' = staleLease \ {p}
  /\ Go(p, "leased")
  /\ UNCHANGED <<instance, draining, closed>>

borrowService(p) ==
  /\ pc[p] = "idle" /\ Service(p)
  /\ UNCHANGED <<up, diskVars, appVars>>

live(p) == ~closed /\ ~draining /\ instance /\ p \notin staleLease

releaseOperation(p) ==
  /\ active' = active - 1
  /\ Go(p, "idle")
  /\ csv' = csv \ {p} /\ staleChoice' = staleChoice \ {p} /\ crossed' = crossed \ {p}

(* Core() and the guard of the operation ask live, then the operation runs.   *)
Core(p) ==
  /\ pc[p] = "leased"
  /\ IF live(p)
       THEN Go(p, "using") /\ UNCHANGED <<active, csv, staleChoice, crossed>>
       ELSE releaseOperation(p)
  /\ UNCHANGED <<up, diskVars, instance, draining, closed, staleLease, appMu>>

(* CreateSnapshot and ListSnapshots.                                          *)
borrowInstance(p) ==
  /\ pc[p] = "idle" /\ requireUnlockedLocked
  /\ active' = active + 1 /\ Go(p, "snapshot")
  /\ UNCHANGED <<up, diskVars, instance, draining, closed, staleLease, appVars>>

Release(p) ==
  /\ pc[p] \in {"using", "snapshot"}
  /\ releaseOperation(p)
  /\ UNCHANGED <<up, diskVars, instance, draining, closed, staleLease, appMu>>

-----------------------------------------------------------------------------
(* BackupToCSVFile and ImportCSVFile hold no lease while the dialog is open;  *)
(* the generation recorded before it is compared after it, and by the import  *)
(* again after the chosen file was copied.                                    *)
OpenDialog(p) ==
  /\ pc[p] = "idle" /\ up /\ appMu = None /\ Unlocked
  /\ csv' = csv \cup {p} /\ Go(p, "dialog")
  /\ UNCHANGED <<up, diskVars, coordVars, appMu, staleChoice, crossed>>

SameSession(p) == p \notin staleChoice /\ Unlocked

EndCSV(p) ==
  /\ csv' = csv \ {p} /\ staleChoice' = staleChoice \ {p} /\ crossed' = crossed \ {p}
  /\ Go(p, "idle") /\ UNCHANGED <<active, staleLease, instance, draining, closed>>

(* The import's first comparison.                                             *)
ImportChosen(p) ==
  /\ pc[p] = "dialog" /\ appMu = None
  /\ \/ SameSession(p) /\ Go(p, "copy") /\ UNCHANGED <<coordVars, appVars>>
     \/ EndCSV(p) /\ UNCHANGED appMu
  /\ UNCHANGED <<up, diskVars>>

(* The comparison before the lease: after the dialog (export) or after the    *)
(* copy (import).  Refused, cancelled and failed calls end here.              *)
TakeChosen(p) ==
  /\ pc[p] \in {"dialog", "copy"} /\ appMu = None
  /\ \/ SameSession(p) /\ Service(p) /\ UNCHANGED appVars
     \/ EndCSV(p) /\ UNCHANGED appMu
  /\ UNCHANGED <<up, diskVars>>

-----------------------------------------------------------------------------
(* RestoreSnapshot, from the drain to the answer.                             *)
RestoreSnapshot(p) ==
  /\ pc[p] = "idle" /\ appMu = None /\ requireUnlockedLocked
  /\ appMu' = p /\ draining' = TRUE /\ Go(p, "restoreWait")
  /\ UNCHANGED <<up, diskVars, instance, active, closed, staleLease, staleChoice, csv, crossed>>

\* Mutant: does not wait.
NotDrained == TRUE

\* for c.active > 0 { c.cond.Wait() }
Drained == active = 0

RestoreDrained(p) ==
  /\ pc[p] = "restoreWait" /\ Drained
  /\ NextGeneration /\ Go(p, "restoring")
  /\ UNCHANGED <<up, diskVars, instance, active, draining, closed, appVars>>

RestoreEnds(p) ==
  /\ pc[p] = "restoring" /\ Boundary
  /\ \/ \* restored
        /\ draining' = FALSE /\ NextChoice /\ appMu' = None /\ Go(p, "idle")
        /\ UNCHANGED <<instance, staleLease>>
     \/ \* failed: locked, and the old instance is closed outside the mutex
        /\ instance' = FALSE /\ NextGeneration /\ Go(p, "restoreClose")
        /\ UNCHANGED <<draining, staleChoice, appMu>>
  /\ UNCHANGED <<up, diskVars, active, closed, csv>>

\* Mutant: a failed restore leaves the coordinator draining.
RestoreClosedKeeps(p) ==
  /\ pc[p] = "restoreClose" /\ appMu' = None /\ Go(p, "idle")
  /\ UNCHANGED <<up, diskVars, coordVars, staleChoice, csv, crossed>>

RestoreClosed(p) ==
  /\ pc[p] = "restoreClose"
  /\ draining' = FALSE /\ appMu' = None /\ Go(p, "idle")
  /\ UNCHANGED <<up, diskVars, instance, active, closed, staleLease, staleChoice, csv, crossed>>

(* LockDesktopVault takes App.mu and calls Lock.                              *)
LockDesktopVault(p) ==
  /\ pc[p] = "idle" /\ up /\ appMu = None
  /\ appMu' = p /\ Go(p, "lock")
  /\ UNCHANGED <<up, diskVars, coordVars, staleChoice, csv, crossed>>

Lock(p) ==
  /\ pc[p] = "lock" /\ ~draining
  /\ IF instance
       THEN draining' = TRUE /\ Go(p, "lockWait") /\ UNCHANGED <<appMu, staleChoice>>
       ELSE appMu' = None /\ NextChoice /\ Go(p, "idle") /\ UNCHANGED draining
  /\ UNCHANGED <<up, diskVars, instance, active, closed, staleLease, csv, crossed>>

(* Lock and Close detach the instance once no lease is left.                  *)
Detach(p, from, to) ==
  /\ pc[p] = from /\ Drained
  /\ instance' = FALSE /\ NextGeneration /\ Boundary /\ Go(p, to)
  /\ UNCHANGED <<up, diskVars, active, draining, closed, appMu, staleChoice, csv>>

(* The instance is closed outside the mutex.  App counts only a lock that     *)
(* succeeded.                                                                 *)
LockClosed(p) ==
  /\ pc[p] = "lockClose"
  /\ draining' = FALSE /\ appMu' = None /\ Go(p, "idle")
  /\ NextChoice \/ UNCHANGED staleChoice
  /\ UNCHANGED <<up, diskVars, instance, active, closed, staleLease, csv, crossed>>

(* shutdown increments App.generation under App.mu and calls Close outside.   *)
shutdown(p) ==
  /\ pc[p] = "idle" /\ up /\ appMu = None /\ ~closed
  /\ \A q \in Procs : pc[q] \notin {"close", "closeWait", "closeClose"}
  /\ NextChoice /\ Go(p, "close")
  /\ UNCHANGED <<up, diskVars, coordVars, appMu, csv, crossed>>

Close(p) ==
  /\ pc[p] = "close" /\ ~draining
  /\ closed' = TRUE
  /\ draining' = instance
  /\ Go(p, IF instance THEN "closeWait" ELSE "idle")
  /\ UNCHANGED <<up, diskVars, instance, active, staleLease, appVars>>

CloseClosed(p) ==
  /\ pc[p] = "closeClose"
  /\ draining' = FALSE /\ Go(p, "idle")
  /\ UNCHANGED <<up, diskVars, instance, active, closed, staleLease, appVars>>

-----------------------------------------------------------------------------
Account(p) == Setup(p) \/ Unlock(p) \/ Recover(p) \/ ChangePassword(p) \/ RotateRecovery(p)
Lease(p) == borrowService(p) \/ borrowInstance(p) \/ OpenDialog(p) \/ ImportChosen(p) \/ TakeChosen(p)
Begin(p) == RestoreSnapshot(p) \/ LockDesktopVault(p) \/ shutdown(p)
Finish(p) ==
  \/ Core(p) \/ Release(p)
  \/ RestoreDrained(p) \/ RestoreEnds(p) \/ RestoreClosed(p)
  \/ Detach(p, "lockWait", "lockClose") \/ LockClosed(p)
  \/ Detach(p, "closeWait", "closeClose") \/ CloseClosed(p)

Next ==
  \/ newCoordinator \/ Crash
  \/ \E p \in Procs : \/ Account(p) \/ SetupCut(p) \/ Lease(p) \/ Begin(p) \/ Finish(p)
                      \/ Lock(p) \/ Close(p)

(* An operation on the ledger ends, and so do a restore and the closing of a  *)
(* database.  A goroutine woken by the end of a drain gets the mutex in the   *)
(* end, although other drains may follow (Go's mutex serves its waiters).     *)
Fairness == \A p \in Procs : WF_vars(Finish(p)) /\ SF_vars(Lock(p) \/ Close(p))

Spec == Init /\ [][Next]_vars
LiveSpec == Spec /\ Fairness
-----------------------------------------------------------------------------
(* While an operation or a snapshot runs, the database is open, is the one    *)
(* its lease was given for, and is neither being restored nor being closed;   *)
(* the count of leases is exact, so the last one ends the wait.  A file or    *)
(* directory chosen in a dialog is used only on the ledger that was open when *)
(* the dialog appeared: not after a lock, a reopening, a restore or a failed  *)
(* restore in between, whatever the order of the answers.                     *)
DesktopLeases ==
  /\ active = Cardinality(Holders)
  /\ Holders # {} => instance /\ \A q \in Procs : pc[q] \notin Exclusive
  /\ Holders \cap staleLease = {}
  /\ \A p \in csv : pc[p] \in Leased => p \notin crossed

(* Once a set-up has been answered, the vault stays and one of the passwords  *)
(* the user knows of opens it, in this program and after a restart, also when *)
(* a change, a recovery or a rotation failed half-way.                        *)
DesktopWayIn ==
  acked => /\ disk # None /\ disk.pw \in mine /\ vault = "file"
           /\ up => manifest # None /\ manifest.pw \in mine

(* Every lock, restore and shutdown that has begun ends.                      *)
DrainEnds(p) == pc[p] \in Waiting \cup Exclusive ~> pc[p] = "idle"
DesktopDrains == \A p \in Procs : DrainEnds(p)
=============================================================================
