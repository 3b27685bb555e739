--------------------------- MODULE RestoreJournal ---------------------------
(***************************************************************************)
(* RestoreSnapshotContext and recoverRestoreState of database.go: the      *)
(* files beside a vault database while a snapshot takes its place, under   *)
(* a process or power failure at every step and an I/O error in every one. *)
(*                                                                         *)
(* A directory operation is certain to survive only once the directory is  *)
(* synced: crash is the set of directories a failure may leave.  A file is *)
(* synced before the journal names it, and only the live file and what the *)
(* journal names are ever read, so those are complete.  The instance lock  *)
(* is held throughout: nothing else uses the files.  POSIX rename.         *)
(***************************************************************************)
EXTENDS Naturals, FiniteSets

CONSTANTS
    Data,      \* ledger contents
    None,
    Marked     \* those of databases with the identity marker

ASSUME DataAssumption == None \notin Data /\ Data # {}
ASSUME MarkedAssumption == Marked \subseteq Data
ASSUME NoneAssumption == None \notin [data : Data, same : BOOLEAN]

VARIABLES
    fs,      \* the directory: the live file, the two restore artifacts, the journal
    crash,   \* what a failure may leave of it
    pc,
    before,  \* the ledger when the restore began
    target,  \* the ledger of the snapshot it restores
    answer   \* the last restore's answer

vars == <<fs, crash, pc, before, target, answer>>

(* same: the file has the bytes whose digest the journal holds.  The digests *)
(* are taken of the backup and the candidate when the journal is written.    *)
Image     == [data : Data, same : BOOLEAN]
Directory == [live : Image \cup {None}, backup : Image \cup {None},
              candidate : Image \cup {None}, manifest : {"none", "prepared", "swapped"}]
Fresh(d)  == [data |-> d, same |-> TRUE]

Init ==
    /\ \E d \in Data : /\ fs = [live |-> Fresh(d), backup |-> None, candidate |-> None, manifest |-> "none"]
                       /\ before = d /\ target = d
    /\ crash = {fs}
    /\ pc = "closed"
    /\ answer = "none"

Synced(f)   == fs' = f /\ crash' = {f}
Unsynced(f) == fs' = f /\ crash' = crash \cup {f}

\* createTablesOn writes application_id again in a database that has the identity
\* marker, and page 1 changes; in one without it nothing does.
Rewritten(img) == IF img.data \in Marked THEN [img EXCEPT !.same = FALSE] ELSE img

\* validateRestoreDatabase and the checkpoint; a file that is there is valid.
Validated(img) == Rewritten(img)

-----------------------------------------------------------------------------
(* RestoreSnapshotContext                                                    *)

\* An error ends the restore and its caller closes the instance.
Fail(f) ==
    /\ Unsynced(f)
    /\ pc' = "closed"
    /\ answer' = "error"
    /\ UNCHANGED <<before, target>>

Drop(file) == [fs EXCEPT ![file] = None]

\* What a user saves is a change no journal has a digest of.  The first commit
\* creates the write-ahead log, whose directory entry SQLite syncs.
Write ==
    /\ pc = "open"
    /\ Synced([fs EXCEPT !.live.same = FALSE])
    /\ UNCHANGED <<pc, before, target, answer>>

\* The candidate is copied, validated, migrated and synced while the vault serves.
PrepareCandidate(d) ==
    /\ pc = "open"
    /\ \/ Synced([fs EXCEPT !.candidate = Fresh(d)]) /\ pc' = "candidate" /\ answer' = "none"
       \/ UNCHANGED <<fs, crash>> /\ pc' = "closed" /\ answer' = "error"
    /\ before' = fs.live.data
    /\ target' = d

\* Checkpoint, close, remove the sidecars.
CloseLive ==
    /\ pc = "candidate"
    /\ \/ pc' = "liveClosed" /\ UNCHANGED <<fs, crash, before, target, answer>>
       \/ Fail(Drop("candidate"))

CopyBackup ==
    /\ pc = "liveClosed"
    /\ LET copied == [fs EXCEPT !.backup = fs.live]
       IN \/ Synced(copied) /\ pc' = "backedUp" /\ UNCHANGED <<before, target, answer>>
          \/ Fail(Drop("candidate"))
          \/ Fail([copied EXCEPT !.candidate = None])

StaleDigests == [fs EXCEPT !.manifest = "prepared"]

\* The journal binds the digests of backup (that is, of live) and candidate.
Journaled == [fs EXCEPT !.manifest = "prepared", !.live.same = TRUE, !.backup.same = TRUE]

WritePrepared ==
    /\ pc = "backedUp"
    /\ \/ Synced(Journaled) /\ pc' = "journaled" /\ UNCHANGED <<before, target, answer>>
       \/ Fail(Drop("candidate"))
       \/ Fail([Journaled EXCEPT !.candidate = None])

UnlinkThenRename ==
    /\ pc = "journaled"
    /\ fs' = [fs EXCEPT !.live = fs.candidate, !.candidate = None]
    /\ crash' = crash \cup {Drop("live"), fs'}
    /\ pc' = "replaced"
    /\ UNCHANGED <<before, target, answer>>

\* rename(2) over the live name.
Replace ==
    /\ pc = "journaled"
    /\ \/ /\ Unsynced([fs EXCEPT !.live = fs.candidate, !.candidate = None])
          /\ pc' = "replaced"
          /\ UNCHANGED <<before, target, answer>>
       \/ Fail(Drop("candidate"))

\* A failure after the replacement goes to rollbackRestoreFilesExpected.
OrRollback(next) ==
    /\ pc' \in {next, "rollback"}
    /\ UNCHANGED <<before, target, answer>>

SyncReplaced ==
    /\ pc = "replaced"
    /\ \/ Synced(fs) /\ OrRollback("installed")
       \/ UNCHANGED <<fs, crash>> /\ pc' = "rollback" /\ UNCHANGED <<before, target, answer>>

WriteSwapped ==
    /\ pc = "installed"
    /\ LET swapped == [fs EXCEPT !.manifest = "swapped"]
       IN \/ Synced(swapped) /\ pc' = "swapped"
          \/ Unsynced(swapped) /\ pc' = "rollback"
          \/ UNCHANGED <<fs, crash>> /\ pc' = "rollback"
    /\ UNCHANGED <<before, target, answer>>

ValidateLive ==
    /\ pc = "swapped"
    /\ Synced([fs EXCEPT !.live = Validated(@)])
    /\ OrRollback("validated")

Reopen ==
    /\ pc = "validated"
    /\ OrRollback("reopened")
    /\ UNCHANGED <<fs, crash>>

\* removeRestoreBackup: unlink and sync.
BackupRemoved == Synced(Drop("backup"))

\* Closing the instance checkpoints what the second validation wrote.
RemoveBackup ==
    /\ pc = "reopened"
    /\ \/ BackupRemoved /\ pc' = "cleaned" /\ UNCHANGED <<before, target, answer>>
       \/ Fail([fs EXCEPT !.live = Validated(@)])
       \/ Fail([Drop("backup") EXCEPT !.live = Validated(@)])

\* removeRestoreManifest: unlink and sync.
ManifestRemoved == Synced([fs EXCEPT !.manifest = "none"])

RemoveManifest ==
    /\ pc = "cleaned"
    /\ \/ ManifestRemoved /\ pc' = "open" /\ answer' = "ok" /\ UNCHANGED <<before, target>>
       \/ Fail([fs EXCEPT !.live = Validated(@)])
       \/ Fail([fs EXCEPT !.live = Validated(@), !.manifest = "none"])

\* The backup is trusted only with the digest it was prepared with.
TrustedBackup == fs.backup # None /\ fs.backup.same

Rollback ==
    /\ pc = "rollback"
    /\ \/ /\ TrustedBackup
          /\ Unsynced([fs EXCEPT !.live = fs.backup, !.backup = None])
          /\ pc' = "rolledBack"
          /\ UNCHANGED <<before, target, answer>>
       \/ Fail(fs)

\* Sync, reopen and check, remove what is left of the candidate, then the journal.
FinishRollback ==
    /\ pc = "rolledBack"
    /\ LET back == [fs EXCEPT !.live = Validated(@)]
       IN /\ \/ Unsynced(fs)
             \/ Synced(back)
             \/ fs' = [back EXCEPT !.manifest = "none"] /\ crash' \in {{fs'}, {back, fs'}}
          /\ pc' = "closed"
          /\ answer' = "error"
          /\ UNCHANGED <<before, target>>

-----------------------------------------------------------------------------
(* recoverRestoreState, before every open                                    *)

Artifacts == {file \in {"backup", "candidate"} : fs[file] # None}

\* The live file is one of the journaled images, or there is no journal.
LiveWins == fs.live # None /\ (fs.manifest # "none" => fs.live.same)

\* recoveryFile: an artifact has the digest the journal, if there is one, gives it.
Trusted == {file \in Artifacts : fs.manifest # "none" => fs[file].same}

OpenClean ==
    /\ pc = "closed"
    /\ fs.manifest = "none" /\ Artifacts = {}
    /\ pc' = "open"
    /\ IF fs.live.data \in Marked THEN Synced([fs EXCEPT !.live = Validated(@)]) ELSE UNCHANGED <<fs, crash>>
    /\ UNCHANGED <<before, target, answer>>

RecoverLive ==
    /\ pc = "closed"
    /\ fs.manifest # "none" \/ Artifacts # {}
    /\ LiveWins
    /\ Synced([fs EXCEPT !.live = Validated(@)])
    /\ pc' = "recovered"
    /\ UNCHANGED <<before, target, answer>>

\* The live file cannot be read or validated this time, perhaps after it was written to,
\* and counts as missing.
DoubtLive ==
    /\ pc = "closed"
    /\ fs.manifest # "none" \/ Artifacts # {}
    /\ LiveWins
    /\ Unsynced(fs) \/ Unsynced([fs EXCEPT !.live = Validated(@)])
    /\ pc' = "doubted"
    /\ UNCHANGED <<before, target, answer>>

\* Exactly one journaled image may take the place of a live file that is neither, or
\* that counts as missing.
RecoverArtifact ==
    /\ (pc = "closed" /\ ~LiveWins) \/ pc = "doubted"
    /\ fs.manifest # "none"
    /\ Cardinality(Artifacts) = 1 /\ Artifacts \subseteq Trusted
    /\ \E file \in Artifacts : Unsynced([fs EXCEPT !.live = fs[file], ![file] = None])
    /\ pc' = "placed"
    /\ UNCHANGED <<before, target, answer>>

RecoverPlaced ==
    /\ pc = "placed"
    /\ Synced([fs EXCEPT !.live = Validated(@)])
    /\ pc' = "recovered"
    /\ UNCHANGED <<before, target, answer>>

\* The backup, the candidate, then the journal, each with a sync that may fail.
Cleaned ==
    IF "backup" \in Artifacts THEN Drop("backup")
    ELSE IF "candidate" \in Artifacts THEN Drop("candidate")
    ELSE [fs EXCEPT !.manifest = "none"]

RecoverCleans ==
    /\ pc = "recovered"
    /\ Artifacts \subseteq Trusted
    /\ \/ Synced(Cleaned) /\ pc' = (IF Artifacts = {} THEN "open" ELSE pc)
       \/ Unsynced(Cleaned) /\ pc' = "closed"
    /\ UNCHANGED <<before, target, answer>>

\* Any other error of the recovery, which without a live file is also that there is no
\* image, or two: the open fails, and the next one reads the live file again.
RecoveryError ==
    /\ pc \in {"doubted", "placed", "recovered"}
    /\ pc' = "closed"
    /\ UNCHANGED <<fs, crash, before, target, answer>>

\* No image, two, or one with other bytes: the error keeps the vault closed.
Refuse ==
    /\ pc = "closed"
    /\ ~LiveWins
    /\ fs.manifest = "none" \/ Cardinality(Artifacts) # 1 \/ Trusted # Artifacts
    /\ pc' = "refused"
    /\ UNCHANGED <<fs, crash, before, target, answer>>

Retry ==
    /\ pc = "refused"
    /\ pc' = "closed"
    /\ UNCHANGED <<fs, crash, before, target, answer>>

\* A failure of the process or the machine.  The process may be down or the vault
\* only locked at "closed".
Crash ==
    /\ fs' \in crash
    /\ crash' = {fs'}
    /\ pc' = "closed"
    /\ UNCHANGED <<before, target, answer>>

-----------------------------------------------------------------------------

Next ==
    \/ Write \/ \E d \in Data : PrepareCandidate(d)
    \/ CloseLive \/ CopyBackup \/ WritePrepared \/ Replace \/ SyncReplaced \/ WriteSwapped
    \/ ValidateLive \/ Reopen \/ RemoveBackup \/ RemoveManifest \/ Rollback \/ FinishRollback
    \/ OpenClean \/ RecoverLive \/ DoubtLive \/ RecoverArtifact \/ RecoverPlaced \/ RecoverCleans
    \/ RecoveryError \/ Refuse \/ Retry \/ Crash

Spec == Init /\ [][Next]_vars

-----------------------------------------------------------------------------

\* Every variable keeps the type its declaration above gives it.
TypeOK ==
    /\ fs \in Directory
    /\ crash \subseteq Directory
    /\ pc \in {"closed", "open", "candidate", "liveClosed", "backedUp", "journaled", "replaced",
               "installed", "swapped", "validated", "reopened", "cleaned", "rollback",
               "rolledBack", "recovered", "doubted", "placed", "refused"}
    /\ before \in Data /\ target \in Data
    /\ answer \in {"none", "ok", "error"}

\* Before the new ledger is validated in its place.
Unvalidated == {"candidate", "liveClosed", "backedUp", "journaled", "replaced", "installed",
                "swapped", "validated", "rollback", "rolledBack"}

\* A restore happens or does not: whatever a failure at any point leaves, the live
\* name holds the complete ledger from before the restore or that of the snapshot.  The old
\* ledger is on disk, live or as the journaled backup, until the new one is validated in its
\* place.  A restore that was answered with success is final: no failure brings the old ledger
\* back, and once users have changed the new one no failure brings back a journal that would
\* set their work aside.
RestoreAtomic ==
    /\ \A f \in crash : f.live # None /\ f.live.data \in {before, target}
    /\ pc \in Unvalidated => \A f \in crash :
           \/ f.live.data = before
           \/ f.manifest # "none" /\ f.backup # None /\ f.backup.data = before
    /\ answer = "ok" => \A f \in crash : f.live.data = target /\ f.manifest = "none" /\ f.backup = None
    /\ pc \in {"open", "candidate"} /\ ~fs.live.same => \A f \in crash : f.manifest = "none"

\* A vault without the marker can be opened again after every failure: the recovery
\* never has to refuse ("A durable, valid live image wins regardless of which side of the rename
\* boundary was recorded").
OpensAgain == {before, target} \cap Marked = {} => pc # "refused"

\* Once the new database is published, a journal that stays behind accepts it: "Keep the
\* durable intent journal so the next startup can verify that state and retry its
\* cleanup" (RestoreSnapshotContext, where removing the journal fails).
PublishedIsVerifiable ==
    pc = "cleaned" => \A f \in crash : f.manifest # "none" => f.live.same

=============================================================================
