------------------------- MODULE DesktopMigration -------------------------
(***************************************************************************)
(* The migration of a desktop data root from plaintext SQLite databases to *)
(* an encrypted vault (desktopaccount/migration.go and                     *)
(* securedb/copy_migration.go): every database file is archived, encrypted *)
(* from the archive, moved to a quarantine and deleted, under a journal    *)
(* that is rewritten at every boundary.  The process may stop or fail at   *)
(* every step and is started again; an older version of the program may    *)
(* still be writing to the plaintext files.                                *)
(*                                                                         *)
(* A file is the version of its content, 0 when it is absent.  A journal   *)
(* or manifest write is atomic (a temporary file, synced and renamed).     *)
(* The password is the one the journal was made with: another one is       *)
(* refused before anything changes.  The root lock is held throughout.     *)
(***************************************************************************)
EXTENDS Naturals, FiniteSetsExt

CONSTANTS
    Owner,      \* the database each legacy file belongs to, in the journal's order
    None,
    MaxWrites   \* bound on the writes of the older program

VARIABLES
    source, archive, quarantine,  \* the plaintext file, its work copy, its quarantine
    dest,                         \* what the encrypted database holds of it
    same,                         \* a source that is the same file as its quarantine
    temp,                         \* an incomplete work copy
    stage,                        \* databases whose plaintext staging directory is there
    journal, manifest,
    found,                        \* fingerprints taken for a new journal
    pc, k, then,                  \* the step, its file or database, what follows the verification
    owed, writes                  \* contents of each file that must not be lost, and the writes

files  == <<source, archive, quarantine, dest, same>>
work   == <<temp, stage>>
record == <<journal, manifest>>
legacy == <<owed, writes>>
vars   == <<files, work, record, found, pc, k, then, legacy>>

Members   == DOMAIN Owner
Databases == {Owner[m] : m \in Members}
Of(d)     == {m \in Members : Owner[m] = d}
Main(d)   == Min(Of(d))
Phases    == {"copying", "published", "cleanup", "delivery"}
Absent    == [m \in Members |-> 0]

Init ==
    /\ source = [m \in Members |-> 1] /\ owed = [m \in Members |-> {1}] /\ writes = 0
    /\ archive = Absent /\ quarantine = Absent /\ dest = Absent /\ same = {}
    /\ temp = FALSE /\ stage = {} /\ journal = None /\ manifest = FALSE
    /\ found = Absent /\ pc = "down" /\ k = 0 /\ then = "none"

NewJournal(prints) ==
    [phase |-> "copying", print |-> prints, copied |-> {},
     archived |-> {}, quarantined |-> {}, deleted |-> {}, archiveDeleted |-> {}]

-----------------------------------------------------------------------------
(* What New and every call check before they trust the directory             *)

PresentOnly(file, m) == file[m] # 0

Intact(file, m) == file[m] = journal.print[m]

\* The marks of a file follow one another, and a phase follows the marks.
validate(j) ==
    /\ \A m \in Members :
        /\ Owner[m] \in j.copied => m \in j.archived
        /\ m \in j.quarantined => m \in j.archived /\ Owner[m] \in j.copied
        /\ m \in j.deleted => m \in j.quarantined
        /\ m \in j.archiveDeleted => m \in j.archived /\ m \in j.deleted /\ Owner[m] \in j.copied
    /\ j.phase # "copying" => j.copied = Databases
    /\ j.phase = "delivery" => j.deleted = Members /\ j.archiveDeleted = Members

matchPublishedManifest == manifest \/ journal.phase = "copying"

ArchiveMustStay(m) == FALSE

ArchiveMayBeGone(m) == journal.phase = "cleanup" /\ Owner[m] \in journal.copied

validateFilesystem ==
    /\ \A d \in journal.copied : dest[Main(d)] # 0
    /\ \A m \in Members :
        /\ m \in journal.archived \ journal.archiveDeleted =>
               Intact(archive, m) \/ (archive[m] = 0 /\ ArchiveMayBeGone(m))
        /\ m \in journal.archiveDeleted => archive[m] = 0
        /\ IF m \in journal.deleted THEN source[m] = 0 /\ quarantine[m] = 0
           ELSE IF m \in journal.quarantined THEN source[m] = 0 /\ (quarantine[m] = 0 \/ Intact(quarantine, m))
           ELSE IF source[m] # 0 THEN Intact(source, m)
           ELSE Intact(quarantine, m)

validateKnownMigrationTree ==
    /\ \A m \in Members :
        /\ source[m] # 0 => m \notin journal.quarantined \cup journal.deleted
        /\ quarantine[m] # 0 => m \notin journal.deleted /\ journal.phase # "delivery"
        /\ archive[m] # 0 => m \notin journal.archiveDeleted /\ journal.phase # "delivery"
    /\ temp => journal.phase # "delivery"

NoPlaintext == source = Absent /\ quarantine = Absent /\ archive = Absent

\* New and refreshMigrationStateLocked accept what they find.
Startable ==
    IF journal # None THEN validate(journal) /\ matchPublishedManifest /\ validateFilesystem /\ validateKnownMigrationTree
    ELSE IF manifest THEN NoPlaintext
    ELSE source[1] # 0 \/ (source = Absent /\ dest = Absent)

-----------------------------------------------------------------------------
(* The control of a call                                                     *)

Goto(p, i)    == pc' = p /\ k' = i /\ UNCHANGED then
Answer        == Goto("ready", 0)
Verify(next)  == pc' = "verify" /\ k' = 1 /\ then' = next
After(p, q)   == IF k + 1 \in Members THEN Goto(p, k + 1) ELSE q
Write(j)      == validate(j) /\ journal' = j /\ UNCHANGED <<files, work, manifest, found, legacy>>
Reading       == UNCHANGED <<files, work, record, found, legacy>>
Stage(s)      == stage' = s /\ UNCHANGED <<files, temp, record, found, legacy>>

\* What the current step verifies; the call returns an error otherwise.
Check ==
    CASE pc = "archive"    -> IF k \in journal.archived THEN Intact(archive, k)
                              ELSE Intact(source, k) /\ (archive[k] = 0 \/ Intact(archive, k))
      [] pc = "archived"   -> Intact(archive, k) /\ \A m \in Of(Owner[k]) : m <= k => Intact(source, m)
      [] pc = "recheck"    -> \A m \in Of(k) : Intact(source, m)
      [] pc = "comparing"  -> \A m \in Of(k) : dest[m] = archive[m]
      [] pc = "verify"     -> dest[Main(k)] # 0 /\ (then \in {"manifest", "cleanup"} => \A m \in Of(k) : archive[m] # 0)
      [] pc = "verifying"  -> \A m \in Of(k) : dest[m] = archive[m]
      [] pc = "quarantine" -> \/ k \in journal.quarantined
                              \/ source[k] # 0 /\ quarantine[k] # 0 /\ k \in same
                              \/ quarantine[k] = 0 /\ source[k] # 0 /\ Intact(source, k)
                              \/ source[k] = 0 /\ Intact(quarantine, k)
      [] pc = "renamed"    -> Intact(quarantine, k)
      [] pc = "delete"     -> k \in journal.deleted \/ (source[k] = 0 /\ (quarantine[k] = 0 \/ Intact(quarantine, k)))
      [] pc = "tidy"       -> ~temp /\ NoPlaintext
      [] OTHER             -> TRUE

At(p) == pc = p /\ Check

\* New: the coordinator of a starting program, or an error and no program.
New == pc = "down" /\ (IF Startable THEN Answer ELSE Goto("down", 0)) /\ Reading

Resume(phase) ==
    CASE phase = "copying"   -> Goto("archive", 1)
      [] phase = "published" -> Verify("cleanup")
      [] phase = "cleanup"   -> Verify("clean")
      [] phase = "delivery"  -> Verify("open")

\* MigrateLegacy up to the phase it resumes: temporary files go first.
MigrateLegacy ==
    /\ pc = "ready" /\ Startable
    /\ IF journal = None THEN ~manifest /\ source[1] # 0 /\ Goto("discover", 1)
       ELSE Resume(journal.phase)
    /\ temp' = FALSE
    /\ UNCHANGED <<files, stage, record, found, legacy>>

-----------------------------------------------------------------------------
(* createMigrationLocked and resumeCopiesLocked                              *)

discoverMigrationArtifacts ==
    /\ At("discover") /\ source[k] # 0
    /\ found' = [found EXCEPT ![k] = source[k]]
    /\ After("discover", Goto("create", 0))
    /\ UNCHANGED <<files, work, record, legacy>>

createMigrationLocked ==
    /\ At("create") /\ Goto("archive", 1)
    /\ journal' = NewJournal(found) /\ found' = Absent
    /\ UNCHANGED <<files, work, manifest, legacy>>

\* The database whose last file has been archived is copied before the next one is archived.
MemberArchived == IF k = Max(Of(Owner[k])) THEN Goto("recheck", Owner[k]) ELSE Goto("archive", k + 1)

ArchiveMember ==
    /\ At("archive")
    /\ \/ k \in journal.archived /\ MemberArchived /\ UNCHANGED temp
       \/ k \notin journal.archived /\ archive[k] # 0 /\ Goto("mark", k) /\ UNCHANGED temp
       \/ k \notin journal.archived /\ archive[k] = 0 /\ Goto("copyFile", k) /\ temp' = TRUE
    /\ UNCHANGED <<files, stage, record, found, legacy>>

copyRegularFileDurable ==
    /\ At("copyFile") /\ Goto("archived", k)
    /\ archive' = [archive EXCEPT ![k] = source[k]] /\ temp' = FALSE
    /\ UNCHANGED <<source, quarantine, dest, same, stage, record, found, legacy>>

ArchiveVerified == At("archived") /\ Goto("mark", k) /\ Reading

MarkArchived == At("mark") /\ Write([journal EXCEPT !.archived = @ \cup {k}]) /\ MemberArchived

\* A destination that is already there is compared with the archive.
RecheckSources ==
    /\ At("recheck")
    /\ Goto(IF dest[Main(k)] # 0 THEN "compare" ELSE "encrypt", k)
    /\ Reading

prepareMigrationStage ==
    /\ pc \in {"encrypt", "compare"}
    /\ Stage(stage \cup {k})
    /\ Goto(IF pc = "encrypt" THEN "copying" ELSE "comparing", k)

\* CopyPlaintextToEncrypted: publication is the link of the verified staging file.
CopyPlaintextToEncrypted ==
    /\ At("copying") /\ Goto("linked", k)
    /\ dest' = [m \in Members |-> IF Owner[m] = k THEN archive[m] ELSE dest[m]]
    /\ UNCHANGED <<source, archive, quarantine, same, work, record, found, legacy>>

DatabaseCopied == IF k + 1 \in Databases THEN Goto("archive", Main(k + 1)) ELSE Verify("manifest")

cleanupMigrationStage ==
    /\ At("linked") \/ At("comparing")
    /\ Stage(stage \ {k})
    /\ IF k \in journal.copied THEN DatabaseCopied ELSE Goto("copied", k)

MarkCopied == At("copied") /\ Write([journal EXCEPT !.copied = @ \cup {k}]) /\ DatabaseCopied

-----------------------------------------------------------------------------
(* verifyMigrationDestinationsLocked, and the phases it separates            *)

ArchiveAvailable(d) == \A m \in Of(d) : archive[m] # 0

DatabaseVerified == IF k + 1 \in Databases THEN Goto("verify", k + 1) ELSE Goto(then, 0)

VerifyDestination ==
    /\ At("verify")
    /\ \/ ArchiveAvailable(k) /\ Stage(stage \cup {k}) /\ Goto("verifying", k)
       \/ ~ArchiveAvailable(k) /\ Reading /\ DatabaseVerified

VerifyPlaintextMatchesEncrypted == At("verifying") /\ Stage(stage \ {k}) /\ DatabaseVerified

writeManifestAtomic ==
    /\ At("manifest") /\ Goto("published", 0)
    /\ manifest' = TRUE
    /\ UNCHANGED <<files, work, journal, found, legacy>>

PhasePublished == At("published") /\ Write([journal EXCEPT !.phase = "published"]) /\ Verify("cleanup")
PhaseCleanup   == At("cleanup") /\ Write([journal EXCEPT !.phase = "cleanup"]) /\ Verify("clean")
BeginCleanup   == At("clean") /\ Goto("quarantine", 1) /\ Reading
PhaseDelivery  == At("deliver") /\ Write([journal EXCEPT !.phase = "delivery"]) /\ Verify("open")

\* The vault is opened and the recovery secret returned.
DeliverRecovery == At("open") /\ Answer /\ Reading

-----------------------------------------------------------------------------
(* resumeCleanupLocked                                                       *)

Quarantine ==
    /\ At("quarantine")
    /\ IF k \in journal.quarantined THEN Goto("delete", k)
       ELSE Goto(IF k \in same THEN "unlink" ELSE IF source[k] # 0 THEN "rename" ELSE "renamed", k)
    /\ Reading

\* renameNoReplace: one step, or on some systems a link and the removal of the old name.
renameNoReplace ==
    /\ At("rename") /\ source[k] # 0 /\ quarantine[k] = 0
    /\ quarantine' = [quarantine EXCEPT ![k] = source[k]]
    /\ \/ source' = [source EXCEPT ![k] = 0] /\ Goto("renamed", k) /\ UNCHANGED same
       \/ same' = same \cup {k} /\ Goto("unlink", k) /\ UNCHANGED source
    /\ UNCHANGED <<archive, dest, work, record, found, legacy>>

UnlinkSource ==
    /\ At("unlink") /\ Goto("renamed", k)
    /\ source' = [source EXCEPT ![k] = 0] /\ same' = same \ {k}
    /\ UNCHANGED <<archive, quarantine, dest, work, record, found, legacy>>

MarkQuarantined == At("renamed") /\ Write([journal EXCEPT !.quarantined = @ \cup {k}]) /\ Goto("delete", k)

DeleteQuarantine ==
    /\ At("delete")
    /\ quarantine' = [quarantine EXCEPT ![k] = 0]
    /\ Goto(IF k \in journal.deleted THEN "unarchive" ELSE "deleted", k)
    /\ UNCHANGED <<source, archive, dest, same, work, record, found, legacy>>

MarkDeleted == At("deleted") /\ Write([journal EXCEPT !.deleted = @ \cup {k}]) /\ Goto("unarchive", k)

MemberCleaned == IF k + 1 \in Members THEN Goto("quarantine", k + 1) ELSE Goto("tidy", 0)

DeleteArchive ==
    /\ At("unarchive")
    /\ archive' = [archive EXCEPT ![k] = 0]
    /\ IF k \in journal.archiveDeleted THEN MemberCleaned ELSE Goto("unarchived", k)
    /\ UNCHANGED <<source, quarantine, dest, same, work, record, found, legacy>>

MarkArchiveDeleted ==
    At("unarchived") /\ Write([journal EXCEPT !.archiveDeleted = @ \cup {k}]) /\ MemberCleaned

\* The emptied directories are removed, and validateLegacyCleanupLocked finds no plaintext.
validateLegacyCleanupLocked == At("tidy") /\ Verify("deliver") /\ Reading

AcknowledgeRecovery ==
    /\ pc = "ready" /\ Startable /\ Answer
    /\ journal # None /\ journal.phase = "delivery" /\ manifest
    /\ journal' = None /\ temp' = FALSE
    /\ UNCHANGED <<files, stage, manifest, found, legacy>>
-----------------------------------------------------------------------------
(* Failures                                                                  *)

\* An error ends the call, by a failed check or by the system.  The deferred
\* clean-ups take back an unfinished publication; each may fail as well.
Fails ==
    /\ pc \notin {"down", "ready"} /\ Answer
    /\ found' = Absent
    /\ temp' \in {temp, FALSE}
    /\ \/ pc = "linked" /\ stage' \in {stage, stage \ {k}}
          /\ dest' \in {dest, [m \in Members |-> IF Owner[m] = k THEN 0 ELSE dest[m]]}
       \/ pc \in {"copying", "comparing", "verifying"} /\ stage' \in {stage, stage \ {k}} /\ UNCHANGED dest
       \/ pc \notin {"linked", "copying", "comparing", "verifying"} /\ UNCHANGED <<stage, dest>>
    /\ UNCHANGED <<source, archive, quarantine, same, record, legacy>>

Crash ==
    /\ pc # "down" /\ Goto("down", 0) /\ found' = Absent
    /\ UNCHANGED <<files, work, record, legacy>>

\* The older program writes to a file it knows by its name, or creates it anew.
OlderProgramWrites(m) ==
    LET v == writes + 2 IN
    /\ writes < MaxWrites /\ writes' = writes + 1
    /\ source' = [source EXCEPT ![m] = v]
    /\ quarantine' = [quarantine EXCEPT ![m] = IF m \in same THEN v ELSE @]
    /\ owed' = [owed EXCEPT ![m] = (@ \ {source[m]}) \cup {v}]
    /\ UNCHANGED <<archive, dest, same, work, record, found, pc, k, then>>

Step ==
    \/ New \/ MigrateLegacy
    \/ discoverMigrationArtifacts \/ createMigrationLocked
    \/ ArchiveMember \/ copyRegularFileDurable \/ ArchiveVerified \/ MarkArchived
    \/ RecheckSources \/ prepareMigrationStage \/ CopyPlaintextToEncrypted \/ cleanupMigrationStage \/ MarkCopied
    \/ VerifyDestination \/ VerifyPlaintextMatchesEncrypted \/ writeManifestAtomic
    \/ PhasePublished \/ PhaseCleanup \/ BeginCleanup \/ PhaseDelivery \/ DeliverRecovery
    \/ Quarantine \/ renameNoReplace \/ UnlinkSource \/ MarkQuarantined
    \/ DeleteQuarantine \/ MarkDeleted \/ DeleteArchive \/ MarkArchiveDeleted \/ validateLegacyCleanupLocked
    \/ AcknowledgeRecovery

Next == Step \/ Fails \/ Crash \/ \E m \in Members : OlderProgramWrites(m)

Spec == Init /\ [][Next]_vars

-----------------------------------------------------------------------------
(* Properties                                                                *)

File    == [Members -> 0 .. MaxWrites + 1]
Journal == [phase : Phases, print : File, copied : SUBSET Databases, archived : SUBSET Members,
            quarantined : SUBSET Members, deleted : SUBSET Members, archiveDeleted : SUBSET Members]

\* Types of the variables.
TypeOK ==
    /\ {source, archive, quarantine, dest, found} \subseteq File /\ same \subseteq Members
    /\ temp \in BOOLEAN /\ stage \subseteq Databases
    /\ journal \in Journal \cup {None} /\ manifest \in BOOLEAN
    /\ owed \in [Members -> SUBSET (1 .. MaxWrites + 1)] /\ writes \in 0 .. MaxWrites

\* Wherever the migration stops, and whatever the older program writes meanwhile,
\* the newest content of every legacy file is in a plaintext file or, together with
\* that of its companions, in an encrypted database whose key the manifest or the
\* journal holds (resumeCopiesLocked, resumeCleanupLocked).
LegacyDataKept ==
    \A m \in Members : \A v \in owed[m] :
        \/ v \in {source[m], archive[m], quarantine[m]}
        \/ dest[m] = v /\ (manifest \/ journal # None)

\* If nothing else writes to the files, the program starts again wherever it was
\* stopped, and no check of a resumed migration fails (validateFilesystem,
\* validateKnownMigrationTree, "Every durable boundary is journaled"); and when the
\* recovery secret is ready for delivery, no plaintext of a migrated database is
\* left: source, archive, quarantine, temporary or staging file.
MigrationResumes ==
    writes = 0 =>
        /\ Startable /\ Check
        /\ manifest /\ (journal = None \/ journal.phase = "delivery") => NoPlaintext /\ ~temp /\ stage = {}

=============================================================================
