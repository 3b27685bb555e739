------------------------ MODULE RestoreJournalProofs ------------------------
(***************************************************************************)
(* Proofs about RestoreJournal, for any ledgers and any marked ones among  *)
(* them: a restore happens or does not, whatever a failure at any point    *)
(* leaves, and a vault without the marker can always be opened again.      *)
(* The invariant says what the directory holds at each step of a restore,  *)
(* and what every directory holds that a failure may leave.                *)
(***************************************************************************)
EXTENDS RestoreJournal, TLAPS

\* Every directory that a failure may leave, with the ledger b of before the restore and t
\* of the snapshot: what a journal names is one of them, and what it does not is not read.
Safe(f, b, t) ==
    /\ f \in Directory /\ f.live \in Image /\ f.live.data \in {b, t}
    /\ f.manifest # "none" =>
         /\ f.backup # None => f.backup.data = b
         /\ f.candidate # None => f.candidate.data = t
         /\ f.live.data \notin Marked => f.live.same

Clean(f) == f.manifest = "none" /\ f.backup = None /\ f.candidate = None

\* A directory without journal and artifacts, opened before it is synced: what a failure
\* may bring back is the same ledger, perhaps with a journal that accepts it.
SameLedger(f, g) ==
    /\ g.live.data = f.live.data
    /\ g.manifest # "none" => /\ g.backup = None /\ g.candidate = None
                              /\ g.live = f.live \/ f.live.data \in Marked

\* The directory at each step of a restore.
Steps ==
    /\ pc \in {"candidate", "liveClosed", "backedUp"} =>
         /\ crash = {fs} /\ fs.manifest = "none" /\ fs.live.data = before /\ fs.candidate = Fresh(target)
         /\ IF pc = "backedUp" THEN fs.backup \in Image /\ fs.backup.data = before ELSE fs.backup = None
    /\ pc = "journaled" =>
         /\ crash = {fs} /\ fs.manifest = "prepared"
         /\ fs.live = Fresh(before) /\ fs.backup = Fresh(before) /\ fs.candidate = Fresh(target)
    /\ pc \in {"replaced", "installed", "swapped", "validated", "reopened", "rollback"} =>
         /\ fs.manifest # "none" /\ fs.backup = Fresh(before) /\ fs.candidate = None /\ fs.live.data = target
         /\ \A f \in crash : f.manifest # "none" /\ f.backup = Fresh(before)
    /\ pc \in {"replaced", "installed", "swapped"} => fs.live = Fresh(target)
    /\ pc \in {"installed", "swapped", "validated", "reopened", "cleaned", "recovered"} => crash = {fs}
    /\ pc = "cleaned" => fs.backup = None /\ fs.candidate = None /\ fs.live.data = target
    /\ pc = "rolledBack" =>
         /\ fs.manifest # "none" /\ fs.backup = None /\ fs.candidate = None /\ fs.live = Fresh(before)
         /\ \A f \in crash : f.manifest # "none" /\ (f.backup = Fresh(before) \/ f.live.data = before)
    /\ pc \in {"placed", "refused"} => fs.manifest # "none"
    /\ pc = "doubted" => ~Clean(fs)

IInv ==
    /\ TypeOK
    /\ fs \in crash
    /\ \A f \in crash : Safe(f, before, target)
    /\ Steps
    /\ pc \in {"closed", "open"} /\ Clean(fs) => \A f \in crash : SameLedger(fs, f)
    /\ pc = "open" => Clean(fs) /\ (fs.live.same \/ \A f \in crash : f.manifest = "none")
    /\ answer = "ok" => pc \in {"open", "closed"} /\ \A f \in crash : Clean(f) /\ f.live.data = target
    /\ pc = "refused" => {before, target} \cap Marked # {}

-----------------------------------------------------------------------------
(* Directories and images                                                    *)

\* A copy just synced has the digest the journal will hold, and is a file.
LEMMA FreshImage == ASSUME NEW d \in Data
                    PROVE  Fresh(d) \in Image /\ Fresh(d).data = d /\ Fresh(d).same /\ Fresh(d) # None
<1>1. Fresh(d) \in Image /\ Fresh(d).data = d /\ Fresh(d).same
      BY Zenon DEF Fresh, Image
<1>2. QED
      BY <1>1, NoneAssumption DEF Image

\* A file whose digest the journal takes is as good as fresh.
LEMMA Marks == ASSUME NEW img \in Image PROVE [img EXCEPT !.same = TRUE] = Fresh(img.data)
<1> DEFINE yes == TRUE
<1> HIDE DEF yes
<1>1. [img EXCEPT !.same = yes] = [data |-> img.data, same |-> yes]
      BY DEF Image
<1>2. QED
      BY <1>1, Zenon DEF yes, Fresh

\* Opening a file keeps its ledger, and its bytes too when it has no marker.
LEMMA ValidatedImage == ASSUME NEW img \in Image
                        PROVE  /\ Validated(img) \in Image /\ Validated(img).data = img.data
                               /\ Validated(img) # None
                               /\ img.data \notin Marked => Validated(img) = img
BY NoneAssumption, Zenon DEF Validated, Rewritten, Image

\* Another live file leaves the rest of the directory alone (rename over the live name).
LEMMA PutLive == ASSUME NEW f \in Directory, NEW x \in Image
                 PROVE  LET g == [f EXCEPT !.live = x]
                        IN g \in Directory /\ g.live = x /\ g.backup = f.backup
                           /\ g.candidate = f.candidate /\ g.manifest = f.manifest
BY DEF Directory

\* Removing the backup leaves the rest of the directory alone.
LEMMA DropBackup == ASSUME NEW f \in Directory
                    PROVE  LET g == [f EXCEPT !["backup"] = None]
                           IN g \in Directory /\ g.live = f.live /\ g.backup = None
                              /\ g.candidate = f.candidate /\ g.manifest = f.manifest
BY DEF Directory

\* Removing the candidate leaves the rest of the directory alone.
LEMMA DropCandidate == ASSUME NEW f \in Directory
                       PROVE  LET g == [f EXCEPT !["candidate"] = None]
                              IN g \in Directory /\ g.live = f.live /\ g.backup = f.backup
                                 /\ g.candidate = None /\ g.manifest = f.manifest
BY DEF Directory

\* Writing or removing the journal leaves the files alone.
LEMMA PutManifest == ASSUME NEW f \in Directory, NEW m \in {"none", "prepared", "swapped"}
                     PROVE  LET g == [f EXCEPT !.manifest = m]
                            IN g \in Directory /\ g.live = f.live /\ g.backup = f.backup
                               /\ g.candidate = f.candidate /\ g.manifest = m
BY DEF Directory

-----------------------------------------------------------------------------
(* The steps                                                                 *)

\* A vault that was never restored holds one ledger and nothing else.
LEMMA InitIInv == Init => IInv
<1> SUFFICES ASSUME Init PROVE IInv
    OBVIOUS
<1>1. PICK d \in Data : /\ fs = [live |-> Fresh(d), backup |-> None, candidate |-> None, manifest |-> "none"]
                        /\ before = d /\ target = d
      BY DEF Init
<1>2. fs \in Directory /\ Clean(fs) /\ fs.live = Fresh(d)
      BY <1>1, FreshImage DEF Directory, Clean
<1>3. TypeOK
      BY <1>1, <1>2 DEF TypeOK, Init
<1>4. Safe(fs, before, target)
      BY <1>1, <1>2, FreshImage DEF Safe, Clean
<1>5. QED
      BY <1>1, <1>2, <1>3, <1>4 DEF IInv, Init, Steps, SameLedger, Clean

\* A restore that ends in an error, or is cut short, leaves a directory that is safe (Fail).
LEMMA Closes == ASSUME IInv, TypeOK', fs' \in crash', pc' = "closed", before' = before, target' = target,
                       answer' # "ok",
                       \A f \in crash' : Safe(f, before, target),
                       Clean(fs') => \A f \in crash' : SameLedger(fs', f)
                PROVE  IInv'
BY DEF IInv, Steps

\* A user's change to an open vault (Write).
LEMMA WriteKeeps == ASSUME IInv, Write PROVE IInv'
<1>1. fs \in Directory /\ fs.live \in Image /\ Safe(fs, before, target) /\ Clean(fs)
      BY DEF IInv, Safe, Write
<1>2. [fs.live EXCEPT !.same = FALSE] \in Image /\ [fs.live EXCEPT !.same = FALSE].data = fs.live.data
      BY <1>1, Zenon DEF Image
<1>3. fs' = [fs EXCEPT !.live = [fs.live EXCEPT !.same = FALSE]] /\ crash' = {fs'}
      BY DEF Write, Synced
<1>4. fs' \in Directory /\ Clean(fs') /\ fs'.live \in Image /\ fs'.live.data = fs.live.data
      BY <1>1, <1>2, <1>3, PutLive, Zenon DEF Clean
<1>5. Safe(fs', before, target) /\ SameLedger(fs', fs')
      BY <1>1, <1>4 DEF Safe, Clean, SameLedger
<1>6. TypeOK' /\ Steps'
      BY <1>3, <1>4 DEF TypeOK, Steps, IInv, Write
<1>7. answer = "ok" => fs'.live.data = target
      BY <1>4 DEF IInv
<1>8. QED
      BY <1>3, <1>4, <1>5, <1>6, <1>7 DEF IInv, Write, Clean

\* An error ends the restore: the directory is safe before and after the last operation (Fail).
LEMMA FailKeeps == ASSUME IInv, NEW f, Fail(f), f \in Directory, Safe(f, before, target),
                          Clean(f) => \A g \in crash : SameLedger(f, g)
                   PROVE  IInv'
<1>1. fs' = f /\ crash' = crash \cup {f} /\ pc' = "closed" /\ before' = before /\ target' = target /\ answer' = "error"
      BY DEF Fail, Unsynced
<1>2. TypeOK'
      BY <1>1 DEF TypeOK, IInv
<1>3. \A g \in crash' : Safe(g, before, target)
      BY <1>1 DEF IInv
<1>4. Clean(f) => SameLedger(f, f)
      BY DEF Clean, SameLedger
<1>5. Clean(fs') => \A g \in crash' : SameLedger(fs', g)
      BY <1>1, <1>4
<1>6. fs' \in crash' /\ answer' # "ok"
      BY <1>1
<1>7. QED
      BY <1>1, <1>2, <1>3, <1>5, <1>6, Closes

\* A restore begins with one ledger in every directory a failure may leave (PrepareCandidate).
LEMMA PrepareCandidateKeeps == ASSUME IInv, NEW d \in Data, PrepareCandidate(d) PROVE IInv'
<1>1. /\ fs \in Directory /\ fs \in crash /\ fs.live \in Image /\ fs.live.data \in Data /\ Clean(fs)
      /\ \A f \in crash : Safe(f, before, target) /\ SameLedger(fs, f)
      BY DEF IInv, Safe, PrepareCandidate, Image
<1>2. before' = fs.live.data /\ target' = d /\ pc = "open"
      BY DEF PrepareCandidate
<1>3. CASE Synced([fs EXCEPT !.candidate = Fresh(d)]) /\ pc' = "candidate" /\ answer' = "none"
  <2>1. /\ fs' \in Directory /\ fs'.live = fs.live /\ fs'.backup = None /\ fs'.candidate = Fresh(d)
        /\ fs'.manifest = "none" /\ crash' = {fs'}
        BY <1>1, <1>3, FreshImage DEF Synced, Directory, Clean
  <2>2. Safe(fs', before', target')
        BY <1>1, <1>2, <2>1 DEF Safe
  <2>3. TypeOK'
        BY <1>1, <1>2, <1>3, <2>1 DEF TypeOK
  <2>4. Steps'
        BY <1>2, <1>3, <2>1 DEF Steps
  <2>5. QED
        BY <1>3, <2>1, <2>2, <2>3, <2>4 DEF IInv
<1>4. CASE UNCHANGED <<fs, crash>> /\ pc' = "closed" /\ answer' = "error"
  <2>1. \A f \in crash : Safe(f, before', target')
        BY <1>1, <1>2 DEF Safe, SameLedger
  <2>2. TypeOK'
        BY <1>1, <1>2, <1>4 DEF TypeOK, IInv
  <2>3. QED
        BY <1>1, <1>2, <1>4, <2>1, <2>2 DEF IInv, Steps, Clean, SameLedger
<1>5. QED
      BY <1>3, <1>4 DEF PrepareCandidate

\* The candidate alone, dropped again, leaves the directory of before the restore.
LEMMA CandidateDropped ==
    ASSUME IInv, pc \in {"candidate", "liveClosed"}, Fail(Drop("candidate")) PROVE IInv'
<1>1. /\ fs \in Directory /\ crash = {fs} /\ fs.manifest = "none" /\ Safe(fs, before, target)
      BY DEF IInv, Steps, Safe
<1> DEFINE f == Drop("candidate")
<1>2. f \in Directory /\ f.live = fs.live /\ f.backup = fs.backup /\ f.candidate = None /\ f.manifest = fs.manifest
      BY <1>1, DropCandidate DEF Drop
<1>3. Safe(f, before, target) /\ \A g \in crash : SameLedger(f, g)
      BY <1>1, <1>2 DEF Safe, SameLedger
<1> HIDE DEF f
<1>4. Fail(f)
      BY DEF f
<1>5. QED
      BY <1>2, <1>3, <1>4, FailKeeps

\* Closing the old ledger changes no file name (CloseLive).
LEMMA CloseLiveKeeps == ASSUME IInv, CloseLive PROVE IInv'
<1>1. CASE pc' = "liveClosed" /\ UNCHANGED <<fs, crash, before, target, answer>>
      BY <1>1 DEF IInv, CloseLive, TypeOK, Steps
<1>2. QED
      BY <1>1, CandidateDropped DEF CloseLive

\* The backup holds the old ledger before the journal names it (CopyBackup).
LEMMA CopyBackupKeeps == ASSUME IInv, CopyBackup PROVE IInv'
<1>1. /\ fs \in Directory /\ crash = {fs} /\ fs.manifest = "none" /\ Safe(fs, before, target) /\ fs.backup = None
      /\ fs.live \in Image /\ fs.live.data = before /\ fs.candidate = Fresh(target) /\ answer # "ok"
      BY DEF IInv, Steps, Safe, CopyBackup
<1> DEFINE copied == [fs EXCEPT !.backup = fs.live]
           f == [copied EXCEPT !.candidate = None]
<1>2. /\ copied \in Directory /\ copied.live = fs.live /\ copied.backup = fs.live
      /\ copied.candidate = fs.candidate /\ copied.manifest = "none"
      BY <1>1 DEF Directory
<1>3. f \in Directory /\ f.live = fs.live /\ f.backup = fs.live /\ f.candidate = None /\ f.manifest = "none"
      BY <1>2, Zenon DEF Directory
<1>4. Safe(copied, before, target) /\ Safe(f, before, target) /\ ~Clean(f)
      BY <1>1, <1>2, <1>3, NoneAssumption DEF Safe, Clean, Image
<1> HIDE DEF copied, f
<1>5. CASE Synced(copied) /\ pc' = "backedUp" /\ UNCHANGED <<before, target, answer>>
  <2>1. fs' = copied /\ crash' = {copied}
        BY <1>5 DEF Synced
  <2>2. TypeOK'
        BY <1>2, <1>5, <2>1 DEF IInv, TypeOK
  <2>3. Steps'
        BY <1>1, <1>2, <1>5, <2>1 DEF Steps
  <2>4. QED
        BY <1>1, <1>4, <1>5, <2>1, <2>2, <2>3 DEF IInv
<1>6. CASE Fail(f)
      BY <1>3, <1>4, <1>6, FailKeeps
<1>7. QED
      BY <1>5, <1>6, CandidateDropped DEF CopyBackup, copied, f

\* The journal is written last, over the two complete copies (WritePrepared).
LEMMA WritePreparedKeeps == ASSUME IInv, WritePrepared PROVE IInv'
<1>1. /\ fs \in Directory /\ crash = {fs} /\ fs.manifest = "none" /\ Safe(fs, before, target)
      /\ fs.live \in Image /\ fs.live.data = before /\ fs.candidate = Fresh(target) /\ answer # "ok"
      /\ fs.backup \in Image /\ fs.backup.data = before /\ before \in Data /\ target \in Data
      BY DEF IInv, Steps, Safe, WritePrepared, TypeOK
<1> DEFINE d == Drop("candidate")
           f == [Journaled EXCEPT !.candidate = None]
<1>2. d \in Directory /\ d.live = fs.live /\ d.backup = fs.backup /\ d.candidate = None /\ d.manifest = "none"
      BY <1>1, DropCandidate DEF Drop
<1>3. [fs.live EXCEPT !.same = TRUE] = Fresh(before) /\ [fs.backup EXCEPT !.same = TRUE] = Fresh(before)
      BY <1>1, Marks, Zenon
<1>4. Journaled = [fs EXCEPT !.manifest = "prepared", !.live = Fresh(before), !.backup = Fresh(before)]
      BY <1>1, <1>3, Zenon DEF Journaled, Directory
<1>5. Journaled = [live |-> Fresh(before), backup |-> Fresh(before), candidate |-> Fresh(target), manifest |-> "prepared"]
      BY <1>1, <1>4, Zenon DEF Directory
<1>6. Journaled \in Directory /\ Safe(Journaled, before, target)
      BY <1>1, <1>5, FreshImage DEF Directory, Safe
<1>7. f \in Directory /\ f.live = Fresh(before) /\ f.backup = Fresh(before) /\ f.candidate = None /\ f.manifest = "prepared"
      BY <1>1, <1>5, FreshImage DEF Directory
<1>8. Safe(d, before, target) /\ ~Clean(d) /\ Safe(f, before, target) /\ ~Clean(f)
      BY <1>1, <1>2, <1>7, FreshImage, NoneAssumption DEF Safe, Clean, Image
<1> HIDE DEF d, f
<1>9. CASE Synced(Journaled) /\ pc' = "journaled" /\ UNCHANGED <<before, target, answer>>
  <2>1. fs' = Journaled /\ crash' = {fs'}
        BY <1>9 DEF Synced
  <2>2. TypeOK' /\ Safe(fs', before, target)
        BY <1>6, <1>9, <2>1 DEF IInv, TypeOK
  <2>3. Steps'
        BY <1>5, <1>9, <2>1 DEF Steps
  <2>4. QED
        BY <1>1, <1>9, <2>1, <2>2, <2>3 DEF IInv
<1>10. CASE Fail(d)
      BY <1>2, <1>8, <1>10, FailKeeps
<1>11. CASE Fail(f)
      BY <1>7, <1>8, <1>11, FailKeeps
<1>12. QED
      BY <1>9, <1>10, <1>11 DEF WritePrepared, d, f

\* The rename puts the candidate in place, and the journaled backup is still there (Replace).
LEMMA ReplaceKeeps == ASSUME IInv, Replace PROVE IInv'
<1>1. /\ fs \in Directory /\ crash = {fs} /\ fs.manifest = "prepared" /\ Safe(fs, before, target)
      /\ fs.live = Fresh(before) /\ fs.backup = Fresh(before) /\ fs.candidate = Fresh(target)
      /\ answer # "ok" /\ before \in Data /\ target \in Data
      BY DEF IInv, Steps, Safe, Replace, TypeOK
<1> DEFINE d == Drop("candidate")
           f == [fs EXCEPT !.live = fs.candidate, !.candidate = None]
<1>2. d \in Directory /\ d.live = fs.live /\ d.backup = fs.backup /\ d.candidate = None /\ d.manifest = "prepared"
      BY <1>1, DropCandidate DEF Drop
<1>3. f \in Directory /\ f.live = Fresh(target) /\ f.backup = Fresh(before) /\ f.candidate = None /\ f.manifest = "prepared"
      BY <1>1, FreshImage, Zenon DEF Directory
<1>4. Safe(d, before, target) /\ ~Clean(d) /\ Safe(f, before, target)
      BY <1>1, <1>2, <1>3, FreshImage DEF Safe, Clean
<1> HIDE DEF d, f
<1>5. CASE Unsynced(f) /\ pc' = "replaced" /\ UNCHANGED <<before, target, answer>>
  <2>1. fs' = f /\ crash' = {fs, f}
        BY <1>1, <1>5 DEF Unsynced
  <2>2. TypeOK' /\ \A g \in crash' : Safe(g, before, target)
        BY <1>1, <1>3, <1>4, <1>5, <2>1 DEF IInv, TypeOK
  <2>3. Steps'
        BY <1>1, <1>3, <1>5, <2>1, FreshImage DEF Steps
  <2>4. QED
        BY <1>1, <1>5, <2>1, <2>2, <2>3 DEF IInv
<1>6. CASE Fail(d)
      BY <1>2, <1>4, <1>6, FailKeeps
<1>7. QED
      BY <1>5, <1>6 DEF Replace, d, f

\* What the steps between the replacement and the answer have in common.
LEMMA Between ==
    ASSUME IInv, pc \in {"replaced", "installed", "swapped", "validated", "reopened", "rollback"}
    PROVE  /\ fs \in Directory /\ fs \in crash /\ crash \subseteq Directory /\ answer # "ok"
           /\ before \in Data /\ target \in Data
           /\ \A f \in crash : Safe(f, before, target) /\ f.manifest # "none" /\ f.backup = Fresh(before)
           /\ fs.live \in Image /\ fs.live.data = target /\ fs.candidate = None
BY DEF IInv, Steps, Safe, TypeOK

\* The next step of the restore or the way back: every directory a failure may leave has the
\* journal and the backup.
LEMMA Onwards ==
    ASSUME IInv, pc \in {"replaced", "installed", "swapped", "validated", "reopened", "rollback"},
           pc' \in {"installed", "swapped", "validated", "reopened", "rollback"},
           UNCHANGED <<before, target, answer>>,
           fs' \in crash', crash' \subseteq Directory, fs'.candidate = None, fs'.live.data = target,
           \A f \in crash' : Safe(f, before, target) /\ f.manifest # "none" /\ f.backup = Fresh(before),
           pc' # "rollback" => crash' = {fs'},
           pc' \in {"installed", "swapped"} => fs'.live = Fresh(target)
    PROVE  IInv'
<1>1. TypeOK'
      BY DEF IInv, TypeOK
<1>2. Steps'
      BY DEF Steps
<1>3. QED
      BY <1>1, <1>2, Between DEF IInv

\* Syncing the replacement (SyncReplaced).
LEMMA SyncReplacedKeeps == ASSUME IInv, SyncReplaced PROVE IInv'
<1>1. pc = "replaced" /\ fs.live = Fresh(target) /\ fs' = fs /\ UNCHANGED <<before, target, answer>>
      BY DEF SyncReplaced, Synced, OrRollback, IInv, Steps
<1>2. \/ crash' = {fs} /\ pc' \in {"installed", "rollback"}
      \/ crash' = crash /\ pc' = "rollback"
      BY DEF SyncReplaced, Synced, OrRollback
<1>3. QED
      BY <1>1, <1>2, Between, Onwards

\* The journal's second state (WriteSwapped).
LEMMA WriteSwappedKeeps == ASSUME IInv, WriteSwapped PROVE IInv'
<1>1. pc = "installed" /\ fs.live = Fresh(target) /\ crash = {fs} /\ UNCHANGED <<before, target, answer>>
      BY DEF WriteSwapped, IInv, Steps
<1> DEFINE f == [fs EXCEPT !.manifest = "swapped"]
<1>2. /\ f \in Directory /\ f.live = fs.live /\ f.backup = fs.backup
      /\ f.candidate = fs.candidate /\ f.manifest = "swapped"
      BY <1>1, Between, PutManifest, Zenon
<1>3. Safe(f, before, target)
      BY <1>1, <1>2, Between DEF Safe
<1> HIDE DEF f
<1>4. \/ fs' = f /\ crash' = {f} /\ pc' = "swapped"
      \/ fs' = f /\ crash' = {fs, f} /\ pc' = "rollback"
      \/ fs' = fs /\ crash' = {fs} /\ pc' = "rollback"
      BY <1>1 DEF WriteSwapped, Synced, Unsynced, f
<1>5. QED
      BY <1>1, <1>2, <1>3, <1>4, Between, Onwards

\* Validation may write to the new file, never to the backup (ValidateLive).
LEMMA ValidateLiveKeeps == ASSUME IInv, ValidateLive PROVE IInv'
<1> DEFINE f == [fs EXCEPT !.live = Validated(fs.live)]
<1>1. pc = "swapped" /\ fs' = f /\ crash' = {f} /\ UNCHANGED <<before, target, answer>>
      /\ pc' \in {"validated", "rollback"}
      BY DEF ValidateLive, Synced, OrRollback
<1>2. /\ f \in Directory /\ f.live = Validated(fs.live) /\ f.backup = fs.backup
      /\ f.candidate = fs.candidate /\ f.manifest = fs.manifest
      BY <1>1, Between, ValidatedImage, PutLive
<1>3. Safe(f, before, target) /\ f.live.data = target
      BY <1>1, <1>2, Between, ValidatedImage DEF Safe
<1> HIDE DEF f
<1>4. QED
      BY <1>1, <1>2, <1>3, Between, Onwards

\* Opening the new ledger (Reopen).
LEMMA ReopenKeeps == ASSUME IInv, Reopen PROVE IInv'
<1>1. pc = "validated" /\ crash = {fs} /\ UNCHANGED <<fs, crash, before, target, answer>>
      /\ pc' \in {"reopened", "rollback"}
      BY DEF Reopen, OrRollback, IInv, Steps
<1>2. QED
      BY <1>1, Between, Onwards

\* The backup goes once the new ledger is open, and the journal stays (RemoveBackup).
LEMMA RemoveBackupKeeps == ASSUME IInv, RemoveBackup PROVE IInv'
<1> DEFINE d == Drop("backup")
           v == [fs EXCEPT !.live = Validated(fs.live)]
           w == [d EXCEPT !.live = Validated(d.live)]
<1>1. pc = "reopened" /\ crash = {fs}
      BY DEF RemoveBackup, IInv, Steps
<1>2. d \in Directory /\ d.live = fs.live /\ d.backup = None /\ d.candidate = None /\ d.manifest # "none"
      BY <1>1, Between, DropBackup DEF Drop
<1>3. /\ v \in Directory /\ v.live = Validated(fs.live) /\ v.backup = fs.backup /\ v.candidate = None
      /\ v.manifest # "none"
      BY <1>1, Between, ValidatedImage, PutLive
<1>4. w \in Directory /\ w.live = Validated(fs.live) /\ w.backup = None /\ w.candidate = None /\ w.manifest # "none"
      BY <1>1, <1>2, Between, ValidatedImage, PutLive
<1>5. Safe(d, before, target) /\ Safe(v, before, target) /\ Safe(w, before, target) /\ d.live.data = target
      BY <1>1, <1>2, <1>3, <1>4, Between, ValidatedImage DEF Safe
<1>6. ~Clean(v) /\ ~Clean(w)
      BY <1>3, <1>4 DEF Clean
<1> HIDE DEF d, v, w
<1>7. CASE Synced(d) /\ pc' = "cleaned" /\ UNCHANGED <<before, target, answer>>
  <2>1. fs' = d /\ crash' = {d}
        BY <1>7 DEF Synced
  <2>2. TypeOK'
        BY <1>2, <1>7, <2>1 DEF IInv, TypeOK
  <2>3. Steps'
        BY <1>2, <1>5, <1>7, <2>1 DEF Steps
  <2>4. QED
        BY <1>1, <1>5, <1>7, <2>1, <2>2, <2>3, Between DEF IInv
<1>8. CASE Fail(v)
      BY <1>3, <1>5, <1>6, <1>8, FailKeeps
<1>9. CASE Fail(w)
      BY <1>4, <1>5, <1>6, <1>9, FailKeeps
<1>10. QED
      BY <1>7, <1>8, <1>9 DEF RemoveBackup, BackupRemoved, d, v, w

\* The journal goes last, and with it the answer (RemoveManifest).
LEMMA RemoveManifestKeeps == ASSUME IInv, RemoveManifest PROVE IInv'
<1> DEFINE d == [fs EXCEPT !.manifest = "none"]
           v == [fs EXCEPT !.live = Validated(fs.live)]
           w == [v EXCEPT !.manifest = "none"]
<1>1. /\ pc = "cleaned" /\ crash = {fs} /\ fs \in Directory /\ Safe(fs, before, target) /\ fs.live \in Image
      /\ fs.live.data = target /\ fs.backup = None /\ fs.candidate = None
      BY DEF RemoveManifest, IInv, Steps, Safe
<1>2. d \in Directory /\ d.live = fs.live /\ d.backup = None /\ d.candidate = None /\ d.manifest = "none"
      BY <1>1, PutManifest, Zenon
<1>3. v \in Directory /\ v.live = Validated(fs.live) /\ v.backup = None /\ v.candidate = None /\ v.manifest = fs.manifest
      BY <1>1, ValidatedImage, PutLive
<1>4. w \in Directory /\ w.live = Validated(fs.live) /\ w.backup = None /\ w.candidate = None /\ w.manifest = "none"
      BY <1>3, PutManifest, Zenon
<1>5. Safe(d, before, target) /\ Safe(v, before, target) /\ Safe(w, before, target)
      BY <1>1, <1>2, <1>3, <1>4, ValidatedImage DEF Safe
<1>6. SameLedger(v, fs) /\ SameLedger(w, fs)
      BY <1>1, <1>3, <1>4, ValidatedImage DEF SameLedger
<1>7. w = [fs EXCEPT !.live = Validated(fs.live), !.manifest = "none"]
      BY <1>1 DEF Directory
<1> HIDE DEF d, v, w
<1>8. CASE Synced(d) /\ pc' = "open" /\ answer' = "ok" /\ UNCHANGED <<before, target>>
  <2>1. fs' = d /\ crash' = {d}
        BY <1>8 DEF Synced
  <2>2. TypeOK'
        BY <1>2, <1>8, <2>1 DEF IInv, TypeOK
  <2>3. Steps'
        BY <1>8 DEF Steps
  <2>4. Clean(d) /\ SameLedger(d, d)
        BY <1>2 DEF Clean, SameLedger
  <2>5. QED
        BY <1>1, <1>2, <1>5, <1>8, <2>1, <2>2, <2>3, <2>4 DEF IInv
<1>9. CASE Fail(v)
      BY <1>1, <1>3, <1>5, <1>6, <1>9, FailKeeps
<1>10. CASE Fail(w)
      BY <1>1, <1>4, <1>5, <1>6, <1>10, FailKeeps
<1>11. QED
      BY <1>7, <1>8, <1>9, <1>10 DEF RemoveManifest, ManifestRemoved, d, v

\* The rename back, while the journal is there (Rollback).
LEMMA RollbackKeeps == ASSUME IInv, Rollback PROVE IInv'
<1> DEFINE f == [fs EXCEPT !.live = fs.backup, !.backup = None]
<1>1. pc = "rollback"
      BY DEF Rollback
<1>2. /\ f \in Directory /\ f.live = Fresh(before) /\ f.backup = None /\ f.candidate = None
      /\ f.manifest # "none"
      BY <1>1, Between, FreshImage, Zenon DEF Directory
<1>3. Safe(f, before, target) /\ ~Clean(fs)
      BY <1>1, <1>2, Between, FreshImage DEF Safe, Clean
<1> HIDE DEF f
<1>4. CASE Unsynced(f) /\ pc' = "rolledBack" /\ UNCHANGED <<before, target, answer>>
  <2>1. fs' = f /\ crash' = crash \cup {f}
        BY <1>4 DEF Unsynced
  <2>2. TypeOK'
        BY <1>2, <1>4, <2>1 DEF IInv, TypeOK
  <2>3. \A g \in crash' : g.manifest # "none" /\ (g.backup = Fresh(before) \/ g.live.data = before)
        BY <1>1, <1>2, <2>1, Between, FreshImage
  <2>4. Steps'
        BY <1>2, <1>4, <2>1, <2>3 DEF Steps
  <2>5. \A g \in crash' : Safe(g, before, target)
        BY <1>1, <1>3, <2>1, Between
  <2>6. QED
        BY <1>1, <1>4, <2>1, <2>2, <2>4, <2>5, Between DEF IInv
<1>5. CASE Fail(fs)
      BY <1>1, <1>3, <1>5, Between, FailKeeps
<1>6. QED
      BY <1>4, <1>5 DEF Rollback, f

\* The old ledger is back before the journal goes (FinishRollback).
LEMMA FinishRollbackKeeps == ASSUME IInv, FinishRollback PROVE IInv'
<1> DEFINE back == [fs EXCEPT !.live = Validated(fs.live)]
           gone == [back EXCEPT !.manifest = "none"]
<1>1. /\ fs \in Directory /\ fs \in crash /\ Safe(fs, before, target) /\ fs.live \in Image
      /\ fs.manifest # "none" /\ fs.backup = None /\ fs.candidate = None
      /\ pc' = "closed" /\ answer' = "error" /\ UNCHANGED <<before, target>>
      BY DEF FinishRollback, IInv, Steps, Safe
<1>2. /\ back \in Directory /\ back.live = Validated(fs.live) /\ back.backup = None
      /\ back.candidate = None /\ back.manifest # "none"
      BY <1>1, ValidatedImage, PutLive
<1>3. /\ gone \in Directory /\ gone.live = back.live /\ gone.backup = None
      /\ gone.candidate = None /\ gone.manifest = "none"
      BY <1>2, PutManifest, Zenon
<1>4. Safe(back, before, target) /\ Safe(gone, before, target)
      BY <1>1, <1>2, <1>3, ValidatedImage DEF Safe
<1>5. SameLedger(gone, back) /\ SameLedger(gone, gone) /\ ~Clean(fs) /\ ~Clean(back)
      BY <1>1, <1>2, <1>3 DEF SameLedger, Clean
<1> HIDE DEF back, gone
<1>6. \/ fs' = fs /\ crash' = crash \cup {fs}
      \/ fs' = back /\ crash' = {back}
      \/ fs' = gone /\ crash' \in {{gone}, {back, gone}}
      BY DEF FinishRollback, Synced, Unsynced, back, gone
<1>7. fs' \in crash' /\ crash' \subseteq crash \cup {back, gone}
      BY <1>1, <1>6
<1>8. \A f \in crash' : Safe(f, before, target)
      BY <1>4, <1>7 DEF IInv
<1>9. Clean(fs') => \A f \in crash' : SameLedger(fs', f)
      BY <1>5, <1>6
<1>10. TypeOK'
      BY <1>1, <1>2, <1>3, <1>6, <1>7 DEF IInv, TypeOK
<1>11. QED
      BY <1>1, <1>7, <1>8, <1>9, <1>10, Closes

-----------------------------------------------------------------------------
(* The recovery and a failure                                                *)

\* An artifact is one of the two files beside the live one.
LEMMA ArtifactsAre == ASSUME TypeOK
                      PROVE  /\ Artifacts = {} <=> fs.backup = None /\ fs.candidate = None
                             /\ "backup" \in Artifacts <=> fs.backup # None
                             /\ "candidate" \in Artifacts <=> fs.candidate # None
                             /\ Artifacts \subseteq {"backup", "candidate"}
BY DEF Artifacts, TypeOK, Directory

\* A vault without journal and artifacts opens (OpenClean).
LEMMA OpenCleanKeeps == ASSUME IInv, OpenClean PROVE IInv'
<1> DEFINE v == [fs EXCEPT !.live = Validated(fs.live)]
<1>1. /\ fs \in Directory /\ fs \in crash /\ Safe(fs, before, target) /\ fs.live \in Image /\ Clean(fs)
      /\ pc = "closed" /\ pc' = "open" /\ UNCHANGED <<before, target, answer>>
      BY ArtifactsAre DEF OpenClean, IInv, Safe, Clean
<1>2. \A f \in crash : SameLedger(fs, f)
      BY <1>1 DEF IInv
<1>3. v \in Directory /\ v.live = Validated(fs.live) /\ v.backup = None /\ v.candidate = None /\ v.manifest = "none"
      BY <1>1, ValidatedImage, PutLive DEF Clean
<1>4. Safe(v, before, target) /\ Clean(v) /\ SameLedger(v, v) /\ v.live.data = fs.live.data
      BY <1>1, <1>3, ValidatedImage DEF Safe, Clean, SameLedger
<1> HIDE DEF v
<1>5. Steps'
      BY <1>1 DEF Steps
<1>6. CASE fs' = v /\ crash' = {v}
  <2>1. TypeOK'
        BY <1>1, <1>3, <1>6 DEF IInv, TypeOK
  <2>2. answer = "ok" => v.live.data = target
        BY <1>1, <1>4 DEF IInv
  <2>3. QED
        BY <1>1, <1>3, <1>4, <1>5, <1>6, <2>1, <2>2 DEF IInv
<1>7. CASE UNCHANGED <<fs, crash>> /\ fs.live.data \notin Marked
  <2>1. TypeOK'
        BY <1>1, <1>7 DEF IInv, TypeOK
  <2>2. ASSUME NEW f \in crash, f.manifest # "none" PROVE fs.live.same
        BY <1>2, <1>7, <2>2 DEF SameLedger, IInv, Safe
  <2>3. fs.live.same \/ \A f \in crash : f.manifest = "none"
        BY <2>2
  <2>4. QED
        BY <1>1, <1>2, <1>5, <1>7, <2>1, <2>3 DEF IInv
<1>8. QED
      BY <1>6, <1>7 DEF OpenClean, Synced, v

\* A live file or artifact that was put in place is validated and synced.
LEMMA Recovers ==
    ASSUME IInv, pc \in {"closed", "placed"}, ~Clean(fs), pc' = "recovered",
           Synced([fs EXCEPT !.live = Validated(@)]), UNCHANGED <<before, target, answer>>
    PROVE  IInv'
<1> DEFINE v == [fs EXCEPT !.live = Validated(fs.live)]
<1>1. fs \in Directory /\ fs \in crash /\ Safe(fs, before, target) /\ fs.live \in Image /\ answer # "ok"
      BY DEF IInv, Safe
<1>2. /\ v \in Directory /\ v.live = Validated(fs.live) /\ v.backup = fs.backup
      /\ v.candidate = fs.candidate /\ v.manifest = fs.manifest
      BY <1>1, ValidatedImage, PutLive
<1>3. Safe(v, before, target)
      BY <1>1, <1>2, ValidatedImage DEF Safe
<1>4. fs' = v /\ crash' = {v}
      BY DEF Synced
<1> HIDE DEF v
<1>5. TypeOK' /\ Steps'
      BY <1>2, <1>4 DEF IInv, TypeOK, Steps
<1>6. QED
      BY <1>1, <1>3, <1>4, <1>5 DEF IInv

\* The live file wins (RecoverLive).
LEMMA RecoverLiveKeeps == ASSUME IInv, RecoverLive PROVE IInv'
<1>1. ~Clean(fs)
      BY ArtifactsAre DEF RecoverLive, Clean, IInv
<1>2. QED
      BY <1>1, Recovers DEF RecoverLive

\* The live file counts as missing, changed or not (DoubtLive).
LEMMA DoubtLiveKeeps == ASSUME IInv, DoubtLive PROVE IInv'
<1> DEFINE v == [fs EXCEPT !.live = Validated(fs.live)]
<1>1. /\ fs \in Directory /\ fs \in crash /\ Safe(fs, before, target) /\ fs.live \in Image /\ ~Clean(fs)
      /\ pc' = "doubted" /\ UNCHANGED <<before, target, answer>>
      BY ArtifactsAre DEF DoubtLive, IInv, Safe, Clean
<1>2. /\ v \in Directory /\ v.live = Validated(fs.live) /\ v.backup = fs.backup
      /\ v.candidate = fs.candidate /\ v.manifest = fs.manifest
      BY <1>1, ValidatedImage, PutLive
<1>3. Safe(v, before, target) /\ ~Clean(v)
      BY <1>1, <1>2, ValidatedImage DEF Safe, Clean
<1>4. fs' \in {fs, v} /\ crash' = crash \cup {fs'}
      BY DEF DoubtLive, Unsynced
<1> HIDE DEF v
<1>5. answer # "ok"
      BY <1>1 DEF IInv
<1>6. TypeOK' /\ Steps'
      BY <1>1, <1>2, <1>3, <1>4 DEF IInv, TypeOK, Steps
<1>7. QED
      BY <1>1, <1>3, <1>4, <1>5, <1>6 DEF IInv

\* The artifact that was put in place (RecoverPlaced).
LEMMA RecoverPlacedKeeps == ASSUME IInv, RecoverPlaced PROVE IInv'
<1>1. ~Clean(fs)
      BY DEF RecoverPlaced, Clean, IInv, Steps
<1>2. QED
      BY <1>1, Recovers DEF RecoverPlaced

\* The one artifact with a journaled digest takes the live name (RecoverArtifact).
LEMMA RecoverArtifactKeeps == ASSUME IInv, RecoverArtifact PROVE IInv'
<1>1. /\ fs \in Directory /\ fs \in crash /\ Safe(fs, before, target) /\ fs.manifest # "none"
      /\ answer # "ok" /\ pc' = "placed" /\ UNCHANGED <<before, target, answer>>
      BY DEF IInv, RecoverArtifact, Clean, Safe
<1>2. PICK file \in Artifacts : Unsynced([fs EXCEPT !.live = fs[file], ![file] = None])
      BY Zenon DEF RecoverArtifact
<1>3. file \in {"backup", "candidate"} /\ fs[file] # None /\ fs[file].same
      BY <1>1, <1>2 DEF RecoverArtifact, Trusted, Artifacts
<1> DEFINE f == [fs EXCEPT !.live = fs[file], ![file] = None]
<1>4. /\ f \in Directory /\ f.live = fs[file] /\ f.manifest = fs.manifest /\ f.live \in Image
      /\ f.backup \in {fs.backup, None} /\ f.candidate \in {fs.candidate, None}
  <2>1. CASE file = "backup"
        BY <1>1, <1>3, <2>1, Zenon DEF Directory
  <2>2. CASE file = "candidate"
        BY <1>1, <1>3, <2>2, Zenon DEF Directory
  <2>3. QED
        BY <1>3, <2>1, <2>2
<1>5. fs[file].data \in {before, target}
  <2>1. CASE file = "backup"
        BY <1>1, <1>3, <2>1 DEF Safe
  <2>2. CASE file = "candidate"
        BY <1>1, <1>3, <2>2 DEF Safe
  <2>3. QED
        BY <1>3, <2>1, <2>2
<1>6. Safe(f, before, target)
      BY <1>1, <1>3, <1>4, <1>5 DEF Safe
<1>7. fs' = f /\ crash' = crash \cup {f}
      BY <1>2 DEF Unsynced
<1> HIDE DEF f
<1>8. TypeOK' /\ Steps'
      BY <1>1, <1>4, <1>7 DEF IInv, TypeOK, Steps
<1>9. QED
      BY <1>1, <1>6, <1>7, <1>8 DEF IInv

\* Backup, candidate and journal go in this order, each step perhaps unsynced (RecoverCleans).
LEMMA RecoverCleansKeeps == ASSUME IInv, RecoverCleans PROVE IInv'
<1>1. /\ fs \in Directory /\ crash = {fs} /\ Safe(fs, before, target) /\ answer # "ok" /\ TypeOK
      /\ pc = "recovered" /\ UNCHANGED <<before, target, answer>>
      BY DEF IInv, Steps, RecoverCleans, Safe
<1>2. /\ Cleaned \in Directory /\ Cleaned.live = fs.live
      /\ Cleaned.backup \in {fs.backup, None} /\ Cleaned.candidate \in {fs.candidate, None}
      /\ \/ Cleaned.manifest = fs.manifest /\ Artifacts # {}
         \/ fs.backup = None /\ fs.candidate = None /\ Cleaned.manifest = "none"
  <2>1. CASE "backup" \in Artifacts
        BY <1>1, <2>1, DropBackup DEF Cleaned, Drop
  <2>2. CASE "backup" \notin Artifacts /\ "candidate" \in Artifacts
        BY <1>1, <2>2, DropCandidate DEF Cleaned, Drop
  <2>3. CASE "backup" \notin Artifacts /\ "candidate" \notin Artifacts
    <3>1. fs.backup = None /\ fs.candidate = None
          BY <1>1, <2>3, ArtifactsAre
    <3>2. QED
          BY <1>1, <2>3, <3>1, PutManifest, Zenon DEF Cleaned
  <2>4. QED
        BY <2>1, <2>2, <2>3
<1>3. Safe(Cleaned, before, target)
      BY <1>1, <1>2 DEF Safe
<1>4. Clean(Cleaned) => SameLedger(Cleaned, fs) /\ SameLedger(Cleaned, Cleaned)
      BY <1>1, <1>2 DEF Clean, SameLedger
<1>5. Artifacts = {} => Clean(Cleaned)
      BY <1>1, <1>2, ArtifactsAre DEF Clean
<1>6. CASE Synced(Cleaned) /\ pc' = (IF Artifacts = {} THEN "open" ELSE pc)
  <2>1. fs' = Cleaned /\ crash' = {Cleaned} /\ pc' \in {"open", "recovered"} /\ (pc' = "open" => Artifacts = {})
        BY <1>1, <1>6 DEF Synced
  <2>2. TypeOK' /\ Steps'
        BY <1>1, <1>2, <2>1 DEF TypeOK, Steps
  <2>3. QED
        BY <1>1, <1>3, <1>4, <1>5, <2>1, <2>2 DEF IInv, Clean
<1>7. CASE Unsynced(Cleaned) /\ pc' = "closed"
  <2>1. fs' = Cleaned /\ crash' = {fs, Cleaned}
        BY <1>1, <1>7 DEF Unsynced
  <2>2. TypeOK'
        BY <1>1, <1>2, <1>7, <2>1 DEF TypeOK
  <2>3. QED
        BY <1>1, <1>3, <1>4, <1>7, <2>1, <2>2, Closes
<1>8. QED
      BY <1>6, <1>7 DEF RecoverCleans

\* An error of the recovery leaves what it found (RecoveryError).
LEMMA RecoveryErrorKeeps == ASSUME IInv, RecoveryError PROVE IInv'
<1>1. /\ pc' = "closed" /\ UNCHANGED <<fs, crash, before, target, answer>> /\ answer # "ok"
      BY DEF RecoveryError, IInv
<1>2. Clean(fs) => \A f \in crash : SameLedger(fs, f)
      BY DEF RecoveryError, IInv, Steps, Clean, SameLedger
<1>3. TypeOK'
      BY <1>1 DEF IInv, TypeOK
<1>4. fs' \in crash' /\ \A f \in crash' : Safe(f, before, target)
      BY <1>1 DEF IInv
<1>5. Clean(fs') => \A f \in crash' : SameLedger(fs', f)
      BY <1>1, <1>2
<1>6. QED
      BY <1>1, <1>3, <1>4, <1>5, Closes

\* Only a live file that opening has changed is refused (Refuse).
LEMMA RefuseKeeps == ASSUME IInv, Refuse PROVE IInv'
<1>1. /\ fs \in crash /\ Safe(fs, before, target) /\ fs.live # None /\ ~LiveWins
      /\ pc' = "refused" /\ UNCHANGED <<fs, crash, before, target, answer>>
      BY NoneAssumption DEF IInv, Refuse, Safe, Image
<1>2. fs.manifest # "none" /\ ~fs.live.same
      BY <1>1 DEF LiveWins
<1>3. {before, target} \cap Marked # {}
      BY <1>1, <1>2 DEF Safe
<1>4. answer # "ok"
      BY <1>1, <1>2 DEF IInv, Clean
<1>5. TypeOK' /\ Steps'
      BY <1>1, <1>2 DEF IInv, TypeOK, Steps
<1>6. QED
      BY <1>1, <1>3, <1>4, <1>5 DEF IInv

\* Opening is tried again (Retry).
LEMMA RetryKeeps == ASSUME IInv, Retry PROVE IInv'
<1>1. /\ pc = "refused" /\ pc' = "closed" /\ UNCHANGED <<fs, crash, before, target, answer>>
      BY DEF Retry
<1>2. ~Clean(fs) /\ answer # "ok"
      BY <1>1 DEF IInv, Steps, Clean
<1>3. TypeOK'
      BY <1>1 DEF IInv, TypeOK
<1>4. fs' \in crash' /\ \A f \in crash' : Safe(f, before, target)
      BY <1>1 DEF IInv
<1>5. ~Clean(fs') /\ answer' # "ok" /\ before' = before /\ target' = target
      BY <1>1, <1>2
<1>6. QED
      BY <1>1, <1>3, <1>4, <1>5, Closes

\* A failure at any step leaves one of the directories it may leave (Crash).
LEMMA CrashKeeps == ASSUME IInv, Crash PROVE IInv'
<1>1. fs' \in crash /\ crash' = {fs'} /\ pc' = "closed" /\ UNCHANGED <<before, target, answer>>
      BY DEF Crash
<1>2. Safe(fs', before, target) /\ fs' \in Directory
      BY <1>1 DEF IInv, Safe
<1>3. Clean(fs') => SameLedger(fs', fs')
      BY DEF Clean, SameLedger
<1>4. TypeOK' /\ Steps'
      BY <1>1, <1>2, Zenon DEF IInv, TypeOK, Steps
<1>5. answer = "ok" => Clean(fs') /\ fs'.live.data = target
      BY <1>1 DEF IInv
<1>6. QED
      BY <1>1, <1>2, <1>3, <1>4, <1>5 DEF IInv

\* Every step of a restore, a recovery or a failure keeps the invariant.
LEMMA NextIInv == IInv /\ [Next]_vars => IInv'
<1> SUFFICES ASSUME IInv, [Next]_vars PROVE IInv'
    OBVIOUS
<1>1. CASE UNCHANGED vars
  <2>1. UNCHANGED fs /\ UNCHANGED crash /\ UNCHANGED pc /\ UNCHANGED before /\ UNCHANGED target /\ UNCHANGED answer
      BY <1>1 DEF vars
  <2>2. TypeOK'
      BY <2>1, Zenon DEF IInv, TypeOK
  <2>3. Steps'
      BY <2>1, Zenon DEF IInv, Steps
  <2> QED  BY <2>1, <2>2, <2>3, Zenon DEF IInv
<1>2. CASE \E d \in Data : PrepareCandidate(d)
      BY <1>2, PrepareCandidateKeeps
<1>3. CASE Write \/ CloseLive \/ CopyBackup \/ WritePrepared \/ Replace \/ SyncReplaced \/ WriteSwapped
      BY <1>3, WriteKeeps, CloseLiveKeeps, CopyBackupKeeps, WritePreparedKeeps, ReplaceKeeps,
         SyncReplacedKeeps, WriteSwappedKeeps
<1>4. CASE ValidateLive \/ Reopen \/ RemoveBackup \/ RemoveManifest \/ Rollback \/ FinishRollback
      BY <1>4, ValidateLiveKeeps, ReopenKeeps, RemoveBackupKeeps, RemoveManifestKeeps,
         RollbackKeeps, FinishRollbackKeeps
<1>5. CASE OpenClean \/ RecoverLive \/ DoubtLive \/ RecoverArtifact \/ RecoverPlaced \/ RecoverCleans
      BY <1>5, OpenCleanKeeps, RecoverLiveKeeps, DoubtLiveKeeps, RecoverArtifactKeeps, RecoverPlacedKeeps,
         RecoverCleansKeeps
<1>6. CASE RecoveryError \/ Refuse \/ Retry \/ Crash
      BY <1>6, RecoveryErrorKeeps, RefuseKeeps, RetryKeeps, CrashKeeps
<1>7. QED
      BY <1>1, <1>2, <1>3, <1>4, <1>5, <1>6 DEF Next

\* The invariant says what RestoreAtomic promises.
LEMMA Atomic == IInv => RestoreAtomic
<1> SUFFICES ASSUME IInv PROVE RestoreAtomic
    OBVIOUS
<1>1. \A f \in crash : f.live # None /\ f.live.data \in {before, target}
      BY NoneAssumption DEF IInv, Safe, Image
<1>2. ASSUME pc \in Unvalidated, NEW f \in crash
      PROVE  \/ f.live.data = before
             \/ f.manifest # "none" /\ f.backup # None /\ f.backup.data = before
      BY <1>2, FreshImage DEF IInv, Steps, Unvalidated, TypeOK
<1>3. answer = "ok" => \A f \in crash : f.live.data = target /\ f.manifest = "none" /\ f.backup = None
      BY DEF IInv, Clean
<1>4. pc \in {"open", "candidate"} /\ ~fs.live.same => \A f \in crash : f.manifest = "none"
      BY DEF IInv, Steps
<1>5. QED
      BY <1>1, <1>2, <1>3, <1>4 DEF RestoreAtomic

-----------------------------------------------------------------------------
(* Theorems                                                                  *)

\* For any ledgers, however often a vault is restored, fails and recovers: a restore happens or
\* does not, and one that was answered with success is final (RestoreSnapshotContext,
\* recoverRestoreState).
THEOREM RestoreAlwaysAtomic == Spec => []RestoreAtomic
<1>1. Init => IInv
      BY InitIInv
<1>2. IInv /\ [Next]_vars => IInv'
      BY NextIInv
<1>3. IInv => RestoreAtomic
      BY Atomic
<1>4. QED
      BY <1>1, <1>2, <1>3, PTL DEF Spec

\* For any ledgers: a vault whose old and new database have no identity marker is never refused
\* by the recovery (recoverRestoreState).
THEOREM AlwaysOpensAgain == Spec => []OpensAgain
<1>1. Init => IInv
      BY InitIInv
<1>2. IInv /\ [Next]_vars => IInv'
      BY NextIInv
<1>3. IInv => OpensAgain
      BY DEF IInv, OpensAgain
<1>4. QED
      BY <1>1, <1>2, <1>3, PTL DEF Spec
=============================================================================
