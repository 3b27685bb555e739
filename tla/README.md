# Verification of Omni Money

Omni Money is a household ledger in Go.  A server keeps one encrypted SQLite
database (a "vault") per user and opens it with a key that only the user's
password, recovery secret or passkey unwraps; a desktop build runs the same core
behind one local profile.  This directory holds TLA+ models of the parts whose
correctness depends on interleavings, crashes, retries and long sequences of
calls, the TLC instances that check them, and TLAPS proofs.

`PROJECT.json` is the index: components, runs, mutants (one seeded bug for each
property of a run, which the property must catch), the map from definitions to
source lines, findings, hazards and theorems.

## The system

| Part | Source (`src/`) | State | What is hard | Model |
| --- | --- | --- | --- | --- |
| Save queue | `backend/core/transaction_saves.go`, `backend/database/transaction_save_worker.go` | rows of `transaction_save_requests`, the worker's flags | lost replies, retries, a crash between receipt and application, wake-ups, restore to an older state | `TransactionSaves`, `SaveQueue`, proofs |
| Ledger | `backend/core/service.go`, `card_reconciliation.go`, `write_transaction.go`, `service_csv_*.go` | transactions, balances, links, tags, images, settings | invariants across tables that every handler must restore before it commits; what is exported must be importable | `LedgerTables`, `Ledger`, proofs |
| CSV transfers | `backend/core/service_csv_full.go`, `backend/api/router.go`, `app.go` | one slot, a budget of temporary bytes, pins | the ledger changes between preview and import; every error path must give space back | `CsvTransfers` |
| AI transactions | `backend/core/ai_transaction.go` | idempotency rows, daily quota | retries after a lost answer, midnight | `AITransactions` |
| AI gateway | `backend/middleware/auth.go`, `ai_failed_auth_audit.go` | rate windows, windows of suppressed audit records | bounded maps, counts that must not be lost when a window goes | `AIGateway` |
| Instance lifecycle | `backend/database/database.go` | its locks, the snapshot worker, a process-wide admission | close and restore against snapshots of several vaults | `InstanceLifecycle` |
| Snapshot restore | `backend/database/database.go` | live file, candidate, backup, journal | power failure and I/O error at every step; recovery interrupted itself | `RestoreJournal`, proofs |
| Snapshot retention | `backend/database/database.go` | public and hidden generations, journal | the same, in a directory that several operations repair | `PruneJournal` |
| Vault manager | `backend/vault/manager.go` | two tables of entries, reference counts, entry states | logins, logouts, drains, restores and shutdown on one entry; waiting outside the lock | `VaultManager`, proofs |
| Sessions, server accounts | `backend/middleware/session.go`, `backend/serverauth/service.go` | sessions and their leases, account locks, derivation slots | eviction, revocation, rotation and restore against requests in flight | `ServerSessions`, `ServerAuth`, proofs |
| Login throttle, passkeys | `backend/control/login_throttle.go`, `backend/serverauth` | failure counters, lock times, ceremonies | a request uses the time it arrived at while the lock and the clock move | `LoginLimits` |
| Control plane | `backend/control` | users, invitations, tickets, passkeys, credential revisions | proofs made outside the transaction; capabilities of a demoted administrator; the last administrator | `ControlPlane`, proofs |
| Desktop account | `backend/desktopaccount`, `app.go` | manifest, coordinator, leases, two generations | a lock or a crash against a dialog, a snapshot or a change of the password | `DesktopAccount` |
| Desktop migration | `backend/desktopaccount/migration.go`, `backend/securedb/copy_migration.go` | plaintext files, archives, quarantine, journal | crash between any two files; an older program that still writes | `DesktopMigration` |

The parts meet in five places.  A *session* holds a root lease of the *vault
manager*, and every request borrows from it: `ServerAuth` extends `ServerSessions`
and has the vault in it, at the level of its leases.  The *save queue* and the
*ledger* are tables of one vault, so a snapshot restore takes both back together:
`TransactionSaves` has snapshots of both.  A *restore* needs the vault manager's
exclusive lease and leaves the vault closed.  *Server accounts* commit a change in
the control plane first and drain the user's vault after it.  *Passwords and passkeys*
share one throttle row and one pair of account locks: `LoginLimits` has both.

## The modules and the code

Every operation of the code that is one database transaction, or one critical
section of a mutex, is one action.  What the code does between two of them (key
derivation, waiting on a channel, an `fsync`) separates two actions, and other
processes, crashes and errors come in between.  An operation that answers an error
and changes nothing is not a step.

**`TransactionSaves`**.  `rows` and `ledger` are on disk, `images` are snapshots of
both, `pc`, `cur`, `pendingWake` and `closing` are the worker's.  Accepting, answering
and polling are separate actions, since a reply can be lost after the commit.  The
worker reads, prepares, applies or fails a request in separate steps.  A process death
resets what is in memory; a restore replaces `rows` and `ledger` together.
Payloads are model values with a size; `Size` stands for the byte budget.
**`SaveQueue`** is what the queue promises: a request is received, and later applied
once or rejected, in the order of receipt; a restore takes both back to an earlier
state.  `TransactionSaves` implements it under a refinement mapping (checked by TLC
and proved).

**`LedgerTables`** has the tables of a ledger and what is computed from them;
**`Ledger`** the operations, each one SQL transaction.  The amount of a row is its
effective, signed one.  Ordinary and archive-only images share one table with a mark.
A date is its stored text, as the tuple of what text order compares in turn (day, separator,
time, ending), because the database sorts the column as text and the program writes two
forms into it: what the driver makes of a `time.Time` (`2026-01-02 15:00:00+00:00`, from the
user interface and the older CSV formats) and, in a version 3 import, the text of the file
(`2026-01-02T15:00:00Z`, which is how an export writes every date).  Fractions of a second
are left out.  A parsed archive is a ledger with the ids of its source and the place of each
row in the file; an export's places follow the stored order, not the dates it writes.  The initial states are ledgers that older
versions left: one may have a card with two banks, several roots of one name, or images
above the quotas, because the code has rules for these.

**`CsvTransfers`**.  An operation goes from admission (the slot `csvHeavySlots`) to its
clean-up; `res` is what it has reserved of the budget and `live` what its files and
buffers hold.  Uploads, JSON and string imports, desktop file imports, previews,
downloads and backups are all there.  A digest is the value it was computed from: a
file's rows, or the rows of the ledger.  Any step may fail.

**`AITransactions`**.  `AddAITransaction` is one SQL transaction, but a request takes
its day and its digest before it.  A digest is the content of a request without its form.
**`AIGateway`** is the middleware in front of it: each reading of the clock is a step.

**`InstanceLifecycle`**.  `snapshotMu`, `mu`, `lifecycleMu`, `writer`/`readers` and
`admission` are the locks, with their holders; `worker` is the goroutine of the automatic
snapshots.  A writer that waits for `snapshotLifecycle` keeps new readers out, as
`sync.RWMutex` does.

**`RestoreJournal`**.  `fs` is the directory and `crash` the set of directories that a
power failure may leave: an operation is added to it as possible, and becomes certain
when the directory is synced.  `same` says whether a file has the bytes of which the
journal holds the digest.  `Marked` are the databases with the identity marker: validating
one of them changes its bytes (`Rewritten`).  Recovery may also fail to read or validate a
live file that is one of the two images (`DoubtLive`): it then counts as missing.

**`PruneJournal`** uses the same idiom for the directory of snapshot generations.  A
file system that keeps the order of its operations (a journaling one) is assumed.
Creations, listings and restores of snapshots take the process's one validation slot, so they
exclude each other; `cleanOldSnapshots` is called by the automatic worker only, after a
creation that succeeded and before it gives the slot back (`database.go:5216-5228`), so it
runs on what that creation left.

**`VaultManager`**.  `entries`, `byVault` and `closing` are the fields of `Manager`;
`ent` holds the entry structs, whose `ready`, `instance`, `retired` channels are one
state each; `proc` holds the goroutines.  Each action is one critical section of
`Manager.mu`.  Opening an instance with a wrong key fails.  Entry records are used
again when nothing refers to them.

**`ServerSessions`** is the table of sessions, with the critical sections of
`SessionManager.mu` as its actions; **`ServerAuth`** adds the requests that log in,
reauthenticate, change an account or restore a snapshot, with the locks and derivation
slots they take.  The vault is a state and two counts, as `VaultManager` shows it to its
callers.  Whether a secret is right or an administrator entitled is a choice of the
environment.

**`LoginLimits`** is one account with its throttle row, its two locks, and the table of
passkey ceremonies.  Each request keeps the time it arrived at (`dependencies.now()`)
while `now` goes on.

**`ControlPlane`**.  Tables of the control database; a client reads revisions first
(`Preflight`), proves a secret outside any transaction, and commits with the revisions
it read.  An envelope is its revision.  Expiry is an action that may happen to any open
invitation or ticket.

**`DesktopAccount`** is the coordinator (`instance`, `active`, `draining`, `closed`), the
manifest on disk, and the calls of the user interface, whose mutex `App.mu` is held over
the waits.  Generations are only ever compared with a recorded one, so the model keeps
who recorded one that is out of date.

**`DesktopMigration`**.  A file is the version of its content, 0 when it is absent.  The
actions follow `MigrateLegacy` from the discovery to the delivery of the recovery secret;
every write of the journal is a step, and after each the process may stop and start
again.  The older program writes to plaintext files as long as they are there.

The MC modules bind the constants.  `MCFiles`, `MCGuards` and `MCProgress` each check
several components that do not touch each other: one is extended, the others are named
instances over variables of their own, and `part`, chosen in the initial state and never
changed, says whose steps the behaviour takes.  Their properties are the components' own
under short names.

## Runs

Times are for two workers; states are distinct ones.

| Run | Question | Bounds | States, time |
| --- | --- | --- | --- |
| `save_queue` | a save is applied exactly once; an acknowledged one stays; no wake-up is lost; refinement of `SaveQueue` | 2 ids, 2 contents of sizes 1 and 2, a queue of 2 and 3 bytes, 1 fault, 1 snapshot | 301,800, 60 s |
| `control` | an administrator remains; capabilities follow the role; one open bearer; every change of a credential is proven | 2 users, 1 invitation, 2 tickets, 1 client, 1 passkey, 3 revisions | 317,000, 55 s |
| `ledger_links` | links are classified, no card gains or comes with a second bank, nothing is reconciled twice unnoticed, clean exports restore | 4 transaction ids, 2 accounts, all lists | 5,250, 40 s |
| `ledger_rows` | balances exact at the limits of the integer; one ordinary root of a name; image overage never grows; exports restore | 4 transaction ids, 5 tags, 3 images, 2 times of one day, 2 amounts, limit 3 | 4,120, 65 s |
| `files` | see below | five components | 297,000, 65 s |
| `guards` | see below | five components | 342,000, 55 s |
| `accounts` | no session outlives a change or a logout; an answered change left no older work in the vault, and a restore is alone; nothing taken is kept | 2 requests, 1 user, 1 session at a time, 1 derivation slot, 3 session ids and changes together | 392,000, 40 s |
| `accounts_answered` | every request ends | the same with 2 session ids and changes together | 119,000, 65 s |
| `vault_drains` | a lease keeps its database open; every drain and shutdown that is not cancelled, and every restore, ends with the vault closed | 3 goroutines, one of them cancellable, 1 user, 1 vault, a right and a wrong key | 172,000, 60 s |
| `progress` | every accepted save is settled; the desktop program's and a database's exclusive operations get in | saves: 2 ids, a queue of 1, 2 faults; desktop: 2 goroutines; lifecycle: 2 goroutines, 1 database, and another vault that takes the admission | 50,700, 55 s |
| `vault_cancelled_drain`, `restore_unverifiable` | the two findings | | seconds |

`files` has, by `part`:

- *restore*: `RestoreAtomic`, the live file is the old or the new ledger and the old one
  can be brought back until the new one is validated; `OpensAgain`, a vault
  without the identity marker opens again after every failure (one with the marker may
  not: the second finding).  Ledgers with and without the marker; any number of failures.
- *retention*: `RetentionAtomic`, no generation is lost before its successor is durable,
  every journal can be completed, both limits hold.  4 creations, 2 generations kept,
  3 units of space, 4 faults.
- *migration*: `LegacyDataKept`, no content of a legacy file is lost; `MigrationResumes`, if
  nothing else writes to the files a stopped migration can go on and leaves no plaintext.  A database with its write-ahead log
  and a snapshot of it, 2 writes of the older program.
- *vault*: `OneInstancePerVault`, no vault is open twice.  2 goroutines, 2 users, 1 vault,
  waits cancelled at any time.
- *csv*: `PreviewHolds`, an import that pins a preview does what that preview said;
  `BudgetCoversLive`, temporary bytes are reserved as long as they exist.  2 goroutines,
  two rows that differ in the memo, a v3 file with an image and a legacy one; one of the two
  previews, and the ledger holds one row at most.

`guards` has *limits* (`LockHolds`: no failure shortens, extends or removes a lock, and while
it runs secrets are compared only by requests that had passed the check when it was set; `CeremonyOnce`: a ceremony has one effect), *desktop* (`DesktopLeases`: an
operation runs on the open database its lease and its user's choice are for; `DesktopWayIn`:
the user knows a password that opens the vault), *lifecycle* (`SnapshotOwed`: a write is
followed by a snapshot that begins after it, of an open database), *ai* (`AIOnce`: a key adds
one transaction and the quota counts it) and *gateway* (`AuditAccounts`: every refusal is in
the log or in a count that is still to be logged).  Two goroutines each; the limits are 1 or 2
and the clock runs to 2 or 3, which is as long as a lock, its doubling and the decay of failures.

*Why the bounds are enough to be interesting.*  Two saves and a queue of two reach
the limit, a conflict and an order.  Three goroutines are needed for a drain that
takes over the retirement another goroutine waits for while a third logs in; two users
of one vault for a binding that changes.  Four faults interrupt a creation, its recovery
and the recovery of that, and fail a deletion.  Two users are the least for a demotion of one administrator by
another who holds a ticket; that an administrator with an open invitation is demoted takes
three, and is left to the theorems on the control plane.  Four transactions allow a card with two banks and a bank with
two cards.  A balance limit of 3 with amounts -2 and 3 makes the order of rows decide
whether the sum is representable.  Ids are never reused, so the bound on ids also bounds
the number of insertions in a behaviour: some initial ledgers have fewer ids left than the
bound, so that a few insertions, deletions and edits are exhausted quickly and the limit itself
is met.  With one session at a time the second login evicts the first.  Larger instances were
explored by hand without a violation: the save queue, the control plane, the accounts and the
vault manager with wider constraints (0.7, 1.2, 2.3 and 0.5 million states), two vaults (2.6
million), accounts with two users (6.6 million), a lifecycle with two databases, CSV transfers
with two copies of a row, and the retention of five creations with five faults (1.4 million).

*Symmetry* is used for interchangeable request ids, goroutines, users, invitations,
tickets, passkeys and clients, in runs that check invariants and action properties, and in
no run with liveness.  There goroutines and ids are interchangeable too, so the property is
stated for one of them (`EventuallySettled`, `DesktopDrains`, `LifecycleGetsIn`,
`RequestsAnswered`).  The clocked parts of `guards` stutter at their bounds.

*Constraints* bound how much happens in one behaviour, besides the constants: `FewChanges`
(`control`: one replacement of a password or recovery envelope in all, one of each passkey),
`FewEvents` (`save_queue`: two of the refused requests, the handlers about to answer and the
snapshot; `progress`: two of the handlers, the faults and the snapshot; `accounts`: the sessions
issued and the changes made), `FewEntries` (`vault_drains`: an old and a new entry, one goroutine
with the wrong key), `FewPreviews` (`files`: above).  A behaviour is examined as far as it stays
within them, liveness included.  The theorems below need no constraint and hold for every value of the bounds.

*Deadlock* is checked in every run but `accounts` and `accounts_answered`, in which the
server may be shut down.

## Findings

1. `vault_cancelled_drain`.  A drain that takes over an automatic retirement clears
   `autoRetiring`, so the retiring goroutine leaves; when the request that drains is then
   cancelled, nobody is left to close the entry.  It stays draining, its key in memory,
   until another drain or a restart, and `Acquire` answers `ErrDraining`.  A comment
   (`serverauth/service.go:945-948`) says the last release completes the drain.
2. `restore_unverifiable`.  Validation after the swap writes `application_id` again in a
   database with the identity marker, so the published file no longer has the digest the
   journal holds.  A stop between the removal of the backup and of the journal leaves a
   vault that every later start refuses, where a comment (`database.go:3500-3502`) says the
   next start can verify the state and retry.

Smaller observations, met while modelling, for which no run exists:

- An account that is in both lists of the settings gives an export that the import refuses
  (`service_csv_full.go:3196`, against the comment at `service.go:764`);
  `CleanBackupRestores` is about ledgers without one.
- Balances run in the text order of the dates, which a comment (`service.go:1530`) calls the
  order of time.  It is not when an account has rows of both forms on one day: after the import
  of an archive with a row at 10:00, a row entered for 15:00 of that day is stored before it, and
  an export and a restore put it after it, with other balances in between (TLC finds this when
  the premise `InTimeOrder` is taken out of `CleanBackupRestores`).  `BalancesExact` is about the
  stored order, and `CleanBackupRestores` about ledgers whose accounts are stored in the
  order of time.
- After any write of the older program the migration refuses until it is repaired by hand,
  which is what the code intends.
- In `desktopaccount`, a set-up that fails after the rename of the manifest deletes the vault
  that manifest names, and an interrupted one leaves `vaults`, after which `New` refuses; a
  recovery that fails after publication leaves a recovery secret nobody was told.
  `DesktopWayIn` is about set-ups that were answered.
- The clean-up of a CSV operation releases its reservation also when a spool file could not be
  removed (the comment at `service_csv_full.go:88-94` says until the bytes stop being live);
  `BudgetCoversLive` is about the operation's lifetime.  Pins do not include the mode.
- Counts of suppressed refusals are logged only with a later refusal, so the last ones of a
  process can stay unlogged; `AuditAccounts` counts them as still to come.

## Fairness

`TransactionSaves` (in `progress`): weak fairness of the worker's step (a goroutine that is
runnable is run), of the answer of a handler that has committed, of opening, registering and
the end of a close (each is a call in progress), and of a client's poll (every 250 ms while
a save is unsettled).  Faults are bounded, and no fairness is assumed of the user's
actions except that a closed vault is opened again: without it nothing can settle.

`DesktopAccount` (in `progress`): weak fairness of the end of a running call, strong fairness of
a lock or shutdown that has been called, because a `sync.Mutex` that is free again and again is
obtained in the end.  `InstanceLifecycle` (in `progress`): weak fairness of the snapshot worker
and of the other vaults' snapshots that hold the admission, strong fairness of the acquisition of
a lock, for the same reason (and because `sync.RWMutex` keeps new readers behind a waiting
writer, which the model has).

`VaultManager` (`vault_drains`): weak fairness of every goroutine's own progress and of the release
of its lease, which holds because requests and sessions end.  `Cancellable` is the set of
goroutines whose context may be cancelled: `DrainCompletes` is about the drains of the others, which
may meet cancelled ones; that a cancelled drain is completed too is false, the first finding.

`ServerAuth` (`accounts_answered`): weak fairness of every request's own next step and of the
closing of a drained vault, which `vault_drains` shows.

## Proofs

TLAPS proves the following for every value of the constants that satisfies the named
assumptions.

| Module | Theorems | Assumptions |
| --- | --- | --- |
| `TransactionSavesProofs` | `AppliedExactlyOnce`, `AppliedInReceiptOrder`, `ReceiptsDurable`, `RefusedNeverApplied`, `WakeupsKept`, `InputNeverDropped`, `RefinesSaveQueue` | `IdsAssumption`, `ContentsAssumption`, `BoundsAssumption` |
| `ControlPlaneProofs` | `AdministratorAlwaysRemains`, `CapabilitiesAlwaysFollowRole`, `BearersAlwaysSingle`, `ResetAlwaysRevokes`, `ChangesAlwaysProven` | `ControlAssumption` |
| `VaultManagerProofs`, on `VaultManagerFacts` | `OneInstanceAlways`, `LeaseAlwaysKeepsInstance` | `ProcsAssumption` |
| `RestoreJournalProofs` | `RestoreAlwaysAtomic`, `AlwaysOpensAgain` | `NoneAssumption` |
| `ServerAuthProofs` | `NeverStale`, `LocksAlwaysReturned` | `AuthAssumption` |
| `LedgerProofs`, on `LedgerEditProofs` | `BalancesAlwaysExact`, `LinksAlwaysClassified`, `OneBankAlways`, `AlwaysCountedOnce` | `LedgerConstants`, `ArchivesAssumption`, `LegacyAssumption` |

*Save queue.*  `ExactlyOnce` alone is not inductive: a restore brings back an older `rows`
and `ledger`, and the worker applies what it read in an earlier step.  `IInv` therefore
states `DiskOK` (completed rows and mutations correspond, in the order of receipt) of the
current disk and of every snapshot, `ReceiptsOK` of the answers clients hold, `WorkerOK`
(the request in the worker's hands is still the oldest pending one, with the contents it read)
and `WakeupOK`.  One lemma says what each kind of change does to `DiskOK`; the step lemmas
cite them action by action.  The refinement uses the same invariant: `CurIsNext` shows
that the request the worker applies is the one the abstract queue would.

*Control plane.*  `IInv` is the type invariant with `AdministratorRemains`,
`CapabilitiesFollowRole` and `OneOpenBearer`; the three need the types and, for the last two,
each other, because a demotion must revoke exactly what the demoted administrator opened.
`ResetAlwaysRevokes` follows from the only action that spends a ticket.  `ChangesAlwaysProven`
goes through every action that writes a user's row: revisions only grow, so a commit whose
revisions match was made from what it replaces.

*Vault manager.*  Neither property is inductive.  That a vault is open once follows from the
two tables: `TablesOK` says that entries in use and the tables name each other.  That a lease
has its instance follows from the counts: a closer goes on when `refs` is zero, so `CountsOK`
ties `refs` and `roots` to the goroutines that hold a lease, and `LeasesOK`, `OwnersOK` and
`CallOK` say what a goroutine at each step has in hand, a restore the only lease included.
The counts need the cardinality of sets of goroutines.  `VaultManagerFacts` takes the four facts
about it as a hypothesis (`ProcsCount`, and `EntryLeft`: an entry is left for a new login), so
that its 48 lemmas do without the theory of finite sets; `VaultManagerProofs` proves both and
discharges them.  `LedgerEditProofs` does the same with `RowsCount`, which `LedgerProofs` proves.

*Snapshot restore.*  `IInv` has two halves.  `Steps` says what the directory holds at each step of
a restore.  `Safe` says of every directory a failure may leave that its live file is the old or
the new ledger and that artifacts of a journal are what the journal means, and `SameLedger` that
a vault opened before its last clean-up is synced can only fall back to the same ledger: without
it the next restore could not call what it finds the ledger of before.  Files without a journal
may be of an older restore; the recovery does not read them.  TLC checked `IInv` with four
ledgers, two of them marked.

*Server accounts.*  `NoStaleSession` holds because a login keeps the account lock from its read of
the account row to the publication of its session, and a change keeps it from its commit to
`DeleteAllSessionsForUser`.  `IInv` is therefore `NoStaleSession` with `Requests` (`LocksOK`: a lock
belongs to the one request that is between its lock and its unlock; `RequestOK`: a login that has
read the row still has the account's revision in its hands, which is where the lock is used) and
`Sessions` (ids grow, and a login has one session at a time, so that what a logout records cannot
come back by a rotation).  Two lemmas carry the session table (`FewerSessions` for every action
that removes, ages or marks sessions, `NewSession` for a login and a rotation); the lemmas on
requests say what a request at each step may take and give back, and `LocksAlwaysReturned`, the
part of `NothingLeaks` about locks and slots, follows from the same invariant.

*Ledger.*  `IInv` says that transactions and settings are typed, that existing ids are at most
the sequence's value, that links are classified (`LinksIn`) and balances exact (`ExactIn`).  The
bound on ids is what makes an insertion fresh, and it carries the imports: their new ids are
the places of the rows in the file, above the sequence.  `RecalculateKeeps` and `EditExact` show that recalculating the
accounts an edit touches leaves every balance exact; `OneBankAlways` is about steps and is
proved with the invariant's step lemma (`NextIInv`).  `AlwaysCountedOnce` needs of the invariant
that stored links are ordered pairs and settings lists of accounts: the rest is that the
restricted query of `GetCardReconciliation` sees every link of a card it counts.

The assumptions of the other modules only say that constants have their types; TLC evaluates
all of them.

*Only model-checked*: everything about liveness (`EventuallySettled`, `DrainCompletes`,
`RequestsAnswered`, `DesktopDrains`, `LifecycleGetsIn`), which is beyond the prover;
`OneOrdinaryRoot`, `OverageNeverGrows` and `CleanBackupRestores`, which speak of what folds over
tags, sums of bytes and renumbering compute and would need induction over data; `DrainIsFinal` and
the part of `NothingLeaks` that counts leases, for which `ServerAuthProofs` would need what
`VaultManagerProofs` has on counts, for sessions and requests together; and every property of
`PruneJournal`, `LoginLimits`, `InstanceLifecycle`, `DesktopAccount`,
`DesktopMigration`, `AITransactions`, `AIGateway` and `CsvTransfers`.  Proved but in no run of their
own are `ReceiptOrder`, `ConflictsNeverApplied`, `InputKept` and `ResetLeavesNoPasskey`;
`LocksReturned` is checked as a conjunct of `NothingLeaks`.

## Not modelled

- *Single calls to the operating system and to SQLCipher* (opening, keys, online backups,
  permissions, renames, locks between processes): a step that succeeds or fails.
- *Cryptography* (envelopes, tokens, digests): an envelope is opened by exactly the secret that
  sealed it and a digest is what it was computed from.
- *Parsing, validation, formatting* of requests, amounts, text, images and the CSV formats, and
  HTTP routes around the modelled operations: functions of one input without state.
- *Operators' commands* for AI credentials and audit keys: each a read, a change and a
  replacement of one file without a lock, run by hand.
- *Legacy single-password login and one-time passwords*: used by `NewRouter` only, which
  `server.go` does not start.
- *The general rate limiter*: counters in a window; at the limit of tracked keys a client can get
  up to twice its limit (an overflow window, then its own), and nothing in the repository
  states a bound to check this against.
- *Passkey listing with its upgrade of envelopes, sign counters and decoys*; the schema migration of
  the control database; the encryption of a server vault that is still plaintext
  (`EnsureEncrypted`); Windows variants of file operations.
- *Server start*, which reads its configuration once, and *build-time programs*.
- *The web client and the shell scripts*: the models let a client send any request in any
  order, so nothing rests on the client's own retries or timers.
