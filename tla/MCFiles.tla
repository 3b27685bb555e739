------------------------------ MODULE MCFiles ------------------------------
(* What protects the files of a data root, for TLC: the journals of the       *)
(* restore of a snapshot, of the retention of snapshots and of the migration  *)
(* of plaintext databases, the instances of a vault, and the budget and       *)
(* the pins of CSV transfers.  They share no state here, so a behaviour is of *)
(* one of them: part says which.                                              *)
EXTENDS RestoreJournal, TLC

CONSTANTS ledger, snapshot, marked, Procs, Users, vault, key

VARIABLES part, dir, power, step, op, why, todo, errs, changed, gen, victims, base, used, faults

VARIABLES source, archive, quarantine, dest, same, temp, stage, journal, manifest, found, at, k, then, owed, writes

VARIABLES slot, reserved, writer, stored, transfer, screen

csvVars == <<slot, reserved, writer, stored, transfer, screen>>

VARIABLES entries, byVault, ent, shutting, caller

vaultVars == <<entries, byVault, ent, shutting, caller>>

pruneVars == <<dir, power, step, op, why, todo, errs, changed, gen, victims, base, used, faults>>

migrationVars == <<source, archive, quarantine, dest, same, temp, stage, journal, manifest, found, at, k, then, owed, writes>>

MCGens == 1..4

Retention == INSTANCE PruneJournal WITH
    fs <- dir, crash <- power, pc <- step, target <- gen,
    Gens <- MCGens, Size <- [g \in MCGens |-> IF g = 3 THEN 2 ELSE 1],
    MaxKeep <- 2, Budget <- 3, MaxFaults <- 4

\* A database with a write-ahead log, and a snapshot of it.
Migration == INSTANCE DesktopMigration WITH pc <- at, Owner <- <<1, 1, 2>>, MaxWrites <- 2

\* Two rows that differ in their memo only, in a file with an image and one in an older format.
RowA == <<"row", "memo a">>
RowB == <<"row", "memo b">>

Csv == INSTANCE CsvTransfers WITH
    used <- reserved, ledger <- stored, op <- transfer, Rows <- {RowA, RowB},
    Sources <- {[v3 |-> TRUE, rows |-> {RowA}, images |-> 1], [v3 |-> FALSE, rows |-> {RowB}, images |-> 0]},
    MaxCSVImportBytes <- 1, MaxCSVImportWireBytes <- 2, MaxCSVJSONWireBytes <- 1,
    Scratch <- 1, Encoded <- 2, Worst <- 2, Exact <- 1, MaxStored <- 1

\* Two users, in requests that may be cancelled.
Vault == INSTANCE VaultManager WITH
    closing <- shutting, proc <- caller, Vaults <- {vault},
    Keys <- {key}, KeyOf <- [v \in {vault} |-> key], Cancellable <- Procs

SuiteInit ==
    /\ part \in {"restore", "retention", "migration", "vault", "csv"}
    /\ Init /\ (part = "restore" \/ before = ledger)
    /\ Retention!Init /\ Migration!Init /\ Vault!Init /\ Csv!Init

SuiteNext ==
    \/ part = "restore" /\ Next /\ UNCHANGED <<part, pruneVars, migrationVars, vaultVars, csvVars>>
    \/ part = "retention" /\ Retention!Next /\ UNCHANGED <<part, vars, migrationVars, vaultVars, csvVars>>
    \/ part = "migration" /\ Migration!Next /\ UNCHANGED <<part, vars, pruneVars, vaultVars, csvVars>>
    \/ part = "vault" /\ Vault!Next /\ UNCHANGED <<part, vars, pruneVars, migrationVars, csvVars>>
    \/ part = "csv" /\ Csv!Next /\ UNCHANGED <<part, vars, pruneVars, migrationVars, vaultVars>>

SuiteSpec == SuiteInit /\ [][SuiteNext]_<<part, vars, pruneVars, migrationVars, vaultVars, csvVars>>

\* Goroutines are interchangeable.
Symmetric == Permutations(Procs)

\* At most one user previews, as a preview is private and what disturbs it are the other's
\* writes, and the ledger holds at most one row.
Previewing(p) == screen[p] # None \/ transfer[p].preview \/ transfer[p].pins # None
FewPreviews ==
    /\ \A p, q \in Procs : Previewing(p) /\ Previewing(q) => p = q
    /\ Csv!Stored(stored) <= 1

\* No snapshot is lost before its successor is durable, and the limits hold (PruneJournal).
RetentionAtomic == Retention!RetentionAtomic

\* No content of a legacy database is lost (DesktopMigration).
LegacyDataKept == Migration!LegacyDataKept

\* A stopped migration can be resumed, and leaves no plaintext in the end (DesktopMigration).
MigrationResumes == Migration!MigrationResumes

\* A vault has one instance (VaultManager).
OneInstancePerVault == Vault!OneInstancePerVault

\* A confirmed preview tells what the import does (CsvTransfers).
PreviewHolds == Csv!PreviewHolds

\* Temporary bytes are paid for as long as they exist (CsvTransfers).
BudgetCoversLive == Csv!BudgetCoversLive
=============================================================================
