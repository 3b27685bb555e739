-------------------------- MODULE MCRestoreJournal --------------------------
(* An instance of RestoreJournal for TLC: two ledgers that older versions    *)
(* left, without the identity marker, and one that has it.                   *)
EXTENDS RestoreJournal

CONSTANTS ledger, snapshot, marked
=============================================================================
