--------------------------- MODULE MCVaultManager ---------------------------
(* Instances of VaultManager for TLC, with a key that is not the vault's.     *)
EXTENDS VaultManager

CONSTANTS dek, other

MCKeyOf == [v \in Vaults |-> dek]

\* The goroutines refer to at most two entries, an old and a new one, and one presents the
\* wrong key.
FewEntries ==
    /\ Cardinality(Referenced \ {0}) <= 2
    /\ Cardinality({p \in Procs : proc[p].key = other}) <= 1
=============================================================================
