------------------------ MODULE MCTransactionSaves ------------------------
(* Instances of TransactionSaves for TLC: payload sizes that make both queue *)
(* limits bite, and the symmetry of the operation UUIDs (safety runs only).  *)
EXTENDS TransactionSaves, TLC

CONSTANTS a, b, small, large

MCSize == [x \in Contents |-> IF x = small THEN 1 ELSE 2]

\* Any two of: refused requests, handlers about to answer, a snapshot.
FewEvents == Cardinality(conflicts) + Cardinality(waiting) + Cardinality(images) <= 2

IdSymmetry == Permutations(Ids)
=============================================================================
