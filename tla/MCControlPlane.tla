--------------------------- MODULE MCControlPlane ---------------------------
(* An instance of ControlPlane for TLC: two people who administer each       *)
(* other, and a client with a reading that may be stale.                    *)
EXTENDS ControlPlane, FiniteSetsExt, TLC

CONSTANTS u1, u2, i1, t1, t2, c1, k1

Symmetry == Permutations(Users) \cup Permutations(Invites) \cup Permutations(Tickets)
            \cup Permutations(Clients) \cup Permutations(Passkeys)

\* One replacement of a password or a recovery envelope and one of a passkey: enough for a
\* reading of any of them to be stale when it is presented.
Replacements(u) == (user[u].pw - 1) + (user[u].rec - 1)
FewChanges == MapThenSumSet(Replacements, Users) <= 1 /\ \A k \in Passkeys : passkey[k].rev <= 2
=============================================================================
