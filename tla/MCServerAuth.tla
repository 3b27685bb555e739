---------------------------- MODULE MCServerAuth ----------------------------
(***************************************************************************)
(* Requests on accounts for TLC.                                           *)
(***************************************************************************)
EXTENDS ServerAuth, TLC

CONSTANT MaxEvents   \* ids issued and changes made, together

Symmetric == Permutations(Procs) \cup Permutations(Users)

\* Ids issued and changes of an account, together.
FewEvents == \A u \in Users : issued + acct[u].rev <= MaxEvents

\* Every request is answered (ServerAuth), seen from one goroutine: they are interchangeable.
RequestsAnswered == LET p == CHOOSE q \in Procs : TRUE IN Answered(p)
=============================================================================
