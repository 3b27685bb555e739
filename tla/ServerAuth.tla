----------------------------- MODULE ServerAuth -----------------------------
(***************************************************************************)
(* serverauth/service.go with the handlers of api/server_auth_routes.go:   *)
(* logins, reauthentication, and the changes of an account that end its    *)
(* sessions.  Composes the session table with account locks, the slots for *)
(* key derivation, the account row and the drain of the user's vault.      *)
(*                                                                         *)
(* Locks and slots never wait: a request that cannot have one is refused.  *)
(* Whether a secret is right, a name valid or an administrator entitled is *)
(* a choice of the environment; ControlPlane has the transactions, and     *)
(* LoginLimits the throttle.                                               *)
(***************************************************************************)
EXTENDS ServerSessions

CONSTANTS
    KDFSlots,     \* MaxConcurrentKDF
    MaxChanges    \* bound: changes of one account

ASSUME AuthAssumption == KDFSlots \in Nat \ {0} /\ MaxChanges \in Nat /\ None \notin Procs

VARIABLES
    mailLock,   \* locks["email:..."], by the user the address belongs to
    userLock,   \* locks["user:..."]
    slots,      \* kdfSlots: the requests that hold one
    done        \* user -> the latest change that was answered after its drain

authVars == <<mailLock, userLock, slots, done>>
vars == <<sessionVars, authVars>>

Own   == {"password", "recovery", "passkeys"}   \* changes of the caller's own account
Admin == {"disable", "role", "enable"}          \* changes an administrator makes

Init ==
    /\ sess = [s \in {} |-> 0]
    /\ issued = 0
    /\ out = {}
    /\ up = "serving"
    /\ vault = [u \in Users |-> Closed]
    /\ acct = [u \in Users |-> [active |-> TRUE, pw |-> 0, rev |-> 0]]
    /\ proc = [p \in Procs |-> Idle]
    /\ mailLock = [u \in Users |-> None]
    /\ userLock = [u \in Users |-> None]
    /\ slots = {}
    /\ done = [u \in Users |-> 0]

\* reserveKDF never waits: without a free slot the request is refused.
SlotFree == Cardinality(slots) < KDFSlots

Unlocked(lock, p) == [u \in Users |-> IF lock[u] = p THEN None ELSE lock[u]]

Goto(p, pc) == proc' = [proc EXCEPT ![p].pc = pc]

\* The deferred unlocks and releases of a request that ends.
Leave(p) ==
    /\ proc' = [proc EXCEPT ![p] = Idle]
    /\ mailLock' = Unlocked(mailLock, p)
    /\ userLock' = Unlocked(userLock, p)
    /\ slots' = slots \ {p}

\* Room for the id this request may issue (the bound MaxIds).
IssuesId(q) == q.pc \in {"mail", "lookup", "verify", "unwrap", "assert", "acquire", "create", "reauth", "rotate"}
SpareId == issued + Cardinality({p \in Procs : IssuesId(proc[p])}) < MaxIds

-----------------------------------------------------------------------------
(* Login                                                                     *)

LoginBegins(p, u) ==
    /\ proc[p].pc = "idle" /\ up = "serving" /\ SpareId
    /\ SlotFree
    /\ slots' = slots \cup {p}
    /\ proc' = [proc EXCEPT ![p] = [Idle EXCEPT !.pc = "mail", !.target = u]]
    /\ UNCHANGED <<sess, issued, out, up, vault, acct, mailLock, userLock, done>>

SlotKept(p) == slots

\* What the early return of a busy address gives back.
SlotReturned(p) == slots \ {p}

LoginLocksMail(p) ==
    LET u == proc[p].target
    IN /\ proc[p].pc = "mail"
       /\ IF mailLock[u] = None
          THEN mailLock' = [mailLock EXCEPT ![u] = p] /\ Goto(p, "lookup") /\ UNCHANGED slots
          ELSE /\ slots' = SlotReturned(p)
               /\ proc' = [proc EXCEPT ![p] = Idle]
               /\ UNCHANGED mailLock
       /\ UNCHANGED <<sess, issued, out, up, vault, acct, userLock, done>>

LockIgnored(u) == TRUE

\* lockAccount("user:" + id): no queue, a busy account refuses the request.
LockFree(u) == userLock[u] = None

LoginLocksUser(p) ==
    LET u == proc[p].target
    IN /\ proc[p].pc = "lookup"
       /\ IF LockFree(u)
          THEN userLock' = [userLock EXCEPT ![u] = p] /\ Goto(p, "verify") /\ UNCHANGED <<mailLock, slots>>
          ELSE Leave(p)
       /\ UNCHANGED <<sess, issued, out, up, vault, acct, done>>

\* finishPasskeyLogin and its discoverable form: a taken ceremony leads straight to the
\* account lock, without a slot (the password fallback derives within one step).
PasskeyLogin(p, u) ==
    /\ proc[p].pc = "idle" /\ up = "serving" /\ SpareId
    /\ LockFree(u)
    /\ userLock' = [userLock EXCEPT ![u] = p]
    /\ proc' = [proc EXCEPT ![p] = [Idle EXCEPT !.pc = "assert", !.target = u]]
    /\ UNCHANGED <<sess, issued, out, up, vault, acct, mailLock, slots, done>>

\* The account and its passkeys are read under the lock, the assertion is verified and
\* the passkey's use recorded; any failure ends the login.
PasskeyAsserts(p) ==
    LET u == proc[p].target
    IN /\ proc[p].pc = "assert"
       /\ \/ /\ acct[u].active
             /\ proc' = [proc EXCEPT ![p].pc = "acquire", ![p].rev = acct[u].rev]
             /\ UNCHANGED <<mailLock, userLock, slots>>
          \/ Leave(p)
       /\ UNCHANGED <<sess, issued, out, up, vault, acct, done>>

\* GetUser and GetPasswordCredential under the lock.
LoginReads(p) ==
    LET u == proc[p].target
    IN /\ proc[p].pc = "verify"
       /\ IF acct[u].active
          THEN /\ proc' = [proc EXCEPT ![p].pc = "unwrap", ![p].pw = acct[u].pw, ![p].rev = acct[u].rev]
               /\ UNCHANGED <<mailLock, userLock, slots>>
          ELSE Leave(p)
       /\ UNCHANGED <<sess, issued, out, up, vault, acct, done>>

\* RecordSuccessfulLogin: the row still has the credential that was verified.
CredentialUnchanged(p) ==
    LET u == proc[p].target IN acct[u].active /\ acct[u].pw = proc[p].pw

\* The derivation ends and gives its slot back; a wrong secret ends the login.
LoginUnwraps(p) ==
    /\ proc[p].pc = "unwrap"
    /\ \/ /\ CredentialUnchanged(p)
          /\ slots' = slots \ {p}
          /\ proc' = [proc EXCEPT ![p].pc = "acquire", ![p].pw = 0]
          /\ UNCHANGED <<mailLock, userLock>>
       \/ Leave(p)
    /\ UNCHANGED <<sess, issued, out, up, vault, acct, done>>

\* openVaultSession: Manager.Acquire refuses a draining vault and a closing manager;
\* opening a closed one may fail.
OpenAcquires(p) ==
    LET u == proc[p].target
    IN /\ proc[p].pc = "acquire"
       /\ \/ /\ up # "stopped" /\ vault[u].st # "drain"
             /\ vault' = [vault EXCEPT ![u] = [Root(@) EXCEPT !.st = "open"]]
             /\ Goto(p, "create")
             /\ UNCHANGED <<mailLock, userLock, slots>>
          \/ /\ up = "stopped" \/ vault[u].st \in {"drain", "closed"}
             /\ Leave(p)
             /\ UNCHANGED vault
       /\ UNCHANGED <<sess, issued, out, up, acct, done>>

\* CreateVaultSession, and the return through the deferred unlocks.
OpenCreates(p) ==
    /\ proc[p].pc = "create"
    /\ createSession(p, proc[p].target)
    /\ Leave(p)
    /\ UNCHANGED <<out, up, acct, done>>

-----------------------------------------------------------------------------
(* Reauthentication                                                          *)

\* Reauthenticate: the account lock, then a slot for the derivation.
ReauthBegins(p) ==
    LET u == proc[p].user
    IN /\ proc[p].pc = "handler" /\ SpareId
       /\ IF LockFree(u) /\ SlotFree
          THEN /\ userLock' = [userLock EXCEPT ![u] = p]
               /\ slots' = slots \cup {p}
               /\ proc' = [proc EXCEPT ![p].pc = "reauth", ![p].target = u, ![p].pw = acct[u].pw]
               /\ UNCHANGED <<vault, mailLock>>
          ELSE vault' = Finished(vault, p) /\ Leave(p)
       /\ UNCHANGED <<sess, issued, out, up, acct, done>>

\* FinishPasskeyReauthentication: the assertion is verified under the account lock alone.
PasskeyReauth(p) ==
    LET u == proc[p].user
    IN /\ proc[p].pc = "handler" /\ SpareId
       /\ LockFree(u)
       /\ acct[u].active
       /\ Goto(p, "rotate")
       /\ UNCHANGED <<sess, issued, out, up, vault, acct, authVars>>

\* On success the session is rotated, after the account lock is free again.
ReauthEnds(p) ==
    /\ proc[p].pc = "reauth"
    /\ \/ /\ CredentialUnchanged(p)
          /\ proc' = [proc EXCEPT ![p].pc = "rotate", ![p].pw = 0, ![p].target = None]
          /\ userLock' = Unlocked(userLock, p)
          /\ slots' = slots \ {p}
          /\ UNCHANGED <<vault, mailLock>>
       \/ vault' = Finished(vault, p) /\ Leave(p)
    /\ UNCHANGED <<sess, issued, out, up, acct, done>>

-----------------------------------------------------------------------------
(* Changes that end sessions                                                 *)

LeaseKept(p, q) == proc' = [proc EXCEPT ![p] = q] /\ UNCHANGED vault

\* The request goes on as q without its child.
ReleaseRequestVaultLease(p, q) ==
    /\ vault' = Finished(vault, p)
    /\ proc' = [proc EXCEPT ![p] = [q EXCEPT !.lease = FALSE]]

\* The handlers of a change give their child back before they wait for anything;
\* signing out everywhere waits for nothing and keeps it.
StartChange(p, op, t) ==
    /\ proc[p].pc = "handler"
    /\ op \in Own \cup {"logoutAll"} => t = proc[p].user
    /\ IF op = "logoutAll"
       THEN proc' = [proc EXCEPT ![p].pc = "recent", ![p].op = op] /\ UNCHANGED vault
       ELSE ReleaseRequestVaultLease(p, [proc[p] EXCEPT !.pc = "recent", !.op = op, !.target = t])
    /\ UNCHANGED <<sess, issued, out, up, acct, authVars>>

\* CompletePasswordReset is public: the ticket names the account.
CompletePasswordReset(p, u) ==
    /\ proc[p].pc = "idle" /\ up = "serving"
    /\ proc' = [proc EXCEPT ![p] = [Idle EXCEPT !.pc = "change", !.op = "reset", !.target = u]]
    /\ UNCHANGED <<sess, issued, out, up, vault, acct, authVars>>

ChangeLocks(p) ==
    LET u == proc[p].target
    IN /\ proc[p].pc = "change" /\ proc[p].op # "logoutAll"
       /\ IF LockFree(u)
          THEN userLock' = [userLock EXCEPT ![u] = p] /\ Goto(p, "locked")
          ELSE proc' = [proc EXCEPT ![p] = Idle] /\ UNCHANGED userLock
       /\ UNCHANGED <<sess, issued, out, up, vault, acct, mailLock, slots, done>>

(* What each change does to the account row; ControlPlane has the rows it stands for.  *)

ReplacePassword(a) == [a EXCEPT !.pw = @ + 1, !.rev = @ + 1]
ResetPassword(a)   == [a EXCEPT !.pw = @ + 1, !.rev = @ + 1]
RotateRecovery(a)  == [a EXCEPT !.rev = @ + 1]
DeletePasskeys(a)  == [a EXCEPT !.rev = @ + 1]
DisableUser(a)     == [a EXCEPT !.active = FALSE, !.rev = @ + 1]
SetUserRole(a)     == [a EXCEPT !.rev = @ + 1]
EnableUser(a)      == [a EXCEPT !.active = TRUE]

Changed(a, op) ==
    CASE op = "password" -> ReplacePassword(a)
      [] op = "reset"    -> ResetPassword(a)
      [] op = "recovery" -> RotateRecovery(a)
      [] op = "passkeys" -> DeletePasskeys(a)
      [] op = "disable"  -> DisableUser(a)
      [] op = "role"     -> SetUserRole(a)
      [] op = "enable"   -> EnableUser(a)

\* The change is proven and committed, or refused; passwords are derived in a slot.
ChangeCommits(p) ==
    LET u == proc[p].target  op == proc[p].op
    IN /\ proc[p].pc = "locked"
       /\ \/ /\ op \in {"password", "recovery", "reset"} => SlotFree
             /\ op # "role" => acct[u].active = (op # "enable")
             /\ acct[u].rev < MaxChanges
             /\ acct' = [acct EXCEPT ![u] = Changed(@, op)]
             /\ IF op = "enable" THEN Leave(p)
                ELSE /\ proc' = [proc EXCEPT ![p].pc = "revoke", ![p].op = "none", ![p].rev = acct[u].rev + 1]
                     /\ UNCHANGED <<mailLock, userLock, slots>>
          \/ Leave(p) /\ UNCHANGED acct
       /\ UNCHANGED <<sess, issued, out, up, vault, done>>

\* sessions.DeleteAllSessionsForUser.
ChangeRevokes(p) ==
    LET gone == Of(proc[p].target)
    IN /\ proc[p].pc = "revoke"
       /\ sess' = Without(gone)
       /\ vault' = RootsBack(vault, gone)
       /\ Goto(p, "drain")
       /\ UNCHANGED <<issued, out, up, acct, authVars>>

\* vaults.BeginUserDrain, then unlock; a user without an open vault has nothing to wait for.
ChangeDrains(p) ==
    LET u == proc[p].target
    IN /\ proc[p].pc = "drain"
       /\ vault' = [vault EXCEPT ![u] = Drained(@)]
       /\ proc' = [proc EXCEPT ![p].pc = "wait", ![p].gone = vault[u].st = "closed"]
       /\ userLock' = Unlocked(userLock, p)
       /\ UNCHANGED <<sess, issued, out, up, acct, mailLock, slots, done>>

DrainBegun(p) == TRUE

\* The waiter BeginUserDrain returned has seen that entry closed.
DrainOver(p) == proc[p].gone

\* finishDrain returned, and the change is answered.
ChangeAnswers(p) ==
    LET u == proc[p].target
    IN /\ proc[p].pc = "wait" /\ DrainOver(p)
       /\ done' = [done EXCEPT ![u] = IF proc[p].rev > @ THEN proc[p].rev ELSE @]
       /\ proc' = [proc EXCEPT ![p] = Idle]
       /\ UNCHANGED <<sess, issued, out, up, vault, acct, mailLock, userLock, slots>>

\* A cancelled request stops waiting; what it committed stays.
ChangeCancelled(p) ==
    /\ proc[p].pc = "wait"
    /\ proc' = [proc EXCEPT ![p] = Idle]
    /\ UNCHANGED <<sess, issued, out, up, vault, acct, authVars>>

-----------------------------------------------------------------------------

\* A request that is under way takes its next step.
Continues(p) ==
    \/ LoginLocksMail(p) \/ LoginLocksUser(p) \/ LoginReads(p) \/ LoginUnwraps(p)
    \/ PasskeyAsserts(p) \/ PasskeyReauth(p)
    \/ OpenAcquires(p) \/ OpenCreates(p)
    \/ ReauthBegins(p) \/ ReauthEnds(p)
    \/ \E op \in Own \cup Admin \cup {"logoutAll"}, t \in Users : StartChange(p, op, t)
    \/ ChangeLocks(p) \/ ChangeCommits(p) \/ ChangeRevokes(p) \/ ChangeDrains(p) \/ ChangeAnswers(p)
    \/ /\ \/ CurrentVaultUser(p) \/ RecentAuth(p) \/ RequestEnds(p) \/ RevokeSession(p) \/ LogoutAll(p)
          \/ RotateAfterReauthentication(p) \/ BeginRestore(p) \/ RestoreSignsOut(p) \/ RestoreSnapshot(p)
       /\ UNCHANGED authVars

Starts(p) ==
    \/ \E u \in Users : LoginBegins(p, u) \/ PasskeyLogin(p, u) \/ CompletePasswordReset(p, u)
    \/ /\ \E s \in DOMAIN sess : BorrowVaultSession(p, s) \/ GetSession(p, s, "logout") \/ GetSession(p, s, "restore")
       /\ UNCHANGED authVars

Environment ==
    /\ \/ \E s \in DOMAIN sess : Expire(s) \/ NoLongerRecent(s)
       \/ Purge \/ CloseSessions \/ CloseVaults
       \/ \E p \in Procs : RestoreCancelled(p)
    /\ UNCHANGED authVars

Next ==
    \/ \E p \in Procs : Starts(p) \/ Continues(p) \/ ChangeCancelled(p)
    \/ \E u \in Users : VaultCloses(u) /\ UNCHANGED authVars
    \/ Environment

\* Every running request goes on, and a vault without leases is closed by its closer.
Fairness ==
    /\ \A p \in Procs : WF_vars(Continues(p))
    /\ \A u \in Users : WF_vars(VaultCloses(u) /\ UNCHANGED authVars)

Spec == Init /\ [][Next]_vars /\ Fairness

-----------------------------------------------------------------------------
(* Properties                                                                *)

TypeOK ==
    /\ DOMAIN sess \subseteq 1..issued /\ issued <= MaxIds
    /\ \A s \in DOMAIN sess : sess[s].user \in Users /\ sess[s].fam \in 1..s /\ sess[s].rev \in 0..MaxChanges
    /\ out \subseteq 1..issued
    /\ up \in {"serving", "closing", "stopped"}
    /\ \A u \in Users : /\ vault[u].st \in {"closed", "open", "auto", "drain"}
                       /\ vault[u].refs \in Nat /\ vault[u].roots \in 0..vault[u].refs
                       /\ acct[u].active \in BOOLEAN /\ acct[u].pw \in 0..MaxChanges
    /\ mailLock \in [Users -> Procs \cup {None}] /\ userLock \in [Users -> Procs \cup {None}]
    /\ slots \subseteq Procs
    /\ done \in [Users -> 0..MaxChanges]

\* A session never outlives a committed change of its account's credentials, role or state,
\* nor a logout.  Only while the request that commits the change holds the account lock and
\* has not yet reached DeleteAllSessionsForUser does an older session exist, and a login that
\* read the old row can never publish one afterwards.  A reauthentication that was under way
\* when its session was revoked, before or after the id was rotated, leaves no session of the
\* login that was logged out.
NoStaleSession ==
    \A s \in DOMAIN sess :
        LET u == sess[s].user
        IN /\ \/ sess[s].rev = acct[u].rev
              \/ userLock[u] # None /\ proc[userLock[u]].pc = "revoke"
           /\ sess[s].fam \notin out

\* A drain means what it says: once a change has been answered, no request or restore that an
\* older session started is still working in the vault; and while a snapshot is being restored
\* its user has no session, because a login that acquired its root before the drain cannot
\* publish one after DeleteAllSessionsForUser.
DrainIsFinal ==
    /\ \A p \in Procs : proc[p].lease \/ proc[p].pc \in {"signOut", "alone", "restoring"} =>
         proc[p].rev >= done[proc[p].user]
    /\ \A p \in Procs : proc[p].pc \in {"alone", "restoring"} => Of(proc[p].user) = {}

\* A finished request holds no account lock and no derivation slot.
LocksReturned ==
    \A p \in Procs : proc[p].pc = "idle" =>
        p \notin slots /\ \A u \in Users : mailLock[u] # p /\ userLock[u] # p

\* Every way through a request gives back what it took: its locks and its slot, of which no
\* more are out than there are, and a vault's leases are exactly its sessions' roots, the
\* children of running requests and the operations that hold it.
NothingLeaks ==
    /\ LocksReturned
    /\ Cardinality(slots) <= KDFSlots
    /\ \A u \in Users :
          /\ vault[u].roots = Cardinality(Of(u)) + Cardinality({p \in Procs : proc[p].pc = "create" /\ proc[p].target = u})
          /\ vault[u].refs = vault[u].roots + Cardinality({p \in Procs : proc[p].user = u /\
                                  (proc[p].lease \/ proc[p].pc \in {"signOut", "alone", "restoring"})})

\* Every request is answered in the end: requests that change the same account, restore it
\* and work in its vault never wait for one another in a circle.
Answered(p) == proc[p].pc # "idle" ~> proc[p].pc = "idle"
=============================================================================
