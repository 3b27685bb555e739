--------------------------- MODULE ServerSessions ---------------------------
(***************************************************************************)
(* middleware/session.go: the table of browser sessions and the requests   *)
(* that use it.  A session owns a root lease on its user's vault; every    *)
(* authenticated request borrows a child lease from it for as long as it   *)
(* runs.  A step is one critical section of SessionManager.mu.             *)
(*                                                                         *)
(* The vault is taken at the level VaultManager establishes: it is open    *)
(* while it has leases, retires when its last root goes unless a login     *)
(* comes first ("auto"), and when drained takes no lease and closes once   *)
(* the last one is back.  A removed session's root is released in the step *)
(* that removes it: the time in between only keeps the vault open longer.  *)
(*                                                                         *)
(* Session ids are numbered in the order they are issued; a session keeps  *)
(* the id of its login as its family, and so its age, through rotations.   *)
(***************************************************************************)
EXTENDS Naturals, FiniteSets

CONSTANTS
    Procs,          \* request goroutines
    Users,
    MaxConcurrent,  \* SessionConfig.MaxConcurrent
    MaxIds,         \* bound: session ids issued
    None

ASSUME SessionAssumption ==
    /\ IsFiniteSet(Procs) /\ IsFiniteSet(Users)
    /\ MaxConcurrent \in Nat \ {0} /\ MaxIds \in Nat
    /\ None \notin Users

VARIABLES
    sess,     \* SessionManager.sessions
    issued,   \* ids issued so far
    out,      \* families that were logged out
    up,       \* "serving", then SessionManager closed, then Manager closing too
    vault,    \* user -> the vault entry
    acct,     \* user -> the account row: state, password revision, and the
              \* number of committed changes that end its sessions
    proc      \* the requests

sessionVars == <<sess, issued, out, up, vault, acct, proc>>

Closed == [st |-> "closed", refs |-> 0, roots |-> 0]

(* user, sid, fam, rev: the session a request presented, as cloneSession    *)
(* copied it; lease: it holds a child; target: the account it changes;      *)
(* gone: the vault entry it waits for has closed.                           *)
Idle == [pc |-> "idle", op |-> "none", user |-> None, sid |-> 0, fam |-> 0, rev |-> 0,
         lease |-> FALSE, target |-> None, pw |-> 0, gone |-> FALSE]

-----------------------------------------------------------------------------
(* The vault, as its leases see it                                           *)

Ref(v)  == [v EXCEPT !.refs = @ + 1]
Root(v) == [v EXCEPT !.refs = @ + 1, !.roots = @ + 1]

Unref(v) == [v EXCEPT !.refs = @ - 1]

\* Release of n roots: the last one starts automatic retirement.
Unroot(v, n) ==
    LET w == [v EXCEPT !.refs = @ - n, !.roots = @ - n]
    IN IF n > 0 /\ w.roots = 0 /\ w.st = "open" THEN [w EXCEPT !.st = "auto"] ELSE w

Usable(v) == v.st = "open" /\ up # "stopped"

Drained(v) == IF v.st = "closed" THEN v ELSE [v EXCEPT !.st = "drain"]

\* The closer of a vault without leases is through with it.
VaultCloses(u) ==
    /\ vault[u].st \in {"auto", "drain"}
    /\ vault[u].refs = 0
    /\ vault' = [vault EXCEPT ![u] = Closed]
    /\ proc' = [p \in Procs |-> IF proc[p].pc = "wait" /\ proc[p].target = u
                                THEN [proc[p] EXCEPT !.gone = TRUE] ELSE proc[p]]
    /\ UNCHANGED <<sess, issued, out, up, acct>>

-----------------------------------------------------------------------------
(* The table                                                                 *)

Live(s) == s \in DOMAIN sess
Usage(s) == Live(s) /\ ~sess[s].expired
Of(u) == {s \in DOMAIN sess : sess[s].user = u}
Expired == {s \in DOMAIN sess : sess[s].expired}

\* deleteRecordLocked of every id in gone, and the release of their roots.
Without(gone) == [s \in DOMAIN sess \ gone |-> sess[s]]
RootsBack(v, gone) == [u \in Users |-> Unroot(v[u], Cardinality(gone \cap Of(u)))]

\* A child is given back and the request is over.
Finished(v, p) == IF proc[p].lease THEN [v EXCEPT ![proc[p].user] = Unref(@)] ELSE v

Purge == /\ up = "serving"
         /\ Expired # {}
         /\ sess' = Without(Expired)
         /\ vault' = RootsBack(vault, Expired)
         /\ UNCHANGED <<issued, out, up, acct, proc>>

\* Time passes: the absolute or idle limit, or the age of the last authentication.
Expire(s) ==
    /\ Usage(s)
    /\ sess' = [sess EXCEPT ![s].expired = TRUE]
    /\ UNCHANGED <<issued, out, up, vault, acct, proc>>

NoLongerRecent(s) ==
    /\ Usage(s) /\ sess[s].recent
    /\ sess' = [sess EXCEPT ![s].recent = FALSE]
    /\ UNCHANGED <<issued, out, up, vault, acct, proc>>

\* root.validate under the session lock: a vault being restored takes no new session.
RootValid(u) == Usable(vault[u])

\* evictOldestForOwnerLocked: all but the newest MaxConcurrent - 1 of the owner's sessions.
Evicted(u, expired) ==
    LET own == Of(u) \ expired
    IN {s \in own : Cardinality({t \in own : sess[t].fam > sess[s].fam}) >= MaxConcurrent - 1}

\* CreateVaultSession with the root p acquired for user u; on failure p releases it.
createSession(p, u) ==
    IF up # "serving" \/ ~RootValid(u)
    THEN /\ vault' = [vault EXCEPT ![u] = Unroot(@, 1)]
         /\ UNCHANGED <<sess, issued>>
    ELSE LET gone == Expired \cup Evicted(u, Expired)
             new  == [user |-> u, fam |-> issued + 1, rev |-> proc[p].rev,
                      recent |-> TRUE, expired |-> FALSE]
         IN /\ issued' = issued + 1
            /\ sess' = [s \in (DOMAIN sess \ gone) \cup {issued + 1} |->
                          IF s = issued + 1 THEN new ELSE sess[s]]
            /\ vault' = RootsBack(vault, gone)

-----------------------------------------------------------------------------
(* Requests with a session                                                   *)

Presenting(p, s, pc) ==
    [Idle EXCEPT !.pc = pc, !.user = sess[s].user, !.sid = s, !.fam = sess[s].fam,
                 !.rev = sess[s].rev]

\* A dead session is removed where it is found.
DropDead(s) == sess' = Without({s} \cap DOMAIN sess) /\ vault' = RootsBack(vault, {s} \cap DOMAIN sess)

MayBorrow(u) == Usable(vault[u])

\* VaultSessionAuthMiddleware, borrowVaultSessionFromRequest.
BorrowVaultSession(p, s) ==
    /\ proc[p].pc = "idle" /\ up = "serving" /\ Live(s)
    /\ IF Usage(s) /\ MayBorrow(sess[s].user)
       THEN /\ vault' = [vault EXCEPT ![sess[s].user] = Ref(@)]
            /\ proc' = [proc EXCEPT ![p] = [Presenting(p, s, "auth") EXCEPT !.lease = TRUE]]
            /\ UNCHANGED sess
       ELSE DropDead(s) /\ UNCHANGED proc
    /\ UNCHANGED <<issued, out, up, acct>>

\* sessionForVaultRequest: logout and restore take no child.
GetSession(p, s, op) ==
    /\ proc[p].pc = "idle" /\ up = "serving" /\ Live(s)
    /\ IF Usage(s)
       THEN /\ proc' = [proc EXCEPT ![p] = [Presenting(p, s, IF op = "restore" THEN "auth" ELSE op)
                                              EXCEPT !.op = op]]
            /\ UNCHANGED <<sess, vault>>
       ELSE DropDead(s) /\ UNCHANGED proc
    /\ UNCHANGED <<issued, out, up, acct>>

\* currentVaultUser: the control database decides, not the session's copy.
CurrentVaultUser(p) ==
    LET u == proc[p].user
    IN /\ proc[p].pc = "auth"
       /\ IF acct[u].active
          THEN /\ proc' = [proc EXCEPT ![p].pc = IF proc[p].op = "restore" THEN "recent" ELSE "handler"]
               /\ UNCHANGED <<sess, vault>>
          ELSE /\ sess' = Without(Of(u))
               /\ vault' = Finished(RootsBack(vault, Of(u)), p)
               /\ proc' = [proc EXCEPT ![p] = Idle]
       /\ UNCHANGED <<issued, out, up, acct>>

\* What a request still carries once it is only about the account it changes.
Changing(q, pc) == [Idle EXCEPT !.pc = pc, !.op = q.op, !.target = q.target, !.rev = q.rev]

\* IsRecent, from RecentAuthMiddleware or a handler's second look: sensitive operations
\* need a session whose owner has authenticated lately.
RecentAuth(p) ==
    LET s == proc[p].sid
    IN /\ proc[p].pc = "recent"
       /\ IF Usage(s) /\ sess[s].recent
          THEN /\ proc' = [proc EXCEPT ![p] = CASE @.op = "restore"   -> [@ EXCEPT !.pc = "restore"]
                                                [] @.op = "logoutAll" -> [@ EXCEPT !.pc = "change"]
                                                [] OTHER -> [Changing(@, "change") EXCEPT !.rev = 0]]
               /\ UNCHANGED <<sess, vault>>
          ELSE /\ sess' = Without({s} \cap Expired)
               /\ vault' = Finished(RootsBack(vault, {s} \cap Expired), p)
               /\ proc' = [proc EXCEPT ![p] = Idle]
       /\ UNCHANGED <<issued, out, up, acct>>

\* The handler of a ledger request is through, or refuses the request.
RequestEnds(p) ==
    /\ proc[p].pc = "handler"
    /\ vault' = Finished(vault, p)
    /\ proc' = [proc EXCEPT ![p] = Idle]
    /\ UNCHANGED <<sess, issued, out, up, acct>>

\* Every id of the login this request belongs to, rotations included.
Family(p) == {s \in DOMAIN sess : s = proc[p].sid \/ sess[s].fam = proc[p].fam}

\* RevokeSession, from handleServerLogout.
RevokeSession(p) ==
    /\ proc[p].pc = "logout"
    /\ sess' = Without(Family(p))
    /\ vault' = RootsBack(vault, Family(p))
    /\ out' = out \cup {proc[p].fam}
    /\ proc' = [proc EXCEPT ![p] = Idle]
    /\ UNCHANGED <<issued, up, acct>>

\* handleServerLogoutAll keeps its child to the end: it waits for no drain.
LogoutAll(p) ==
    LET gone == Of(proc[p].user)
    IN /\ proc[p].pc = "change" /\ proc[p].op = "logoutAll"
       /\ sess' = Without(gone)
       /\ vault' = Finished(RootsBack(vault, gone), p)
       /\ out' = out \cup {sess[s].fam : s \in gone}
       /\ proc' = [proc EXCEPT ![p] = Idle]
       /\ UNCHANGED <<issued, up, acct>>

RootMoved(s) == vault

\* RotateAfterReauthentication: the record, with its root, moves to a new id.
RotateAfterReauthentication(p) ==
    LET s == proc[p].sid
    IN /\ proc[p].pc = "rotate"
       /\ IF Usage(s)
          THEN /\ issued' = issued + 1
               /\ sess' = [t \in (DOMAIN sess \ {s}) \cup {issued + 1} |->
                             IF t = issued + 1 THEN [sess[s] EXCEPT !.recent = TRUE] ELSE sess[t]]
               /\ vault' = Finished(RootMoved(s), p)
          ELSE /\ sess' = Without({s} \cap DOMAIN sess)
               /\ vault' = Finished(RootsBack(vault, {s} \cap DOMAIN sess), p)
               /\ UNCHANGED issued
       /\ proc' = [proc EXCEPT ![p] = Idle]
       /\ UNCHANGED <<out, up, acct>>

-----------------------------------------------------------------------------
(* Restoring a snapshot                                                      *)

\* BeginRestore under the session lock drains the very entry the session holds.
BeginRestore(p) ==
    LET s == proc[p].sid
    IN /\ proc[p].pc = "restore"
       /\ IF Usage(s) /\ MayBorrow(proc[p].user)
          THEN /\ vault' = [vault EXCEPT ![proc[p].user] = Drained(Ref(@))]
               /\ proc' = [proc EXCEPT ![p] = [Idle EXCEPT !.pc = "signOut", !.user = proc[p].user,
                                                        !.rev = proc[p].rev]]
          ELSE proc' = [proc EXCEPT ![p] = Idle] /\ UNCHANGED vault
       /\ UNCHANGED <<sess, issued, out, up, acct>>

\* handleServerSnapshotRestore: DeleteAllSessionsForUser before the slow work.
RestoreSignsOut(p) ==
    LET gone == Of(proc[p].user)
    IN /\ proc[p].pc = "signOut"
       /\ sess' = Without(gone)
       /\ vault' = RootsBack(vault, gone)
       /\ proc' = [proc EXCEPT ![p].pc = "alone"]
       /\ UNCHANGED <<issued, out, up, acct>>

\* RestoreSnapshot waits for the other leases, works, and releases the operation.
RestoreSnapshot(p) ==
    LET u == proc[p].user
    IN /\ \/ /\ proc[p].pc = "alone" /\ vault[u].refs = 1
             /\ proc' = [proc EXCEPT ![p].pc = "restoring"]
             /\ UNCHANGED vault
          \/ /\ proc[p].pc = "restoring"
             /\ vault' = [vault EXCEPT ![u] = Unref(@)]
             /\ proc' = [proc EXCEPT ![p] = Idle]
       /\ UNCHANGED <<sess, issued, out, up, acct>>

\* The request is cancelled while it waits; the vault stays drained.
RestoreCancelled(p) ==
    /\ proc[p].pc = "alone"
    /\ vault' = [vault EXCEPT ![proc[p].user] = Unref(@)]
    /\ proc' = [proc EXCEPT ![p] = Idle]
    /\ UNCHANGED <<sess, issued, out, up, acct>>

-----------------------------------------------------------------------------
(* executeShutdown                                                           *)

CloseSessions ==
    /\ up = "serving"
    /\ up' = "closing"
    /\ sess' = Without(DOMAIN sess)
    /\ vault' = RootsBack(vault, DOMAIN sess)
    /\ UNCHANGED <<issued, out, acct, proc>>

CloseVaults ==
    /\ up = "closing"
    /\ up' = "stopped"
    /\ vault' = [u \in Users |-> Drained(vault[u])]
    /\ UNCHANGED <<sess, issued, out, acct, proc>>
=============================================================================
