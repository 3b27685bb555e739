---------------------------- MODULE ControlPlane ----------------------------
(***************************************************************************)
(* The control database of the server (backend/control): accounts, roles,  *)
(* invitations, password reset tickets and the revisions of credentials.   *)
(* Every mutation is one BEGIN IMMEDIATE transaction, hence one action; a  *)
(* transaction that returns an error is rolled back and changes nothing.   *)
(* What a client proves with an expensive key derivation it proves before  *)
(* the transaction, of what it read then (Preflight).                      *)
(*                                                                         *)
(* An account is named by its email.  A credential is its revision: every  *)
(* replacement is a new envelope with a later time.                        *)
(***************************************************************************)
EXTENDS Naturals, FiniteSets

CONSTANTS
    Users, Invites, Tickets, Passkeys, Clients, None,
    MaxPasskeysPerUser,
    MaxRevision        \* bound on the revisions of a credential

ASSUME ControlAssumption ==
    /\ None \notin Users
    /\ MaxPasskeysPerUser \in Nat
    /\ MaxRevision \in Nat \ {0}

VARIABLES
    user,     \* the users, password_credentials and recovery_envelopes tables
    inv,      \* invitations
    ticket,   \* password_reset_tickets
    passkey,  \* passkey_credentials
    seen      \* what each client read before its transaction

vars == <<user, inv, ticket, passkey, seen>>

Roles     == {"admin", "user"}
Revisions == 1..MaxRevision

Absent  == [state |-> "absent", role |-> "user", pw |-> 1, rec |-> 1]
Account == [state : {"absent", "active", "disabled"}, role : Roles, pw : Revisions, rec : Revisions]
NewUser(role) == [state |-> "active", role |-> role, pw |-> 1, rec |-> 1]

\* due: expires_at_ms has passed.
NoInvite   == [state |-> "none", by |-> None, email |-> None, role |-> "user", due |-> FALSE]
Invitation == [state : {"none", "pending", "accepted", "revoked", "expired"},
               by : Users \cup {None}, email : Users \cup {None}, role : Roles, due : BOOLEAN]
NoTicket    == [state |-> "none", by |-> None, user |-> None, due |-> FALSE]
ResetTicket == [state : {"none", "pending", "consumed", "revoked", "expired"},
                by : Users \cup {None}, user : Users \cup {None}, due : BOOLEAN]

\* A credential ID is never registered again once it is deleted.
NoPasskey == [state |-> "none", owner |-> None, rev |-> 1]
Passkey   == [state : {"none", "live", "deleted"}, owner : Users \cup {None}, rev : Revisions]

NothingSeen == [user |-> None, pw |-> 1, rec |-> 1, rev |-> [k \in Passkeys |-> 1]]
Reading     == [user : Users \cup {None}, pw : Revisions, rec : Revisions, rev : [Passkeys -> Revisions]]

Init ==
    /\ user = [u \in Users |-> Absent]
    /\ inv = [i \in Invites |-> NoInvite]
    /\ ticket = [t \in Tickets |-> NoTicket]
    /\ passkey = [k \in Passkeys |-> NoPasskey]
    /\ seen = [c \in Clients |-> NothingSeen]

Exists(u)   == user[u].state # "absent"
IsActive(u) == user[u].state = "active"

requireActiveAdmin(u) == IsActive(u) /\ user[u].role = "admin"

AnotherAdmin(u) == \E v \in Users \ {u} : Exists(v) /\ user[v].role = "admin"

requireAnotherActiveAdmin(u) == \E v \in Users \ {u} : requireActiveAdmin(v)

-----------------------------------------------------------------------------
(* Accounts                                                                  *)

BootstrapFirstAdmin(u) ==
    /\ \A v \in Users : ~Exists(v)
    /\ user' = [user EXCEPT ![u] = NewUser("admin")]
    /\ UNCHANGED <<inv, ticket, passkey, seen>>

TicketsKept(u) ==
    /\ inv' = [i \in Invites |->
                 IF inv[i].state = "pending" /\ inv[i].by = u
                 THEN [inv[i] EXCEPT !.state = "revoked"] ELSE inv[i]]
    /\ ticket' = [t \in Tickets |->
                    IF ticket[t].state = "pending" /\ ticket[t].user = u
                    THEN [ticket[t] EXCEPT !.state = "revoked"] ELSE ticket[t]]

\* What u issued and what would change u's password.
revokePendingCapabilities(u) ==
    /\ inv' = [i \in Invites |->
                 IF inv[i].state = "pending" /\ inv[i].by = u
                 THEN [inv[i] EXCEPT !.state = "revoked"] ELSE inv[i]]
    /\ ticket' = [t \in Tickets |->
                    IF ticket[t].state = "pending" /\ u \in {ticket[t].by, ticket[t].user}
                    THEN [ticket[t] EXCEPT !.state = "revoked"] ELSE ticket[t]]

DisableUser(actor, u) ==
    /\ actor # u
    /\ requireActiveAdmin(actor)
    /\ Exists(u)
    /\ IsActive(u) /\ user[u].role = "admin" => requireAnotherActiveAdmin(u)
    /\ user' = [user EXCEPT ![u].state = "disabled"]
    /\ revokePendingCapabilities(u)
    /\ UNCHANGED <<passkey, seen>>

EnableUser(actor, u) ==
    /\ requireActiveAdmin(actor)
    /\ Exists(u)
    /\ user' = [user EXCEPT ![u].state = "active"]
    /\ UNCHANGED <<inv, ticket, passkey, seen>>

Demotable(u) == IsActive(u) => requireAnotherActiveAdmin(u)

SetUserRole(actor, u, role) ==
    /\ requireActiveAdmin(actor)
    /\ Exists(u)
    /\ user[u].role # role
    /\ user' = [user EXCEPT ![u].role = role]
    /\ IF role = "admin" THEN UNCHANGED <<inv, ticket>>
       ELSE Demotable(u) /\ revokePendingCapabilities(u)
    /\ UNCHANGED <<passkey, seen>>

-----------------------------------------------------------------------------
(* Invitations                                                               *)

\* The partial unique index idx_invitations_one_pending_email.
NoOtherPending(email) ==
    \A i \in Invites : inv[i].state = "pending" /\ inv[i].email = email => inv[i].due

EmailFree(email) == ~Exists(email)

CreateInvitation(actor, i, email, role) ==
    /\ requireActiveAdmin(actor)
    /\ EmailFree(email)
    /\ inv[i].state = "none"
    /\ NoOtherPending(email)
    /\ inv' = [j \in Invites |->
                 IF j = i THEN [state |-> "pending", by |-> actor, email |-> email, role |-> role, due |-> FALSE]
                 ELSE IF inv[j].state = "pending" /\ inv[j].email = email
                 THEN [inv[j] EXCEPT !.state = "expired"] ELSE inv[j]]
    /\ UNCHANGED <<user, ticket, passkey, seen>>

Accepted(i) == inv' = [inv EXCEPT ![i].state = "accepted"]

AcceptInvitation(i) ==
    /\ inv[i].state = "pending"
    /\ \/ /\ inv[i].due
          /\ inv' = [inv EXCEPT ![i].state = "expired"]
          /\ UNCHANGED user
       \/ /\ ~inv[i].due
          /\ ~Exists(inv[i].email)
          /\ user' = [user EXCEPT ![inv[i].email] = NewUser(inv[i].role)]
          /\ Accepted(i)
    /\ UNCHANGED <<ticket, passkey, seen>>

RevokeInvitation(actor, i) ==
    /\ requireActiveAdmin(actor)
    /\ inv[i].state = "pending"
    /\ inv' = [inv EXCEPT ![i].state = "revoked"]
    /\ UNCHANGED <<user, ticket, passkey, seen>>

-----------------------------------------------------------------------------
(* Password reset tickets                                                    *)

PriorTicketsKept(u) == ticket

\* A new ticket resolves every older one of the same user.
PriorTicketsResolved(u) ==
    [t \in Tickets |->
       IF ticket[t].state = "pending" /\ ticket[t].user = u
       THEN [ticket[t] EXCEPT !.state = IF ticket[t].due THEN "expired" ELSE "revoked"]
       ELSE ticket[t]]

CreatePasswordResetTicket(actor, t, u) ==
    /\ requireActiveAdmin(actor)
    /\ IsActive(u)
    /\ ticket[t].state = "none"
    /\ ticket' = [PriorTicketsResolved(u) EXCEPT
                    ![t] = [state |-> "pending", by |-> actor, user |-> u, due |-> FALSE]]
    /\ UNCHANGED <<user, inv, passkey, seen>>

RevokePasswordResetTicket(actor, t) ==
    /\ requireActiveAdmin(actor)
    /\ ticket[t].state = "pending"
    /\ ticket' = [ticket EXCEPT ![t].state = "revoked"]
    /\ UNCHANGED <<user, inv, passkey, seen>>

PasskeysDeleted(u) ==
    [k \in Passkeys |-> IF passkey[k].state = "live" /\ passkey[k].owner = u
                        THEN [passkey[k] EXCEPT !.state = "deleted"] ELSE passkey[k]]

RecoveryUnchecked(c) == TRUE

\* revokeExpectedRecoveryEnvelope: the envelope the client proved is still the active one.
RecoveryMatches(c) == user[seen[c].user].rec = seen[c].rec

TicketSpent(t) ==
    [s \in Tickets |->
       IF s = t THEN [ticket[t] EXCEPT !.state = "consumed"]
       ELSE IF ticket[s].state = "pending" /\ ticket[s].user = ticket[t].user
       THEN [ticket[s] EXCEPT !.state = "revoked"] ELSE ticket[s]]

CompletePasswordReset(c, t) ==
    LET u == ticket[t].user
    IN /\ ticket[t].state = "pending"
       /\ \/ /\ ticket[t].due
             /\ ticket' = [ticket EXCEPT ![t].state = "expired"]
             /\ UNCHANGED <<user, passkey>>
          \/ /\ ~ticket[t].due
             /\ seen[c].user = u
             /\ IsActive(u)
             /\ RecoveryMatches(c)
             /\ user[u].pw < MaxRevision /\ user[u].rec < MaxRevision
             /\ passkey' = PasskeysDeleted(u)
             /\ user' = [user EXCEPT ![u].pw = @ + 1, ![u].rec = @ + 1]
             /\ ticket' = TicketSpent(t)
       /\ UNCHANGED <<inv, seen>>

-----------------------------------------------------------------------------
(* Credentials                                                               *)

\* The reads that precede a proof: GetPasswordCredential, GetActiveRecoveryEnvelope,
\* ListPasskeyCredentials.
Preflight(c, u) ==
    /\ Exists(u)
    /\ seen' = [seen EXCEPT ![c] = [user |-> u, pw |-> user[u].pw, rec |-> user[u].rec,
                                    rev |-> [k \in Passkeys |-> passkey[k].rev]]]
    /\ UNCHANGED <<user, inv, ticket, passkey>>

PasswordMatches(c) == user[seen[c].user].pw = seen[c].pw

ReplacePasswordCredential(c, revokePasskeys) ==
    LET u == seen[c].user
    IN /\ u # None
       /\ IsActive(u)
       /\ PasswordMatches(c)
       /\ user[u].pw < MaxRevision
       /\ user' = [user EXCEPT ![u].pw = @ + 1]
       /\ passkey' = IF revokePasskeys THEN PasskeysDeleted(u) ELSE passkey
       /\ UNCHANGED <<inv, ticket, seen>>

RotateRecoveryEnvelope(c) ==
    LET u == seen[c].user
    IN /\ u # None
       /\ IsActive(u)
       /\ RecoveryMatches(c)
       /\ user[u].rec < MaxRevision
       /\ user' = [user EXCEPT ![u].rec = @ + 1]
       /\ UNCHANGED <<inv, ticket, passkey, seen>>

Owned(u) == {k \in Passkeys : passkey[k].state = "live" /\ passkey[k].owner = u}

HasSlot(u) == Cardinality(Owned(u)) < MaxPasskeysPerUser

CreatePasskeyCredential(u, k) ==
    /\ Exists(u)
    /\ passkey[k].state = "none"
    /\ HasSlot(u)
    /\ passkey' = [passkey EXCEPT ![k] = [state |-> "live", owner |-> u, rev |-> 1]]
    /\ UNCHANGED <<user, inv, ticket, seen>>

\* RecordSuccessfulPasskeyUse and ReplacePasskeyEnvelope: the revision is the token.
UpdatePasskey(c, k) ==
    /\ passkey[k].state = "live"
    /\ passkey[k].owner = seen[c].user
    /\ passkey[k].rev = seen[c].rev[k]
    /\ IsActive(passkey[k].owner)
    /\ passkey[k].rev < MaxRevision
    /\ passkey' = [passkey EXCEPT ![k].rev = @ + 1]
    /\ UNCHANGED <<user, inv, ticket, seen>>

DeletePasskeyCredential(k) ==
    /\ passkey[k].state = "live"
    /\ passkey' = [passkey EXCEPT ![k].state = "deleted"]
    /\ UNCHANGED <<user, inv, ticket, seen>>

DeleteAllPasskeyCredentials(u) ==
    /\ Owned(u) # {}
    /\ passkey' = PasskeysDeleted(u)
    /\ UNCHANGED <<user, inv, ticket, seen>>

TimePasses ==
    \/ \E i \in Invites : /\ inv[i].state = "pending" /\ ~inv[i].due
                          /\ inv' = [inv EXCEPT ![i].due = TRUE]
                          /\ UNCHANGED <<user, ticket, passkey, seen>>
    \/ \E t \in Tickets : /\ ticket[t].state = "pending" /\ ~ticket[t].due
                          /\ ticket' = [ticket EXCEPT ![t].due = TRUE]
                          /\ UNCHANGED <<user, inv, passkey, seen>>

-----------------------------------------------------------------------------

Next ==
    \/ \E u \in Users : BootstrapFirstAdmin(u) \/ DeleteAllPasskeyCredentials(u)
    \/ \E a, u \in Users : DisableUser(a, u) \/ EnableUser(a, u) \/ \E r \in Roles : SetUserRole(a, u, r)
    \/ \E a \in Users, i \in Invites : RevokeInvitation(a, i)
    \/ \E a, e \in Users, i \in Invites, r \in Roles : CreateInvitation(a, i, e, r)
    \/ \E i \in Invites : AcceptInvitation(i)
    \/ \E a \in Users, t \in Tickets : RevokePasswordResetTicket(a, t)
    \/ \E a, u \in Users, t \in Tickets : CreatePasswordResetTicket(a, t, u)
    \/ \E c \in Clients, t \in Tickets : CompletePasswordReset(c, t)
    \/ \E c \in Clients : \/ \E u \in Users : Preflight(c, u)
                          \/ \E revoke \in BOOLEAN : ReplacePasswordCredential(c, revoke)
                          \/ RotateRecoveryEnvelope(c)
                          \/ \E k \in Passkeys : UpdatePasskey(c, k)
    \/ \E k \in Passkeys : DeletePasskeyCredential(k) \/ \E u \in Users : CreatePasskeyCredential(u, k)
    \/ TimePasses

Spec == Init /\ [][Next]_vars

-----------------------------------------------------------------------------

\* Every table keeps the types and states its schema allows.
TypeOK ==
    /\ user \in [Users -> Account]
    /\ inv \in [Invites -> Invitation]
    /\ ticket \in [Tickets -> ResetTicket]
    /\ passkey \in [Passkeys -> Passkey]
    /\ seen \in [Clients -> Reading]

\* Once there is an account the installation always has an active administrator:
\* however administrators disable, demote and enable each other and themselves, the
\* last one stays (requireAnotherActiveAdmin).
AdministratorRemains ==
    (\E u \in Users : Exists(u)) => \E u \in Users : requireActiveAdmin(u)

\* Whoever issued an open invitation or ticket is an active administrator now, and an
\* open ticket is for an active account: losing the role or the account takes every
\* capability along (revokePendingCapabilities).
CapabilitiesFollowRole ==
    /\ \A i \in Invites : inv[i].state = "pending" => inv[i].by \in Users /\ requireActiveAdmin(inv[i].by)
    /\ \A t \in Tickets : ticket[t].state = "pending" =>
         /\ ticket[t].by \in Users /\ requireActiveAdmin(ticket[t].by)
         /\ ticket[t].user \in Users /\ IsActive(ticket[t].user)

\* An email has at most one open invitation and then no account, and a user at most
\* one open ticket: no old bearer works beside a new one.
OneOpenBearer ==
    /\ \A i, j \in Invites : inv[i].state = "pending" /\ inv[j].state = "pending" /\ inv[i].email = inv[j].email => i = j
    /\ \A i \in Invites : inv[i].state = "pending" => inv[i].email \in Users /\ ~Exists(inv[i].email)
    /\ \A s, t \in Tickets : ticket[s].state = "pending" /\ ticket[t].state = "pending" /\ ticket[s].user = ticket[t].user => s = t

\* A recovery envelope is replaced only by a client whose reading, made before it proved
\* the password or that envelope, is of that very envelope, and a password only by one
\* that read and proved that password or, with a ticket, the recovery envelope: two
\* changes prepared from one reading never both take effect.
ChangesProven ==
    [][\A u \in Users : Exists(u) =>
         /\ user'[u].rec # user[u].rec =>
              \E c \in Clients : seen[c].user = u /\ seen[c].rec = user[u].rec
         /\ user'[u].pw # user[u].pw =>
              \E c \in Clients : /\ seen[c].user = u
                                 /\ IF user'[u].rec = user[u].rec
                                    THEN seen[c].pw = user[u].pw
                                    ELSE \E t \in Tickets : ticket[t].user = u /\ ticket[t].state = "pending"
                                                             /\ ticket'[t].state = "consumed"]_vars

\* A completed reset leaves none of the credentials it replaces: no passkey of the user
\* survives the step that spends the ticket.
ResetLeavesNoPasskey ==
    [][\A t \in Tickets : ticket[t].state # "consumed" /\ ticket'[t].state = "consumed" =>
         \A k \in Passkeys : passkey'[k].state = "live" => passkey'[k].owner # ticket[t].user]_vars
=============================================================================
