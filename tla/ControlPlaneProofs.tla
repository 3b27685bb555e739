------------------------- MODULE ControlPlaneProofs -------------------------
(***************************************************************************)
(* For every set of users, invitations, tickets, clients and passkeys: the *)
(* installation keeps an active administrator, capabilities follow the     *)
(* role of their issuer, no two bearers are open for one person, every     *)
(* change of a credential is proven, and a reset leaves no passkey behind. *)
(* The conjunction of the three state properties with the types is         *)
(* inductive as it stands.                                                 *)
(***************************************************************************)
EXTENDS ControlPlane, TLAPS

IInv == TypeOK /\ AdministratorRemains /\ CapabilitiesFollowRole /\ OneOpenBearer

\* No table has rows at first.
LEMMA InitIInv == Init => IInv
<1> SUFFICES ASSUME Init PROVE IInv
  OBVIOUS
<1> USE ControlAssumption
<1>1. TypeOK
  BY DEF Init, TypeOK, Absent, Account, NoInvite, Invitation, NoTicket, ResetTicket, NoPasskey, Passkey,
         NothingSeen, Reading, Roles, Revisions
<1>2. AdministratorRemains
  BY DEF Init, AdministratorRemains, Exists, Absent
<1>3. CapabilitiesFollowRole /\ OneOpenBearer
  BY DEF Init, CapabilitiesFollowRole, OneOpenBearer, NoInvite, NoTicket
<1> QED
  BY <1>1, <1>2, <1>3 DEF IInv

\* A row stays a row when its state column, or its due time, changes.
LEMMA RowTypes ==
    /\ \A r \in Invitation : /\ \A x \in {"revoked", "expired", "accepted"} : [r EXCEPT !.state = x] \in Invitation
                             /\ [r EXCEPT !.due = TRUE] \in Invitation
    /\ \A r \in ResetTicket : /\ \A x \in {"revoked", "expired", "consumed"} : [r EXCEPT !.state = x] \in ResetTicket
                              /\ [r EXCEPT !.due = TRUE] \in ResetTicket
    /\ \A r \in Passkey : [r EXCEPT !.state = "deleted"] \in Passkey
    /\ \A r \in Account : /\ \A x \in {"active", "disabled"} : [r EXCEPT !.state = x] \in Account
                          /\ \A x \in Roles : [r EXCEPT !.role = x] \in Account
                          /\ \A x \in Revisions : /\ [r EXCEPT !.pw = x] \in Account
                                                  /\ [r EXCEPT !.rec = x] \in Account
  BY Zenon DEF Invitation, ResetTicket, Passkey, Account

\* A revision below the bound has a successor.
LEMMA NextRevision == \A n \in Revisions : n < MaxRevision => n + 1 \in Revisions
  BY ControlAssumption DEF Revisions

\* What the tables may hold after a step, per action.
LEMMA TypeStep == TypeOK /\ [Next]_vars => TypeOK'
<1> SUFFICES ASSUME TypeOK, [Next]_vars PROVE TypeOK'
  OBVIOUS
<1> USE ControlAssumption
<1>1. ASSUME NEW u \in Users, BootstrapFirstAdmin(u) PROVE TypeOK'
  BY <1>1 DEF TypeOK, BootstrapFirstAdmin, NewUser, Account, Roles, Revisions
<1>2. ASSUME NEW u \in Users, revokePendingCapabilities(u)
      PROVE inv' \in [Invites -> Invitation] /\ ticket' \in [Tickets -> ResetTicket]
  BY <1>2, RowTypes, Zenon DEF TypeOK, revokePendingCapabilities
<1>3. ASSUME NEW a \in Users, NEW u \in Users, DisableUser(a, u) PROVE TypeOK'
  <2>1. user' \in [Users -> Account]
    BY <1>3, RowTypes, Zenon DEF TypeOK, DisableUser
  <2> QED
    BY <1>2, <1>3, <2>1 DEF TypeOK, DisableUser
<1>4. ASSUME NEW a \in Users, NEW u \in Users, EnableUser(a, u) PROVE TypeOK'
  BY <1>4, RowTypes, Zenon DEF TypeOK, EnableUser
<1>5. ASSUME NEW a \in Users, NEW u \in Users, NEW r \in Roles, SetUserRole(a, u, r) PROVE TypeOK'
  <2>1. user' \in [Users -> Account]
    BY <1>5, RowTypes, Zenon DEF TypeOK, SetUserRole
  <2>2. inv' \in [Invites -> Invitation] /\ ticket' \in [Tickets -> ResetTicket]
    BY <1>2, <1>5 DEF TypeOK, SetUserRole
  <2> QED
    BY <1>5, <2>1, <2>2 DEF TypeOK, SetUserRole
<1>6. ASSUME NEW a \in Users, NEW i \in Invites, RevokeInvitation(a, i) PROVE TypeOK'
  BY <1>6, RowTypes, Zenon DEF TypeOK, RevokeInvitation
<1>7. ASSUME NEW a \in Users, NEW e \in Users, NEW i \in Invites, NEW r \in Roles, CreateInvitation(a, i, e, r) PROVE TypeOK'
  <2>1. [state |-> "pending", by |-> a, email |-> e, role |-> r, due |-> FALSE] \in Invitation
    BY DEF Invitation
  <2> QED
    BY <1>7, <2>1, RowTypes, Zenon DEF TypeOK, CreateInvitation
<1>8. ASSUME NEW i \in Invites, AcceptInvitation(i) PROVE TypeOK'
  <2>1. inv' \in [Invites -> Invitation]
    <3>1. \A x \in {"expired", "accepted"} : [inv EXCEPT ![i].state = x] \in [Invites -> Invitation]
      BY RowTypes, Zenon DEF TypeOK
    <3> QED
      BY <1>8, <3>1 DEF AcceptInvitation, Accepted
  <2>2. inv[i].role \in Roles
    BY DEF TypeOK, Invitation
  <2>3. user' \in [Users -> Account]
    BY <1>8, <2>2 DEF TypeOK, AcceptInvitation, NewUser, Account, Revisions
  <2> QED
    BY <1>8, <2>1, <2>3 DEF TypeOK, AcceptInvitation
<1>9. ASSUME NEW a \in Users, NEW t \in Tickets, RevokePasswordResetTicket(a, t) PROVE TypeOK'
  BY <1>9, RowTypes, Zenon DEF TypeOK, RevokePasswordResetTicket
<1>10. ASSUME NEW a \in Users, NEW u \in Users, NEW t \in Tickets, CreatePasswordResetTicket(a, t, u) PROVE TypeOK'
  <2>1. [state |-> "pending", by |-> a, user |-> u, due |-> FALSE] \in ResetTicket
    BY DEF ResetTicket
  <2>2. PriorTicketsResolved(u) \in [Tickets -> ResetTicket]
    BY RowTypes, Zenon DEF TypeOK, PriorTicketsResolved
  <2> QED
    BY <1>10, <2>1, <2>2 DEF TypeOK, CreatePasswordResetTicket
<1>11. ASSUME NEW u PROVE PasskeysDeleted(u) \in [Passkeys -> Passkey]
  BY RowTypes DEF TypeOK, PasskeysDeleted
<1>12. ASSUME NEW c \in Clients, NEW t \in Tickets, CompletePasswordReset(c, t) PROVE TypeOK'
  <2>1. ticket' \in [Tickets -> ResetTicket]
    <3>1. [ticket EXCEPT ![t].state = "expired"] \in [Tickets -> ResetTicket]
      BY RowTypes, Zenon DEF TypeOK
    <3>2. TicketSpent(t) \in [Tickets -> ResetTicket]
      BY RowTypes, Zenon DEF TypeOK, TicketSpent
    <3> QED
      BY <1>12, <3>1, <3>2 DEF CompletePasswordReset
  <2>2. user' \in [Users -> Account]
    <3> DEFINE v == ticket[t].user
    <3>1. CASE v \notin Users
      BY <1>12, <3>1 DEF TypeOK, CompletePasswordReset
    <3>2. CASE v \in Users
      <4>1. user[v] \in Account /\ user[v].pw \in Revisions /\ user[v].rec \in Revisions
        BY <3>2 DEF TypeOK, Account
      <4>2. ASSUME user[v].pw < MaxRevision, user[v].rec < MaxRevision
            PROVE [user[v] EXCEPT !.pw = @ + 1, !.rec = @ + 1] \in Account
        BY <4>1, <4>2, NextRevision, Zenon DEF Account
      <4> QED
        BY <1>12, <3>2, <4>2, Zenon DEF TypeOK, CompletePasswordReset
    <3> QED
      BY <3>1, <3>2
  <2> QED
    BY <1>11, <1>12, <2>1, <2>2 DEF TypeOK, CompletePasswordReset
<1>13. ASSUME NEW c \in Clients, NEW u \in Users, Preflight(c, u) PROVE TypeOK'
  <2>1. user[u].pw \in Revisions /\ user[u].rec \in Revisions
    BY DEF TypeOK, Account
  <2>2. [k \in Passkeys |-> passkey[k].rev] \in [Passkeys -> Revisions]
    BY DEF TypeOK, Passkey
  <2> QED
    BY <1>13, <2>1, <2>2 DEF TypeOK, Preflight, Reading
<1>14. ASSUME NEW c \in Clients, NEW revoke \in BOOLEAN, ReplacePasswordCredential(c, revoke) PROVE TypeOK'
  <2>1. user' \in [Users -> Account]
    <3> DEFINE v == seen[c].user
    <3>1. v \in Users
      BY <1>14 DEF TypeOK, Reading, ReplacePasswordCredential
    <3>2. user[v] \in Account /\ user[v].pw \in Revisions
      BY <3>1 DEF TypeOK, Account
    <3>3. [user[v] EXCEPT !.pw = @ + 1] \in Account
      <4>1. user[v].pw + 1 \in Revisions
        BY <1>14, <3>2, NextRevision DEF ReplacePasswordCredential
      <4> QED
        BY <3>2, <4>1 DEF Account
    <3> QED
      BY <1>14, <3>1, <3>3 DEF TypeOK, ReplacePasswordCredential
  <2> QED
    BY <1>11, <1>14, <2>1 DEF TypeOK, ReplacePasswordCredential
<1>15. ASSUME NEW c \in Clients, RotateRecoveryEnvelope(c) PROVE TypeOK'
  <2> DEFINE v == seen[c].user
  <2>1. v \in Users
    BY <1>15 DEF TypeOK, Reading, RotateRecoveryEnvelope
  <2>2. user[v] \in Account /\ user[v].rec \in Revisions
    BY <2>1 DEF TypeOK, Account
  <2>3. [user[v] EXCEPT !.rec = @ + 1] \in Account
    <3>1. user[v].rec + 1 \in Revisions
      BY <1>15, <2>2, NextRevision DEF RotateRecoveryEnvelope
    <3> QED
      BY <2>2, <3>1 DEF Account
  <2> QED
    BY <1>15, <2>1, <2>3 DEF TypeOK, RotateRecoveryEnvelope
<1>16. ASSUME NEW c \in Clients, NEW k \in Passkeys, UpdatePasskey(c, k) PROVE TypeOK'
  <2>1. passkey[k].rev \in Revisions
    BY DEF TypeOK, Passkey
  <2> QED
    BY <1>16, <2>1, NextRevision DEF TypeOK, UpdatePasskey, Passkey
<1>17. ASSUME NEW k \in Passkeys, DeletePasskeyCredential(k) PROVE TypeOK'
  BY <1>17, RowTypes, Zenon DEF TypeOK, DeletePasskeyCredential
<1>18. ASSUME NEW u \in Users, NEW k \in Passkeys, CreatePasskeyCredential(u, k) PROVE TypeOK'
  BY <1>18 DEF TypeOK, CreatePasskeyCredential, Passkey, Revisions
<1>19. ASSUME NEW u \in Users, DeleteAllPasskeyCredentials(u) PROVE TypeOK'
  BY <1>11, <1>19 DEF TypeOK, DeleteAllPasskeyCredentials
<1>20. CASE TimePasses
  <2>1. \A i \in Invites : [inv EXCEPT ![i].due = TRUE] \in [Invites -> Invitation]
    BY RowTypes, Zenon DEF TypeOK
  <2>2. \A t \in Tickets : [ticket EXCEPT ![t].due = TRUE] \in [Tickets -> ResetTicket]
    BY RowTypes, Zenon DEF TypeOK
  <2> QED
    BY <1>20, <2>1, <2>2 DEF TypeOK, TimePasses
<1>21. CASE UNCHANGED vars
  BY <1>21 DEF TypeOK, vars
<1> QED
  BY <1>1, <1>3, <1>4, <1>5, <1>6, <1>7, <1>8, <1>9, <1>10, <1>12, <1>13, <1>14, <1>15, <1>16, <1>17,
     <1>18, <1>19, <1>20, <1>21 DEF Next

-----------------------------------------------------------------------------

\* There is no account before the first administrator's; later, whoever is disabled or
\* demoted leaves another one, and every other step keeps roles and states.
LEMMA AdministratorStep == IInv /\ [Next]_vars => AdministratorRemains'
<1> SUFFICES ASSUME IInv, [Next]_vars PROVE AdministratorRemains'
  OBVIOUS
<1> USE DEF IInv
<1>1. ASSUME \A u \in Users : user'[u].state = user[u].state /\ user'[u].role = user[u].role
      PROVE AdministratorRemains'
  BY <1>1 DEF AdministratorRemains, Exists, requireActiveAdmin, IsActive
<1>2. ASSUME NEW u \in Users, BootstrapFirstAdmin(u) PROVE AdministratorRemains'
  BY <1>2 DEF TypeOK, AdministratorRemains, BootstrapFirstAdmin, NewUser, Exists, requireActiveAdmin, IsActive
<1>3. ASSUME NEW a \in Users, NEW u \in Users, DisableUser(a, u) PROVE AdministratorRemains'
  <2>1. a # u /\ requireActiveAdmin(a) /\ user'[a] = user[a]
    BY <1>3 DEF TypeOK, DisableUser
  <2> QED
    BY <2>1 DEF AdministratorRemains, requireActiveAdmin, IsActive
<1>4. ASSUME NEW a \in Users, NEW u \in Users, EnableUser(a, u) PROVE AdministratorRemains'
  <2>1. requireActiveAdmin(a) /\ user'[a].role = user[a].role /\ user'[a].state = "active"
    BY <1>4 DEF TypeOK, Account, EnableUser, requireActiveAdmin, IsActive
  <2> QED
    BY <2>1 DEF AdministratorRemains, requireActiveAdmin, IsActive
<1>5. ASSUME NEW a \in Users, NEW u \in Users, NEW r \in Roles, SetUserRole(a, u, r) PROVE AdministratorRemains'
  <2>1. CASE r = "admin"
    <3>1. requireActiveAdmin(a) /\ user'[a].role = "admin" /\ user'[a].state = user[a].state
      BY <1>5, <2>1 DEF TypeOK, Account, SetUserRole, requireActiveAdmin
    <3> QED
      BY <3>1 DEF AdministratorRemains, requireActiveAdmin, IsActive
  <2>2. CASE r # "admin"
    <3>1. \E v \in Users : v # u /\ requireActiveAdmin(v)
      BY <1>5, <2>2 DEF SetUserRole, Demotable, requireAnotherActiveAdmin, requireActiveAdmin, IsActive
    <3>2. PICK v \in Users : v # u /\ requireActiveAdmin(v)
      BY <3>1
    <3>3. user'[v] = user[v]
      BY <1>5, <3>2 DEF TypeOK, SetUserRole
    <3> QED
      BY <3>2, <3>3 DEF AdministratorRemains, requireActiveAdmin, IsActive
  <2> QED
    BY <2>1, <2>2
<1>6. ASSUME NEW i \in Invites, AcceptInvitation(i) PROVE AdministratorRemains'
  <2>1. CASE UNCHANGED user
    BY <1>1, <2>1
  <2>2. CASE ~inv[i].due
    <3> DEFINE e == inv[i].email
    <3>1. user' = [user EXCEPT ![e] = NewUser(inv[i].role)] /\ ~Exists(e)
      BY <1>6, <2>2 DEF AcceptInvitation
    <3>2. inv[i].by \in Users /\ requireActiveAdmin(inv[i].by)
      BY <1>6 DEF AcceptInvitation, CapabilitiesFollowRole
    <3>3. user'[inv[i].by] = user[inv[i].by]
      BY <3>1, <3>2 DEF TypeOK, Exists, requireActiveAdmin, IsActive
    <3> QED
      BY <3>2, <3>3 DEF AdministratorRemains, requireActiveAdmin, IsActive
  <2> QED
    BY <1>6, <2>1, <2>2 DEF AcceptInvitation
<1>7. ASSUME NEW c \in Clients, NEW t \in Tickets, CompletePasswordReset(c, t) PROVE AdministratorRemains'
  BY <1>1, <1>7 DEF CompletePasswordReset, TypeOK, Account
<1>8. ASSUME NEW c \in Clients, NEW revoke \in BOOLEAN, ReplacePasswordCredential(c, revoke) PROVE AdministratorRemains'
  BY <1>1, <1>8 DEF ReplacePasswordCredential, TypeOK, Account
<1>9. ASSUME NEW c \in Clients, RotateRecoveryEnvelope(c) PROVE AdministratorRemains'
  BY <1>1, <1>9 DEF RotateRecoveryEnvelope, TypeOK, Account
<1>10. CASE UNCHANGED user
  BY <1>1, <1>10
<1> QED
  BY <1>2, <1>3, <1>4, <1>5, <1>6, <1>7, <1>8, <1>9, <1>10, Zenon
     DEF Next, vars, RevokeInvitation, CreateInvitation, RevokePasswordResetTicket, CreatePasswordResetTicket,
         Preflight, UpdatePasskey, DeletePasskeyCredential, CreatePasskeyCredential,
         DeleteAllPasskeyCredentials, TimePasses

\* No step reopens a row or changes whom an open one is by and for: an open row was
\* open before, with the same columns, unless this step created it.
OnlyCloses ==
    /\ \A i \in Invites : inv'[i].state = "pending" =>
         inv[i].state = "pending" /\ inv'[i].by = inv[i].by /\ inv'[i].email = inv[i].email
    /\ \A t \in Tickets : ticket'[t].state = "pending" =>
         ticket[t].state = "pending" /\ ticket'[t].by = ticket[t].by /\ ticket'[t].user = ticket[t].user

\* Issuers and holders that keep role and state keep their capabilities.
LEMMA CapabilitiesKept ==
    ASSUME IInv, OnlyCloses,
           \A i \in Invites : inv'[i].state = "pending" =>
             user'[inv[i].by].state = user[inv[i].by].state /\ user'[inv[i].by].role = user[inv[i].by].role,
           \A t \in Tickets : ticket'[t].state = "pending" =>
             /\ user'[ticket[t].by].state = user[ticket[t].by].state /\ user'[ticket[t].by].role = user[ticket[t].by].role
             /\ user'[ticket[t].user].state = user[ticket[t].user].state
    PROVE  CapabilitiesFollowRole'
  BY DEF IInv, OnlyCloses, CapabilitiesFollowRole, requireActiveAdmin, IsActive

\* Closing rows opens no second bearer.
LEMMA BearersKept ==
    ASSUME IInv, OnlyCloses, \A u \in Users : Exists(u)' => Exists(u)
    PROVE  OneOpenBearer'
  BY DEF IInv, OnlyCloses, OneOpenBearer, Exists

\* The state column alone changes when capabilities are revoked, and nothing that is by
\* or for u stays open.
LEMMA RevokedFacts ==
    ASSUME TypeOK, NEW u \in Users, revokePendingCapabilities(u)
    PROVE  /\ OnlyCloses
           /\ \A i \in Invites : inv'[i].state = "pending" => inv[i].by # u
           /\ \A t \in Tickets : ticket'[t].state = "pending" => ticket[t].by # u /\ ticket[t].user # u
<1>1. \A i \in Invites : /\ inv'[i].state = "pending" => inv'[i] = inv[i] /\ inv[i].by # u
  BY DEF TypeOK, Invitation, revokePendingCapabilities
<1>2. \A t \in Tickets : ticket'[t].state = "pending" => ticket'[t] = ticket[t] /\ ticket[t].by # u /\ ticket[t].user # u
  BY DEF TypeOK, ResetTicket, revokePendingCapabilities
<1> QED
  BY <1>1, <1>2 DEF OnlyCloses

\* Each action keeps the two properties of capabilities: it closes rows of those who
\* lose their role, or opens one for an administrator after closing its predecessor.
LEMMA CapabilitiesStep == IInv /\ [Next]_vars => CapabilitiesFollowRole' /\ OneOpenBearer'
<1> SUFFICES ASSUME IInv, [Next]_vars PROVE CapabilitiesFollowRole' /\ OneOpenBearer'
  OBVIOUS
<1> USE DEF IInv
<1>1. ASSUME OnlyCloses, \A u \in Users : user'[u].state = user[u].state /\ user'[u].role = user[u].role
      PROVE CapabilitiesFollowRole' /\ OneOpenBearer'
  <2>1. CapabilitiesFollowRole'
    BY <1>1, CapabilitiesKept DEF CapabilitiesFollowRole, OnlyCloses
  <2>2. OneOpenBearer'
    BY <1>1, BearersKept DEF Exists
  <2> QED
    BY <2>1, <2>2
<1>2. ASSUME NEW u \in Users, BootstrapFirstAdmin(u) PROVE CapabilitiesFollowRole' /\ OneOpenBearer'
  <2>1. \A i \in Invites : inv[i].state # "pending"
    BY <1>2 DEF BootstrapFirstAdmin, CapabilitiesFollowRole, requireActiveAdmin, IsActive, Exists
  <2>2. \A t \in Tickets : ticket[t].state # "pending"
    BY <1>2 DEF BootstrapFirstAdmin, CapabilitiesFollowRole, requireActiveAdmin, IsActive, Exists
  <2> QED
    BY <1>2, <2>1, <2>2 DEF BootstrapFirstAdmin, CapabilitiesFollowRole, OneOpenBearer
<1>3. ASSUME NEW u \in Users, revokePendingCapabilities(u), \A v \in Users \ {u} : user'[v] = user[v],
             Exists(u)
      PROVE CapabilitiesFollowRole' /\ OneOpenBearer'
  <2>1. /\ OnlyCloses
        /\ \A i \in Invites : inv'[i].state = "pending" => inv[i].by # u
        /\ \A t \in Tickets : ticket'[t].state = "pending" => ticket[t].by # u /\ ticket[t].user # u
    BY <1>3, RevokedFacts
  <2>2. CapabilitiesFollowRole'
    BY <1>3, <2>1, CapabilitiesKept DEF CapabilitiesFollowRole, OnlyCloses
  <2>3. OneOpenBearer'
    BY <1>3, <2>1, BearersKept DEF Exists
  <2> QED
    BY <2>2, <2>3
<1>4. ASSUME NEW a \in Users, NEW u \in Users, DisableUser(a, u) PROVE CapabilitiesFollowRole' /\ OneOpenBearer'
  BY <1>3, <1>4 DEF DisableUser, TypeOK
<1>5. ASSUME NEW a \in Users, NEW u \in Users, EnableUser(a, u) PROVE CapabilitiesFollowRole' /\ OneOpenBearer'
  <2>1. \A v \in Users : user'[v].role = user[v].role /\ (user'[v].state = user[v].state \/ user'[v].state = "active")
    BY <1>5 DEF EnableUser, TypeOK, Account
  <2>2. \A v \in Users : Exists(v)' => Exists(v)
    BY <1>5 DEF EnableUser, TypeOK, Exists
  <2> QED
    BY <1>5, <2>1, <2>2 DEF EnableUser, CapabilitiesFollowRole, OneOpenBearer, requireActiveAdmin, IsActive
<1>6. ASSUME NEW a \in Users, NEW u \in Users, NEW r \in Roles, SetUserRole(a, u, r)
      PROVE CapabilitiesFollowRole' /\ OneOpenBearer'
  <2>1. CASE r = "admin"
    <3>1. \A v \in Users : user'[v].state = user[v].state /\ (user'[v].role = user[v].role \/ user'[v].role = "admin")
      BY <1>6, <2>1 DEF SetUserRole, TypeOK, Account
    <3> QED
      BY <1>6, <2>1, <3>1 DEF SetUserRole, CapabilitiesFollowRole, OneOpenBearer, requireActiveAdmin, IsActive, Exists
  <2>2. CASE r # "admin"
    BY <1>3, <1>6, <2>2 DEF SetUserRole, TypeOK
  <2> QED
    BY <2>1, <2>2
<1>7. ASSUME NEW a \in Users, NEW i \in Invites, RevokeInvitation(a, i) PROVE CapabilitiesFollowRole' /\ OneOpenBearer'
  <2>1. OnlyCloses
    BY <1>7 DEF RevokeInvitation, OnlyCloses, TypeOK, Invitation
  <2> QED
    BY <1>1, <1>7, <2>1 DEF RevokeInvitation
<1>8. ASSUME NEW a \in Users, NEW e \in Users, NEW i \in Invites, NEW r \in Roles, CreateInvitation(a, i, e, r)
      PROVE CapabilitiesFollowRole' /\ OneOpenBearer'
  <2>1. /\ inv'[i].state = "pending" /\ inv'[i].by = a /\ inv'[i].email = e
        /\ \A j \in Invites \ {i} : inv'[j].state = "pending" => inv'[j] = inv[j] /\ inv[j].email # e
    BY <1>8 DEF CreateInvitation, TypeOK, Invitation
  <2>2. requireActiveAdmin(a) /\ ~Exists(e) /\ UNCHANGED <<user, ticket>>
    BY <1>8 DEF CreateInvitation, EmailFree
  <2>3. CapabilitiesFollowRole'
    BY <2>1, <2>2 DEF CapabilitiesFollowRole, requireActiveAdmin, IsActive
  <2>4. OneOpenBearer'
    BY <2>1, <2>2 DEF OneOpenBearer, Exists
  <2> QED
    BY <2>3, <2>4
<1>9. ASSUME NEW i \in Invites, AcceptInvitation(i) PROVE CapabilitiesFollowRole' /\ OneOpenBearer'
  <2>1. OnlyCloses /\ inv'[i].state # "pending"
    BY <1>9, SMTT(60) DEF AcceptInvitation, Accepted, OnlyCloses, TypeOK, Invitation
  <2>2. CASE UNCHANGED user
    BY <1>1, <2>1, <2>2
  <2>3. CASE ~inv[i].due
    <3> DEFINE e == inv[i].email
    <3>1. user' = [user EXCEPT ![e] = NewUser(inv[i].role)] /\ ~Exists(e) /\ e \in Users
      BY <1>9, <2>3 DEF AcceptInvitation, OneOpenBearer
    <3>2. \A v \in Users : v # e => user'[v] = user[v]
      BY <3>1 DEF TypeOK
    <3>3. CapabilitiesFollowRole'
      BY <2>1, <3>1, <3>2 DEF OnlyCloses, CapabilitiesFollowRole, requireActiveAdmin, IsActive, Exists
    <3>4. OneOpenBearer'
      <4>1. \A j \in Invites : inv'[j].state = "pending" => inv'[j].email # e
        BY <1>9, <2>1 DEF OnlyCloses, OneOpenBearer, AcceptInvitation
      <4> QED
        BY <2>1, <3>1, <3>2, <4>1 DEF OnlyCloses, OneOpenBearer, Exists
    <3> QED
      BY <3>3, <3>4
  <2> QED
    BY <1>9, <2>2, <2>3 DEF AcceptInvitation
<1>10. ASSUME NEW a \in Users, NEW t \in Tickets, RevokePasswordResetTicket(a, t) PROVE CapabilitiesFollowRole' /\ OneOpenBearer'
  <2>1. OnlyCloses
    BY <1>10 DEF RevokePasswordResetTicket, OnlyCloses, TypeOK, ResetTicket
  <2> QED
    BY <1>1, <1>10, <2>1 DEF RevokePasswordResetTicket
<1>11. ASSUME NEW a \in Users, NEW u \in Users, NEW t \in Tickets, CreatePasswordResetTicket(a, t, u)
       PROVE CapabilitiesFollowRole' /\ OneOpenBearer'
  <2>1. /\ ticket'[t].state = "pending" /\ ticket'[t].by = a /\ ticket'[t].user = u
        /\ \A s \in Tickets \ {t} : ticket'[s].state = "pending" => ticket'[s] = ticket[s] /\ ticket[s].user # u
    BY <1>11 DEF CreatePasswordResetTicket, PriorTicketsResolved, TypeOK, ResetTicket
  <2>2. requireActiveAdmin(a) /\ IsActive(u) /\ UNCHANGED <<user, inv>>
    BY <1>11 DEF CreatePasswordResetTicket
  <2>3. CapabilitiesFollowRole'
    BY <2>1, <2>2 DEF CapabilitiesFollowRole, requireActiveAdmin, IsActive
  <2>4. OneOpenBearer'
    BY <2>1, <2>2 DEF OneOpenBearer, Exists
  <2> QED
    BY <2>3, <2>4
<1>12. ASSUME NEW c \in Clients, NEW t \in Tickets, CompletePasswordReset(c, t) PROVE CapabilitiesFollowRole' /\ OneOpenBearer'
  <2>1. \A u \in Users : user'[u].state = user[u].state /\ user'[u].role = user[u].role
    BY <1>12 DEF CompletePasswordReset, TypeOK, Account
  <2>2. OnlyCloses
    <3>1. \A s \in Tickets : ticket'[s].state = "pending" => ticket'[s] = ticket[s]
      BY <1>12 DEF CompletePasswordReset, TicketSpent, TypeOK, ResetTicket
    <3> QED
      BY <1>12, <3>1 DEF OnlyCloses, CompletePasswordReset
  <2> QED
    BY <1>1, <2>1, <2>2
<1>13. ASSUME NEW c \in Clients, NEW revoke \in BOOLEAN, ReplacePasswordCredential(c, revoke)
       PROVE CapabilitiesFollowRole' /\ OneOpenBearer'
  BY <1>1, <1>13 DEF ReplacePasswordCredential, OnlyCloses, TypeOK, Account
<1>14. ASSUME NEW c \in Clients, RotateRecoveryEnvelope(c) PROVE CapabilitiesFollowRole' /\ OneOpenBearer'
  BY <1>1, <1>14 DEF RotateRecoveryEnvelope, OnlyCloses, TypeOK, Account
<1>15. CASE TimePasses
  <2>1. OnlyCloses
    BY <1>15 DEF TimePasses, OnlyCloses, TypeOK, Invitation, ResetTicket
  <2> QED
    BY <1>1, <1>15, <2>1 DEF TimePasses
<1>16. CASE UNCHANGED <<user, inv, ticket>>
  BY <1>1, <1>16 DEF OnlyCloses
<1> QED
  BY <1>2, <1>4, <1>5, <1>6, <1>7, <1>8, <1>9, <1>10, <1>11, <1>12, <1>13, <1>14, <1>15, <1>16
     DEF Next, vars, Preflight, UpdatePasskey, DeletePasskeyCredential, CreatePasskeyCredential,
         DeleteAllPasskeyCredentials

-----------------------------------------------------------------------------

\* The conjunction is inductive.
THEOREM Invariant == Spec => []IInv
<1>1. IInv /\ [Next]_vars => IInv'
  BY TypeStep, AdministratorStep, CapabilitiesStep DEF IInv
<1> QED
  BY InitIInv, <1>1, PTL DEF Spec

\* The tables keep their types.
THEOREM TypeCorrect == Spec => []TypeOK
  BY Invariant, PTL DEF IInv

\* The installation is never left without an active administrator.
THEOREM AdministratorAlwaysRemains == Spec => []AdministratorRemains
  BY Invariant, PTL DEF IInv

\* Open invitations and tickets are those of active administrators, for active accounts.
THEOREM CapabilitiesAlwaysFollowRole == Spec => []CapabilitiesFollowRole
  BY Invariant, PTL DEF IInv

\* No person has two open bearers, and no account an open invitation.
THEOREM BearersAlwaysSingle == Spec => []OneOpenBearer
  BY Invariant, PTL DEF IInv

\* Only a completed reset spends a ticket.
LEMMA OnlyResetSpends ==
    ASSUME TypeOK, Next, NEW t \in Tickets, ticket[t].state # "consumed", ticket'[t].state = "consumed"
    PROVE  /\ \E c \in Clients : CompletePasswordReset(c, t)
           /\ passkey' = PasskeysDeleted(ticket[t].user)
<1>1. ASSUME NEW u \in Users, revokePendingCapabilities(u) PROVE FALSE
  BY <1>1 DEF revokePendingCapabilities, TypeOK, ResetTicket
<1>2. ASSUME NEW a \in Users, NEW s \in Tickets, RevokePasswordResetTicket(a, s) PROVE FALSE
  BY <1>2 DEF RevokePasswordResetTicket, TypeOK, ResetTicket
<1>3. ASSUME NEW a \in Users, NEW u \in Users, NEW s \in Tickets, CreatePasswordResetTicket(a, s, u) PROVE FALSE
  BY <1>3 DEF CreatePasswordResetTicket, PriorTicketsResolved, TypeOK, ResetTicket
<1>4. ASSUME NEW c \in Clients, NEW s \in Tickets, CompletePasswordReset(c, s)
      PROVE s = t /\ passkey' = PasskeysDeleted(ticket[t].user)
  <2>1. CASE ticket' = [ticket EXCEPT ![s].state = "expired"]
    BY <2>1 DEF TypeOK, ResetTicket
  <2>2. CASE ticket' = TicketSpent(s) /\ passkey' = PasskeysDeleted(ticket[s].user)
    BY <2>2 DEF TicketSpent, TypeOK, ResetTicket
  <2> QED
    BY <1>4, <2>1, <2>2 DEF CompletePasswordReset
<1>5. CASE TimePasses
  BY <1>5 DEF TimePasses, TypeOK, ResetTicket
<1>6. ticket' # ticket
  OBVIOUS
<1> QED
  BY <1>1, <1>2, <1>3, <1>4, <1>5, <1>6, Zenon
     DEF Next, BootstrapFirstAdmin, DisableUser, EnableUser, SetUserRole, RevokeInvitation, CreateInvitation,
         AcceptInvitation, Preflight, ReplacePasswordCredential, RotateRecoveryEnvelope, UpdatePasskey,
         DeletePasskeyCredential, CreatePasskeyCredential, DeleteAllPasskeyCredentials

\* The step that spends a ticket leaves its user no passkey.
THEOREM ResetAlwaysRevokes == Spec => ResetLeavesNoPasskey
<1> DEFINE A == \A t \in Tickets : ticket[t].state # "consumed" /\ ticket'[t].state = "consumed" =>
                  \A k \in Passkeys : passkey'[k].state = "live" => passkey'[k].owner # ticket[t].user
<1>1. TypeOK /\ [Next]_vars => [A]_vars
  <2> SUFFICES ASSUME TypeOK, Next,
                      NEW t \in Tickets, ticket[t].state # "consumed", ticket'[t].state = "consumed",
                      NEW k \in Passkeys, passkey'[k].state = "live"
               PROVE  passkey'[k].owner # ticket[t].user
    BY DEF vars
  <2>1. passkey' = PasskeysDeleted(ticket[t].user)
    BY OnlyResetSpends
  <2> QED
    BY <2>1 DEF PasskeysDeleted, TypeOK, Passkey
<1> QED
  BY <1>1, TypeCorrect, PTL DEF Spec, ResetLeavesNoPasskey

-----------------------------------------------------------------------------

\* What a step that changes a credential of u has proved.
RecoveryProven(u) == user'[u].rec # user[u].rec => \E c \in Clients : seen[c].user = u /\ seen[c].rec = user[u].rec
PasswordProven(u) ==
    user'[u].pw # user[u].pw =>
        \E c \in Clients : /\ seen[c].user = u
                           /\ IF user'[u].rec = user[u].rec THEN seen[c].pw = user[u].pw
                              ELSE \E t \in Tickets : /\ ticket[t].user = u /\ ticket[t].state = "pending"
                                                      /\ ticket'[t].state = "consumed"

\* A reset proves the recovery envelope and spends the ticket.
LEMMA ResetProven ==
    ASSUME TypeOK, NEW c \in Clients, NEW t \in Tickets, CompletePasswordReset(c, t), NEW u \in Users
    PROVE  RecoveryProven(u) /\ PasswordProven(u)
<1> DEFINE v == ticket[t].user
<1>1. CASE UNCHANGED user
  BY <1>1 DEF RecoveryProven, PasswordProven
<1>2. CASE ~ticket[t].due
  <2>1. /\ seen[c].user = v /\ user[v].rec = seen[c].rec /\ ticket' = TicketSpent(t) /\ ticket[t].state = "pending"
        /\ user' = [user EXCEPT ![v].pw = @ + 1, ![v].rec = @ + 1]
    BY <1>2 DEF CompletePasswordReset, RecoveryMatches
  <2>2. CASE u # v
    BY <2>1, <2>2 DEF TypeOK, RecoveryProven, PasswordProven
  <2>3. CASE u = v
    <3>1. user[u].rec \in Nat /\ user'[u].rec = user[u].rec + 1
      BY <2>1, <2>3 DEF TypeOK, Account, Revisions
    <3>2. ticket'[t].state = "consumed"
      BY <2>1 DEF TicketSpent, TypeOK, ResetTicket
    <3>3. user'[u].rec # user[u].rec
      BY <3>1
    <3> QED
      BY <2>1, <2>3, <3>2, <3>3, Zenon DEF RecoveryProven, PasswordProven
  <2> QED
    BY <2>2, <2>3
<1> QED
  BY <1>1, <1>2 DEF CompletePasswordReset

\* So does every other step: it proves the credential that it replaces, or replaces none
\* of an account that exists.
LEMMA StepProven ==
    ASSUME TypeOK, Next, NEW u \in Users, Exists(u)
    PROVE  RecoveryProven(u) /\ PasswordProven(u)
<1>1. ASSUME user'[u].pw = user[u].pw, user'[u].rec = user[u].rec PROVE RecoveryProven(u) /\ PasswordProven(u)
  BY <1>1 DEF RecoveryProven, PasswordProven
<1>2. ASSUME NEW w \in Users, BootstrapFirstAdmin(w) PROVE FALSE
  BY <1>2 DEF BootstrapFirstAdmin
<1>3. ASSUME NEW a \in Users, NEW w \in Users,
             DisableUser(a, w) \/ EnableUser(a, w) \/ \E r \in Roles : SetUserRole(a, w, r)
      PROVE  user'[u].pw = user[u].pw /\ user'[u].rec = user[u].rec
  BY <1>3 DEF DisableUser, EnableUser, SetUserRole, TypeOK, Account
<1>4. ASSUME NEW i \in Invites, AcceptInvitation(i)
      PROVE  user'[u].pw = user[u].pw /\ user'[u].rec = user[u].rec
  BY <1>4 DEF AcceptInvitation, TypeOK, Exists
<1>5. ASSUME NEW c \in Clients, NEW revoke \in BOOLEAN, ReplacePasswordCredential(c, revoke)
      PROVE  RecoveryProven(u) /\ PasswordProven(u)
  <2> DEFINE v == seen[c].user
  <2>1. user' = [user EXCEPT ![v].pw = @ + 1] /\ seen[c].pw = user[v].pw
    BY <1>5 DEF ReplacePasswordCredential, PasswordMatches
  <2>2. user'[u].rec = user[u].rec /\ (u # v => user'[u].pw = user[u].pw)
    BY <2>1 DEF TypeOK, Account
  <2> QED
    BY <2>1, <2>2 DEF RecoveryProven, PasswordProven
<1>6. ASSUME NEW c \in Clients, RotateRecoveryEnvelope(c)
      PROVE  RecoveryProven(u) /\ PasswordProven(u)
  <2> DEFINE v == seen[c].user
  <2>1. user' = [user EXCEPT ![v].rec = @ + 1] /\ seen[c].rec = user[v].rec
    BY <1>6 DEF RotateRecoveryEnvelope, RecoveryMatches
  <2>2. user'[u].pw = user[u].pw /\ (u # v => user'[u].rec = user[u].rec)
    BY <2>1 DEF TypeOK, Account
  <2> QED
    BY <2>1, <2>2 DEF RecoveryProven, PasswordProven
<1>7. CASE UNCHANGED user
  BY <1>1, <1>7
<1> QED
  BY <1>1, <1>2, <1>3, <1>4, <1>5, <1>6, <1>7, ResetProven, Zenon
     DEF Next, RevokeInvitation, CreateInvitation, RevokePasswordResetTicket, CreatePasswordResetTicket,
         Preflight, UpdatePasskey, DeletePasskeyCredential, CreatePasskeyCredential,
         DeleteAllPasskeyCredentials, TimePasses

\* A recovery envelope or a password is replaced only by a client whose reading is of the
\* one that is replaced, or for the password by one that has a ticket and replaces the
\* recovery envelope it read too.
THEOREM ChangesAlwaysProven == Spec => ChangesProven
<1>1. TypeOK /\ [Next]_vars => [\A u \in Users : Exists(u) => RecoveryProven(u) /\ PasswordProven(u)]_vars
  BY StepProven, Zenon
<1>2. TypeOK /\ [Next]_vars =>
        [\A u \in Users : Exists(u) =>
           /\ user'[u].rec # user[u].rec =>
                \E c \in Clients : seen[c].user = u /\ seen[c].rec = user[u].rec
           /\ user'[u].pw # user[u].pw =>
                \E c \in Clients : /\ seen[c].user = u
                                   /\ IF user'[u].rec = user[u].rec
                                      THEN seen[c].pw = user[u].pw
                                      ELSE \E t \in Tickets : ticket[t].user = u /\ ticket[t].state = "pending"
                                                               /\ ticket'[t].state = "consumed"]_vars
  BY <1>1, Zenon DEF RecoveryProven, PasswordProven
<1> QED
  BY <1>2, TypeCorrect, PTL DEF Spec, ChangesProven
=============================================================================
