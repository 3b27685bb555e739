-------------------------- MODULE ServerAuthProofs --------------------------
(***************************************************************************)
(* Proofs about ServerAuth, for any finite sets of requests and users and  *)
(* any limits: no session outlives a change of its account or a logout,    *)
(* and every request gives its locks and its slot back.  They rest on the  *)
(* account lock: from the read of the account row to the publication of    *)
(* the session a login holds it, and so does a change from its commit to   *)
(* the removal of the sessions.                                            *)
(***************************************************************************)
EXTENDS ServerAuth, TLAPS

Session == [user : Users, fam : Nat, rev : Nat, recent : BOOLEAN, expired : BOOLEAN]
Account == [active : BOOLEAN, pw : Nat, rev : Nat]

Changes   == Own \cup Admin \cup {"reset"}
LoggingIn == {"mail", "lookup", "verify", "unwrap", "assert", "acquire", "create"}
Reading   == {"unwrap", "acquire", "create"}   \* a login that has read the account row
Locked    == {"verify", "unwrap", "assert", "acquire", "create", "reauth", "locked", "revoke", "drain"}
Slotted   == {"mail", "lookup", "verify", "unwrap", "reauth"}
\* The steps of a request that holds neither a lock nor a slot.
Free == {"idle", "auth", "handler", "recent", "change", "wait", "rotate", "logout", "restore",
         "signOut", "alone", "restoring"}

Request == [pc : Free \cup LoggingIn \cup Locked, op : Changes \cup {"none", "logout", "restore", "logoutAll"},
            user : Users \cup {None}, sid : Nat, fam : Nat, rev : Nat, lease : BOOLEAN,
            target : Users \cup {None}, pw : Nat, gone : BOOLEAN]

LocksTyped ==
    /\ mailLock \in [Users -> Procs \cup {None}] /\ userLock \in [Users -> Procs \cup {None}]
    /\ slots \subseteq Procs

\* What a request at each step carries.
RequestOK(c) ==
    /\ c.pc \in {"auth", "handler"} => c.user \in Users
    /\ c.pc \in LoggingIn \cup Locked \cup {"wait"} => c.target \in Users
    /\ c.pc \in {"recent", "change"} /\ c.op \in Changes => c.target \in Users
    /\ c.pc = "recent" => c.op \in Changes \cup {"restore", "logoutAll"}
    /\ c.pc = "change" => c.op \in Changes \cup {"logoutAll"}
    /\ c.pc = "locked" => c.op \in Changes
    /\ c.pc \in Reading => c.rev = acct[c.target].rev
    /\ c.fam <= issued

\* An account lock belongs to the one request that is between its lock and its unlock.
LocksOK ==
    /\ \A p \in Procs, u \in Users : userLock[u] = p <=> proc[p].pc \in Locked /\ proc[p].target = u
    /\ \A p \in Procs, u \in Users : mailLock[u] = p => proc[p].pc \in LoggingIn \ {"mail"} /\ proc[p].target = u
    /\ \A p \in slots : proc[p].pc \in Slotted

Requests ==
    /\ acct \in [Users -> Account]
    /\ proc \in [Procs -> Request]
    /\ LocksTyped
    /\ LocksOK
    /\ \A p \in Procs : RequestOK(proc[p])

\* A family is the id of a login, and at most one session has it.
Sessions ==
    /\ issued \in Nat
    /\ DOMAIN sess \subseteq 1..issued /\ sess \in [DOMAIN sess -> Session]
    /\ out \subseteq 0..issued
    /\ \A s \in DOMAIN sess : sess[s].fam \in 1..issued
    /\ \A s, t \in DOMAIN sess : sess[s].fam = sess[t].fam => s = t

IInv == Requests /\ Sessions /\ NoStaleSession

Revoking(u) == userLock[u] # None /\ proc[userLock[u]].pc = "revoke"

-----------------------------------------------------------------------------
(* The session table *)

\* Sessions may go, and change in what time does to them.
Fewer ==
    /\ DOMAIN sess' \subseteq DOMAIN sess /\ sess' \in [DOMAIN sess' -> Session]
    /\ \A s \in DOMAIN sess' : sess'[s].user = sess[s].user /\ sess'[s].fam = sess[s].fam /\ sess'[s].rev = sess[s].rev

LEMMA WithoutFewer ==
    ASSUME IInv, NEW gone, sess' = Without(gone)
    PROVE  Fewer /\ DOMAIN sess' = DOMAIN sess \ gone
BY DEF IInv, Sessions, Fewer, Without

LEMMA SameFewer ==
    ASSUME IInv, sess' = sess
    PROVE  Fewer
BY DEF IInv, Sessions, Fewer

\* A step that publishes no session.
LEMMA FewerSessions ==
    ASSUME IInv, Fewer, issued' = issued, acct' = acct, out' \subseteq 0..issued,
           \A s \in DOMAIN sess' : sess[s].fam \notin out',
           \A u \in Users : Revoking(u) => Revoking(u)' \/ \A s \in DOMAIN sess' : sess[s].user # u
    PROVE  Sessions' /\ NoStaleSession'
<1>1. Sessions'
  BY DEF IInv, Sessions, Fewer
<1>2. ASSUME NEW s \in DOMAIN sess'
      PROVE  /\ sess'[s].rev = acct'[sess'[s].user].rev \/ Revoking(sess[s].user)'
             /\ sess'[s].fam \notin out'
  <2>1. PICK u \in Users : u = sess[s].user /\ u = sess'[s].user
    BY DEF IInv, Sessions, Fewer, Session
  <2>2. sess[s].rev = acct[u].rev \/ Revoking(u)
    BY <2>1 DEF IInv, NoStaleSession, Revoking, Fewer
  <2>3. Revoking(sess[s].user)' <=> Revoking(u)'
    BY <2>1 DEF Revoking
  <2>4. QED
    BY <2>1, <2>2, <2>3 DEF Fewer
<1>3. QED
  BY <1>1, <1>2 DEF NoStaleSession, Revoking

\* A step that publishes one session.
LEMMA NewSession ==
    ASSUME IInv, NEW kept \in SUBSET DOMAIN sess, NEW new \in Session,
           issued' = issued + 1, acct' = acct, out' = out,
           sess' = [s \in kept \cup {issued + 1} |-> IF s = issued + 1 THEN new ELSE sess[s]],
           new.fam \in 1..(issued + 1), new.fam \notin out, \A s \in kept : sess[s].fam # new.fam,
           new.rev = acct[new.user].rev \/ Revoking(new.user),
           \A u \in Users : Revoking(u) => Revoking(u)'
    PROVE  Sessions' /\ NoStaleSession'
<1>1. /\ DOMAIN sess' = kept \cup {issued + 1} /\ sess'[issued + 1] = new
      /\ issued \in Nat /\ \A s \in kept : s \in 1..issued /\ sess'[s] = sess[s] /\ sess[s] \in Session
  BY DEF IInv, Sessions
<1>2. Sessions'
  <2>1. \A s \in DOMAIN sess' : sess'[s] \in Session /\ sess'[s].fam \in 1..issued'
    BY <1>1 DEF IInv, Sessions
  <2>2. \A s, t \in DOMAIN sess' : sess'[s].fam = sess'[t].fam => s = t
    BY <1>1 DEF IInv, Sessions
  <2>3. DOMAIN sess' \subseteq 1..issued' /\ out' \subseteq 0..issued' /\ issued' \in Nat
    BY <1>1 DEF IInv, Sessions
  <2>4. sess' \in [DOMAIN sess' -> Session]
    BY <1>1, <2>1
  <2>5. QED
    BY <2>1, <2>2, <2>3, <2>4, Zenon DEF Sessions
<1>3. ASSUME NEW s \in DOMAIN sess'
      PROVE  /\ sess'[s].rev = acct'[sess'[s].user].rev \/ Revoking(sess[s].user)'
             /\ sess'[s].fam \notin out'
  <2>1. PICK u \in Users : u = sess'[s].user
    BY <1>1 DEF Session
  <2>2. /\ sess'[s].rev = acct[u].rev \/ Revoking(u)
        /\ sess'[s].fam \notin out
    BY <1>1, <2>1 DEF IInv, NoStaleSession, Revoking
  <2>3. Revoking(sess[s].user)' <=> Revoking(u)'
    BY <2>1 DEF Revoking
  <2>4. QED
    BY <2>1, <2>2, <2>3
<1>4. QED
  BY <1>2, <1>3, Zenon DEF NoStaleSession, Revoking

-----------------------------------------------------------------------------
(* The requests *)

\* What request p, now c, does to the locks and slots: those of others stay, and it has the
\* ones that go with its step.
Holds(p, c) ==
    /\ LocksTyped'
    /\ \A u \in Users, r \in Procs : r # p => /\ userLock'[u] = r <=> userLock[u] = r
                                              /\ mailLock'[u] = r => mailLock[u] = r
    /\ \A r \in slots' : r # p => r \in slots
    /\ \A u \in Users : userLock'[u] = p <=> c.pc \in Locked /\ c.target = u
    /\ \A u \in Users : mailLock'[u] = p => c.pc \in LoggingIn \ {"mail"} /\ c.target = u
    /\ p \in slots' => c.pc \in Slotted

\* The locks after one request's step; only the end of its own revocation ends one.
LEMMA LocksMove ==
    ASSUME IInv, NEW p \in Procs, NEW c \in Request, proc' = [proc EXCEPT ![p] = c], Holds(p, c)
    PROVE  /\ LocksOK'
           /\ proc[p].pc # "revoke" => \A u \in Users : Revoking(u) => Revoking(u)'
<1>1. proc'[p] = c /\ \A r \in Procs : r # p => proc'[r] = proc[r]
  BY DEF IInv, Requests
<1>2. ASSUME NEW r \in Procs, NEW u \in Users
      PROVE  /\ userLock'[u] = r <=> proc'[r].pc \in Locked /\ proc'[r].target = u
             /\ mailLock'[u] = r => proc'[r].pc \in LoggingIn \ {"mail"} /\ proc'[r].target = u
  BY <1>1 DEF IInv, Requests, LocksOK, Holds
<1>3. \A r \in slots' : proc'[r].pc \in Slotted
  BY <1>1 DEF IInv, Requests, LocksOK, LocksTyped, Holds
<1>4. ASSUME proc[p].pc # "revoke", NEW u \in Users, Revoking(u)
      PROVE  Revoking(u)'
  <2>1. PICK r \in Procs : r = userLock[u] /\ proc[r].pc = "revoke" /\ r # None /\ r # p
    BY <1>4, AuthAssumption DEF IInv, Requests, LocksTyped, Revoking
  <2>2. userLock'[u] = r /\ proc'[r] = proc[r]
    BY <1>1, <2>1 DEF Holds
  <2>3. QED
    BY <2>1, <2>2 DEF Revoking
<1>5. QED
  BY <1>2, <1>3, <1>4 DEF LocksOK

\* One request takes a step and becomes c.
LEMMA OneMoves ==
    ASSUME IInv, NEW p \in Procs, NEW c \in Request, proc' = [proc EXCEPT ![p] = c], Holds(p, c), RequestOK(c),
           issued' \in Nat, issued' >= issued, acct' = acct
    PROVE  /\ Requests'
           /\ proc[p].pc # "revoke" => \A u \in Users : Revoking(u) => Revoking(u)'
<1>1. /\ acct \in [Users -> Account] /\ issued \in Nat /\ \A r \in Procs : RequestOK(proc[r])
      /\ proc' \in [Procs -> Request] /\ proc'[p] = c /\ \A r \in Procs : r # p => proc'[r] = proc[r]
  BY DEF IInv, Requests, Sessions
<1>2. ASSUME NEW r \in Procs
      PROVE  RequestOK(proc[r])'
  <2>1. proc'[r] \in Request /\ RequestOK(proc'[r])
    BY <1>1
  <2>2. proc'[r].fam <= issued'
    BY <1>1, <2>1 DEF RequestOK, Request
  <2>3. QED
    BY <2>1, <2>2 DEF RequestOK
<1>3. LocksTyped'
  BY DEF Holds
<1>4. QED
  BY <1>1, <1>2, <1>3, LocksMove, Zenon DEF Requests

\* The step does not touch the session table.
LEMMA QuietStep ==
    ASSUME IInv, NEW p \in Procs, NEW c \in Request, proc' = [proc EXCEPT ![p] = c], Holds(p, c), RequestOK(c),
           proc[p].pc # "revoke", UNCHANGED <<sess, issued, out, acct>>
    PROVE  IInv'
<1>1. issued \in Nat /\ out \subseteq 0..issued /\ \A s \in DOMAIN sess : sess[s].fam \notin out
  BY DEF IInv, Sessions, NoStaleSession
<1>2. Requests' /\ \A u \in Users : Revoking(u) => Revoking(u)'
  <2>1. issued' \in Nat /\ issued' >= issued /\ acct' = acct
    BY <1>1
  <2>2. QED
    BY <2>1, OneMoves, Zenon
<1>3. Sessions' /\ NoStaleSession'
  <2>1. Fewer
    BY SameFewer
  <2>2. out' \subseteq 0..issued /\ \A s \in DOMAIN sess' : sess[s].fam \notin out'
    BY <1>1
  <2>3. QED
    BY <1>2, <2>1, <2>2, FewerSessions
<1>4. QED
  BY <1>2, <1>3 DEF IInv

LEMMA IdleFacts ==
    ASSUME IInv
    PROVE  Idle \in Request /\ RequestOK(Idle) /\ Idle.pc = "idle" /\ Idle.fam = 0
<1>1. /\ Idle \in Request /\ Idle.pc = "idle" /\ Idle.fam = 0
  BY DEF Idle, Request, Free, Changes
<1>2. QED
  BY <1>1 DEF RequestOK, LoggingIn, Locked, Reading, IInv, Sessions

\* A request that holds neither a lock nor a slot, nor takes one.
LEMMA FreeHolds ==
    ASSUME IInv, NEW p \in Procs, proc[p].pc \in Free, NEW c \in Request, c.pc \in Free, UNCHANGED <<mailLock, userLock, slots>>
    PROVE  Holds(p, c)
<1>1. c.pc \notin Locked /\ proc[p].pc \notin Locked /\ proc[p].pc \notin LoggingIn /\ proc[p].pc \notin Slotted
  BY DEF Free, Locked, LoggingIn, Slotted
<1>2. p \notin slots /\ \A u \in Users : mailLock[u] # p /\ userLock[u] # p
  BY <1>1 DEF IInv, Requests, LocksOK
<1>3. LocksTyped'
  BY DEF IInv, Requests, LocksTyped
<1>4. QED
  BY <1>1, <1>2, <1>3 DEF Holds

\* A step of such a request, which may take sessions with it.
LEMMA FreeStep ==
    ASSUME IInv, NEW p \in Procs, proc[p].pc \in Free, NEW c \in Request, c.pc \in Free, RequestOK(c),
           proc' = [proc EXCEPT ![p] = c], UNCHANGED <<mailLock, userLock, slots>>, issued' = issued, acct' = acct,
           Fewer, out' \subseteq 0..issued, \A s \in DOMAIN sess' : sess[s].fam \notin out'
    PROVE  IInv'
<1>1. Holds(p, c)
  BY FreeHolds
<1>2. issued' \in Nat /\ issued' >= issued
  BY DEF IInv, Sessions
<1>3. proc[p].pc # "revoke"
  BY DEF Free
<1>4. Requests' /\ \A u \in Users : Revoking(u) => Revoking(u)'
  BY <1>1, <1>2, <1>3, OneMoves, Zenon
<1>5. Sessions' /\ NoStaleSession'
  BY <1>4, FewerSessions
<1>6. QED
  BY <1>4, <1>5 DEF IInv

\* The same when nobody is signed out.
LEMMA FreeStepOn ==
    ASSUME IInv, NEW p \in Procs, proc[p].pc \in Free, NEW c \in Request, c.pc \in Free, RequestOK(c),
           proc' = [proc EXCEPT ![p] = c], UNCHANGED <<mailLock, userLock, slots>>, issued' = issued, acct' = acct,
           Fewer, out' = out
    PROVE  IInv'
<1>1. out' \subseteq 0..issued /\ \A s \in DOMAIN sess' : sess[s].fam \notin out'
  BY DEF IInv, Sessions, NoStaleSession, Fewer
<1>2. QED
  BY <1>1, FreeStep, Zenon

LEMMA LeaveHolds ==
    ASSUME IInv, NEW p \in Procs, Leave(p)
    PROVE  Holds(p, Idle) /\ proc' = [proc EXCEPT ![p] = Idle]
<1>1. /\ \A u \in Users : mailLock'[u] # p /\ userLock'[u] # p
      /\ \A u \in Users, r \in Procs : r # p => /\ userLock'[u] = r <=> userLock[u] = r
                                                /\ mailLock'[u] = r => mailLock[u] = r
  BY AuthAssumption DEF Leave, Unlocked
<1>2. LocksTyped'
  BY DEF IInv, Requests, LocksTyped, Leave, Unlocked
<1>3. Idle.pc \notin Locked
  BY DEF Idle, Locked
<1>4. QED
  BY <1>1, <1>2, <1>3 DEF Holds, Leave

LEMMA LeaveStep ==
    ASSUME IInv, NEW p \in Procs, Leave(p), proc[p].pc # "revoke", UNCHANGED <<sess, issued, out, acct>>
    PROVE  IInv'
BY LeaveHolds, IdleFacts, QuietStep

-----------------------------------------------------------------------------
(* Login *)

\* What the invariant says of one request.
LEMMA Mine ==
    ASSUME IInv, NEW p \in Procs
    PROVE  /\ proc[p] \in Request /\ RequestOK(proc[p])
           /\ \A u \in Users : userLock[u] = p <=> proc[p].pc \in Locked /\ proc[p].target = u
           /\ \A u \in Users : mailLock[u] = p => proc[p].pc \in LoggingIn \ {"mail"} /\ proc[p].target = u
           /\ p \in slots => proc[p].pc \in Slotted
BY DEF IInv, Requests, LocksOK

\* An email lock that p holds is that of the target of c, which may hold one.
MailFits(p, c) == \A w \in Users : mailLock[w] = p => c.pc \in LoggingIn \ {"mail"} /\ w = c.target

\* Request p, without an account lock, takes that of its target.
LEMMA TakesUser ==
    ASSUME IInv, NEW p \in Procs, proc[p].pc \notin Locked, NEW u \in Users, userLock[u] = None,
           NEW c \in Request, c.pc \in Locked, c.target = u,
           userLock' = [userLock EXCEPT ![u] = p], mailLock' = mailLock,
           slots' \subseteq slots \cup {p},
           p \in slots' => c.pc \in Slotted, MailFits(p, c)
    PROVE  Holds(p, c)
<1>1. userLock \in [Users -> Procs \cup {None}] /\ mailLock \in [Users -> Procs \cup {None}] /\ slots \subseteq Procs
  BY DEF IInv, Requests, LocksTyped
<1>2. LocksTyped'
  BY <1>1 DEF LocksTyped
<1>3. \A w \in Users : userLock'[w] = p <=> w = u
  BY <1>1, Mine
<1>4. \A w \in Users, r \in Procs : r # p => (userLock'[w] = r <=> userLock[w] = r)
  BY <1>1, AuthAssumption
<1>5. QED
  BY <1>2, <1>3, <1>4 DEF Holds, MailFits

\* A request that starts a login at step pc.
LEMMA Starting ==
    ASSUME IInv, NEW p \in Procs, NEW u \in Users, NEW pc \in {"mail", "assert"}
    PROVE  LET c == [Idle EXCEPT !.pc = pc, !.target = u]
           IN c \in Request /\ RequestOK(c) /\ c.pc = pc /\ c.target = u
<1> DEFINE c == [Idle EXCEPT !.pc = pc, !.target = u]
<1>1. /\ c \in Request /\ c.pc = pc /\ c.target = u /\ c.fam = 0
  BY Zenon DEF Idle, Request, LoggingIn, Changes
<1> HIDE DEF c
<1>2. RequestOK(c)
  BY <1>1 DEF RequestOK, LoggingIn, Locked, Reading, IInv, Sessions
<1>3. QED
  BY <1>1, <1>2 DEF c

LEMMA LoginBeginsKeeps ==
    ASSUME IInv, NEW p \in Procs, NEW u \in Users, LoginBegins(p, u)
    PROVE  IInv'
<1> DEFINE c == [Idle EXCEPT !.pc = "mail", !.target = u]
<1>1. c \in Request /\ RequestOK(c) /\ c.pc = "mail"
  BY Starting, Zenon
<1>2. /\ proc[p].pc = "idle" /\ SlotFree /\ slots' = slots \cup {p} /\ UNCHANGED <<mailLock, userLock>>
      /\ proc' = [proc EXCEPT ![p] = c] /\ UNCHANGED <<sess, issued, out, acct>>
  BY DEF LoginBegins
<1> HIDE DEF c
<1>3. LocksTyped'
  BY <1>2 DEF IInv, Requests, LocksTyped
<1>4. Holds(p, c)
  BY <1>1, <1>2, <1>3, Mine DEF Holds, Locked, LoggingIn, Slotted
<1>5. QED
  BY <1>1, <1>2, <1>4, QuietStep, Zenon

LEMMA PasskeyLoginKeeps ==
    ASSUME IInv, NEW p \in Procs, NEW u \in Users, PasskeyLogin(p, u)
    PROVE  IInv'
<1> DEFINE c == [Idle EXCEPT !.pc = "assert", !.target = u]
<1>1. c \in Request /\ RequestOK(c) /\ c.pc = "assert" /\ c.target = u
  BY Starting, Zenon
<1>2. /\ proc[p].pc = "idle" /\ userLock[u] = None /\ userLock' = [userLock EXCEPT ![u] = p] /\ UNCHANGED <<mailLock, slots>>
      /\ proc' = [proc EXCEPT ![p] = c] /\ UNCHANGED <<sess, issued, out, acct>>
  BY DEF PasskeyLogin, LockFree
<1> HIDE DEF c
<1>3. Holds(p, c)
  <2>1. proc[p].pc \notin Locked /\ p \notin slots' /\ MailFits(p, c)
    BY <1>2, Mine DEF Locked, LoggingIn, Slotted, MailFits
  <2>2. slots' \subseteq slots \cup {p} /\ c.pc \in Locked
    BY <1>1, <1>2 DEF IInv, Requests, LocksTyped, Locked
  <2>3. QED
    BY <1>1, <1>2, <2>1, <2>2, TakesUser, Zenon
<1>4. QED
  BY <1>1, <1>2, <1>3, QuietStep, Zenon

\* A login that has a target stays with it, whatever its next step.
LEMMA LoginGoesOn ==
    ASSUME IInv, NEW p \in Procs, proc[p].pc \in LoggingIn, NEW c \in Request, c.pc \in LoggingIn,
           c.target = proc[p].target, c.fam = proc[p].fam,
           c.pc \in Reading => c.rev = acct[c.target].rev
    PROVE  RequestOK(c) /\ proc[p].target \in Users
BY Mine DEF RequestOK, LoggingIn, Locked

LEMMA LoginLocksMailKeeps ==
    ASSUME IInv, NEW p \in Procs, LoginLocksMail(p)
    PROVE  IInv'
<1> DEFINE u == proc[p].target
           c == [proc[p] EXCEPT !.pc = "lookup"]
<1>1. /\ proc[p] \in Request /\ proc[p].pc = "mail" /\ UNCHANGED userLock /\ UNCHANGED <<sess, issued, out, acct>>
      /\ \A w \in Users : mailLock[w] # p /\ userLock[w] # p
  BY Mine DEF LoginLocksMail, Locked
<1>2. CASE mailLock[u] = None
  <2>1. mailLock' = [mailLock EXCEPT ![u] = p] /\ slots' = slots /\ proc' = [proc EXCEPT ![p] = c]
    BY <1>2 DEF LoginLocksMail, Goto
  <2>2. c \in Request /\ c.pc = "lookup" /\ c.target = u /\ c.fam = proc[p].fam
    BY <1>1 DEF Request, LoggingIn
  <2> HIDE DEF c
  <2>3. RequestOK(c) /\ u \in Users
    BY <1>1, <2>2, LoginGoesOn DEF LoggingIn, Reading
  <2>4. LocksTyped'
    BY <1>1, <2>1, Zenon DEF IInv, Requests, LocksTyped
  <2>5. Holds(p, c)
    BY <1>1, <2>1, <2>2, <2>3, <2>4 DEF Holds, Locked, LoggingIn, Slotted, IInv, Requests, LocksTyped
  <2>6. QED
    BY <1>1, <2>1, <2>2, <2>3, <2>5, QuietStep, Zenon
<1>3. CASE mailLock[u] # None
  <2>1. mailLock' = mailLock /\ slots' = slots \ {p} /\ proc' = [proc EXCEPT ![p] = Idle]
    BY <1>3 DEF LoginLocksMail, SlotReturned
  <2>2. LocksTyped'
    BY <1>1, <2>1 DEF IInv, Requests, LocksTyped
  <2>3. Holds(p, Idle)
    BY <1>1, <2>1, <2>2, IdleFacts DEF Holds, Locked
  <2>4. QED
    BY <1>1, <2>1, <2>3, IdleFacts, QuietStep, Zenon
<1>4. QED
  BY <1>2, <1>3

LEMMA LoginLocksUserKeeps ==
    ASSUME IInv, NEW p \in Procs, LoginLocksUser(p)
    PROVE  IInv'
<1> DEFINE u == proc[p].target
           c == [proc[p] EXCEPT !.pc = "verify"]
<1>1. proc[p] \in Request /\ proc[p].pc = "lookup" /\ UNCHANGED <<sess, issued, out, acct>>
  BY Mine DEF LoginLocksUser
<1>2. CASE LockFree(u)
  <2>1. /\ userLock[u] = None /\ userLock' = [userLock EXCEPT ![u] = p] /\ UNCHANGED <<mailLock, slots>>
        /\ proc' = [proc EXCEPT ![p] = c]
    BY <1>2 DEF LoginLocksUser, LockFree, Goto
  <2>2. c \in Request /\ c.pc = "verify" /\ c.target = u /\ c.fam = proc[p].fam
    BY <1>1 DEF Request, LoggingIn
  <2> HIDE DEF c
  <2>3. RequestOK(c) /\ u \in Users
    BY <1>1, <2>2, LoginGoesOn DEF LoggingIn, Reading
  <2>4. /\ proc[p].pc \notin Locked /\ c.pc \in Locked /\ c.pc \in Slotted /\ c.pc \in LoggingIn \ {"mail"}
        /\ slots' \subseteq slots \cup {p}
        /\ MailFits(p, c) /\ (p \in slots' => c.pc \in Slotted)
        /\ userLock[u] = None /\ userLock' = [userLock EXCEPT ![u] = p] /\ mailLock' = mailLock
    BY <1>1, <2>1, <2>2, Mine DEF Locked, Slotted, LoggingIn, IInv, Requests, LocksTyped, MailFits
  <2>5. Holds(p, c)
    BY <2>2, <2>3, <2>4, TakesUser, Zenon
  <2>6. QED
    BY <1>1, <2>1, <2>2, <2>3, <2>5, QuietStep, Zenon
<1>3. CASE ~LockFree(u)
  BY <1>1, <1>3, LeaveStep DEF LoginLocksUser
<1>4. QED
  BY <1>2, <1>3

\* A login that keeps its locks, and perhaps its slot.
LEMMA LoginKeepsLocks ==
    ASSUME IInv, NEW p \in Procs, proc[p].pc \in LoggingIn \cap Locked, NEW c \in Request, c.pc \in LoggingIn \cap Locked,
           c.target = proc[p].target, c.fam = proc[p].fam, c.rev = acct[c.target].rev,
           proc' = [proc EXCEPT ![p] = c], UNCHANGED <<sess, issued, out, acct>>, UNCHANGED <<mailLock, userLock>>,
           (slots' = slots /\ (proc[p].pc \in Slotted => c.pc \in Slotted)) \/ slots' = slots \ {p}
    PROVE  IInv'
<1>1. RequestOK(c)
  BY LoginGoesOn
<1>2. LocksTyped'
  BY DEF IInv, Requests, LocksTyped
<1>3. proc[p].pc # "revoke" /\ c.pc # "mail"
  BY DEF LoggingIn, Locked
<1>4. Holds(p, c)
  BY <1>2, <1>3, Mine DEF Holds
<1>5. QED
  BY <1>1, <1>3, <1>4, QuietStep, Zenon

LEMMA PasskeyAssertsKeeps ==
    ASSUME IInv, NEW p \in Procs, PasskeyAsserts(p)
    PROVE  IInv'
<1> DEFINE u == proc[p].target
           c == [proc[p] EXCEPT !.pc = "acquire", !.rev = acct[u].rev]
<1>1. proc[p] \in Request /\ proc[p].pc = "assert" /\ UNCHANGED <<sess, issued, out, acct>>
  BY Mine DEF PasskeyAsserts
<1>2. CASE Leave(p)
  BY <1>1, <1>2, LeaveStep
<1>3. CASE proc' = [proc EXCEPT ![p].pc = "acquire", ![p].rev = acct[u].rev] /\ UNCHANGED <<mailLock, userLock, slots>>
  <2>1. u \in Users /\ acct[u].rev \in Nat
    BY <1>1, Mine, ZenonT(60) DEF RequestOK, LoggingIn, IInv, Requests, Account
  <2>2. c \in Request /\ c.pc = "acquire" /\ c.target = u /\ c.fam = proc[p].fam /\ c.rev = acct[u].rev
    BY <1>1, <2>1, Zenon DEF Request, LoggingIn
  <2>3. proc' = [proc EXCEPT ![p] = c]
    BY <1>3, Zenon DEF IInv, Requests
  <2> HIDE DEF c
  <2>4. /\ proc[p].pc \in LoggingIn \cap Locked /\ c.pc \in LoggingIn \cap Locked /\ proc[p].pc \notin Slotted
        /\ c.rev = acct[c.target].rev /\ c.target = proc[p].target /\ UNCHANGED <<mailLock, userLock>> /\ slots' = slots
    BY <1>1, <1>3, <2>2 DEF LoggingIn, Locked, Slotted
  <2>5. QED
    BY <1>1, <2>2, <2>3, <2>4, LoginKeepsLocks, Zenon
<1>4. QED
  BY <1>2, <1>3 DEF PasskeyAsserts

LEMMA LoginReadsKeeps ==
    ASSUME IInv, NEW p \in Procs, LoginReads(p)
    PROVE  IInv'
<1> DEFINE u == proc[p].target
           c == [proc[p] EXCEPT !.pc = "unwrap", !.pw = acct[u].pw, !.rev = acct[u].rev]
<1>1. proc[p] \in Request /\ proc[p].pc = "verify" /\ UNCHANGED <<sess, issued, out, acct>>
  BY Mine DEF LoginReads
<1>2. CASE Leave(p)
  BY <1>1, <1>2, LeaveStep
<1>3. CASE /\ proc' = [proc EXCEPT ![p].pc = "unwrap", ![p].pw = acct[u].pw, ![p].rev = acct[u].rev]
           /\ UNCHANGED <<mailLock, userLock, slots>>
  <2>1. u \in Users /\ acct[u].rev \in Nat /\ acct[u].pw \in Nat
    BY <1>1, Mine, SMTT(60) DEF RequestOK, LoggingIn, IInv, Requests, Account
  <2>2. c \in Request /\ c.pc = "unwrap" /\ c.target = u /\ c.fam = proc[p].fam /\ c.rev = acct[u].rev
    BY <1>1, <2>1, Zenon DEF Request, LoggingIn
  <2>3. proc' = [proc EXCEPT ![p] = c]
    BY <1>3, Zenon DEF IInv, Requests
  <2> HIDE DEF c
  <2>4. /\ proc[p].pc \in LoggingIn \cap Locked /\ c.pc \in LoggingIn \cap Locked /\ c.pc \in Slotted
        /\ c.rev = acct[c.target].rev /\ c.target = proc[p].target /\ UNCHANGED <<mailLock, userLock>> /\ slots' = slots
    BY <1>1, <1>3, <2>2 DEF LoggingIn, Locked, Slotted
  <2>5. QED
    BY <1>1, <2>2, <2>3, <2>4, LoginKeepsLocks, Zenon
<1>4. QED
  BY <1>2, <1>3 DEF LoginReads

LEMMA LoginUnwrapsKeeps ==
    ASSUME IInv, NEW p \in Procs, LoginUnwraps(p)
    PROVE  IInv'
<1> DEFINE c == [proc[p] EXCEPT !.pc = "acquire", !.pw = 0]
<1>1. proc[p] \in Request /\ proc[p].pc = "unwrap" /\ UNCHANGED <<sess, issued, out, acct>>
  BY Mine DEF LoginUnwraps
<1>2. CASE Leave(p)
  BY <1>1, <1>2, LeaveStep
<1>3. CASE /\ proc' = [proc EXCEPT ![p].pc = "acquire", ![p].pw = 0]
           /\ slots' = slots \ {p} /\ UNCHANGED <<mailLock, userLock>>
  <2>1. c \in Request /\ c.pc = "acquire" /\ c.target = proc[p].target /\ c.fam = proc[p].fam /\ c.rev = proc[p].rev
    BY <1>1, Zenon DEF Request, LoggingIn
  <2>2. proc' = [proc EXCEPT ![p] = c]
    BY <1>3, Zenon DEF IInv, Requests
  <2> HIDE DEF c
  <2>3. c.rev = acct[c.target].rev
    BY <1>1, <2>1, Mine DEF RequestOK, Reading
  <2>4. proc[p].pc \in LoggingIn \cap Locked /\ c.pc \in LoggingIn \cap Locked
    BY <1>1, <2>1 DEF LoggingIn, Locked
  <2>5. QED
    BY <1>1, <1>3, <2>1, <2>2, <2>3, <2>4, LoginKeepsLocks, Zenon
<1>4. QED
  BY <1>2, <1>3 DEF LoginUnwraps

LEMMA OpenAcquiresKeeps ==
    ASSUME IInv, NEW p \in Procs, OpenAcquires(p)
    PROVE  IInv'
<1> DEFINE c == [proc[p] EXCEPT !.pc = "create"]
<1>1. proc[p] \in Request /\ proc[p].pc = "acquire" /\ UNCHANGED <<sess, issued, out, acct>>
  BY Mine DEF OpenAcquires
<1>2. CASE Leave(p)
  BY <1>1, <1>2, LeaveStep
<1>3. CASE Goto(p, "create") /\ UNCHANGED <<mailLock, userLock, slots>>
  <2>1. c \in Request /\ c.pc = "create" /\ c.target = proc[p].target /\ c.fam = proc[p].fam /\ c.rev = proc[p].rev
    BY <1>1 DEF Request, LoggingIn
  <2>2. proc' = [proc EXCEPT ![p] = c]
    BY <1>3 DEF Goto
  <2> HIDE DEF c
  <2>3. c.rev = acct[c.target].rev
    BY <1>1, <2>1, Mine DEF RequestOK, Reading
  <2>4. /\ proc[p].pc \in LoggingIn \cap Locked /\ c.pc \in LoggingIn \cap Locked /\ proc[p].pc \notin Slotted
    BY <1>1, <2>1 DEF LoggingIn, Locked, Slotted
  <2>5. QED
    BY <1>1, <1>3, <2>1, <2>2, <2>3, <2>4, LoginKeepsLocks, Zenon
<1>4. QED
  BY <1>2, <1>3 DEF OpenAcquires

\* The session is published under the account lock, with the revision read under it.
LEMMA OpenCreatesKeeps ==
    ASSUME IInv, NEW p \in Procs, OpenCreates(p)
    PROVE  IInv'
<1> DEFINE u == proc[p].target
           gone == Expired \cup Evicted(u, Expired)
           new == [user |-> u, fam |-> issued + 1, rev |-> proc[p].rev, recent |-> TRUE, expired |-> FALSE]
<1>1. /\ proc[p] \in Request /\ proc[p].pc = "create" /\ u \in Users /\ proc[p].rev = acct[u].rev
      /\ issued \in Nat /\ proc[p].rev \in Nat
  BY Mine DEF OpenCreates, RequestOK, Reading, LoggingIn, Request, IInv, Sessions
<1>2. Leave(p) /\ UNCHANGED <<out, acct>> /\ createSession(p, u)
  BY DEF OpenCreates
<1>3. CASE up # "serving" \/ ~RootValid(u)
  <2>1. UNCHANGED <<sess, issued>>
    BY <1>2, <1>3 DEF createSession
  <2>2. QED
    BY <1>1, <1>2, <2>1, LeaveStep
<1>4. CASE ~(up # "serving" \/ ~RootValid(u))
  <2>1. /\ issued' = issued + 1
        /\ sess' = [s \in (DOMAIN sess \ gone) \cup {issued + 1} |-> IF s = issued + 1 THEN new ELSE sess[s]]
    BY <1>2, <1>4 DEF createSession
  <2>2. new \in Session /\ new.fam = issued + 1 /\ new.rev = acct[u].rev /\ new.user = u
    BY <1>1 DEF Session
  <2> HIDE DEF new, gone, u
  <2>3. new.fam \in 1..(issued + 1) /\ new.fam \notin out /\ \A s \in DOMAIN sess \ gone : sess[s].fam # new.fam
    BY <1>1, <2>2 DEF IInv, Sessions
  <2>4. issued' \in Nat /\ issued' >= issued
    BY <1>1, <2>1
  <2>5. Holds(p, Idle) /\ proc' = [proc EXCEPT ![p] = Idle] /\ Idle \in Request /\ RequestOK(Idle)
    BY <1>2, LeaveHolds, IdleFacts
  <2>6. Requests' /\ \A w \in Users : Revoking(w) => Revoking(w)'
    BY <1>1, <1>2, <2>4, <2>5, OneMoves, Zenon
  <2>7. new.rev = acct[new.user].rev /\ DOMAIN sess \ gone \in SUBSET DOMAIN sess /\ acct' = acct /\ out' = out
    BY <1>2, <2>2
  <2>8. Sessions' /\ NoStaleSession'
    BY <2>1, <2>2, <2>3, <2>6, <2>7, NewSession, Zenon
  <2>9. QED
    BY <2>6, <2>8 DEF IInv
<1>5. QED
  BY <1>3, <1>4

-----------------------------------------------------------------------------
(* Reauthentication *)

LEMMA ReauthBeginsKeeps ==
    ASSUME IInv, NEW p \in Procs, ReauthBegins(p)
    PROVE  IInv'
<1> DEFINE u == proc[p].user
           c == [proc[p] EXCEPT !.pc = "reauth", !.target = u, !.pw = acct[u].pw]
<1>1. /\ proc[p] \in Request /\ proc[p].pc = "handler" /\ u \in Users /\ UNCHANGED <<sess, issued, out, acct>>
      /\ acct[u].pw \in Nat /\ proc[p].fam <= issued
  BY Mine DEF ReauthBegins, RequestOK, IInv, Requests, Account
<1>2. CASE LockFree(u) /\ SlotFree
  <2>1. /\ userLock[u] = None /\ userLock' = [userLock EXCEPT ![u] = p] /\ mailLock' = mailLock /\ slots' = slots \cup {p}
        /\ proc' = [proc EXCEPT ![p].pc = "reauth", ![p].target = u, ![p].pw = acct[u].pw]
    BY <1>2 DEF ReauthBegins, LockFree
  <2>2. proc' = [proc EXCEPT ![p] = c]
    BY <2>1, Zenon DEF IInv, Requests
  <2>3. c \in Request /\ c.pc = "reauth" /\ c.target = u /\ c.fam = proc[p].fam
    BY <1>1, Zenon DEF Request, Locked
  <2> HIDE DEF c
  <2>4. RequestOK(c)
    BY <1>1, <2>3 DEF RequestOK, LoggingIn, Locked, Reading
  <2>5. /\ proc[p].pc \notin Locked /\ c.pc \in Locked /\ c.pc \in Slotted
        /\ slots' \subseteq slots \cup {p}
        /\ MailFits(p, c)
    BY <1>1, <1>2, <2>1, <2>3, Mine DEF Locked, Slotted, LoggingIn, MailFits
  <2>6. Holds(p, c)
    BY <1>1, <2>1, <2>3, <2>5, TakesUser, Zenon
  <2>7. QED
    BY <1>1, <2>2, <2>3, <2>4, <2>6, QuietStep, Zenon
<1>3. CASE ~(LockFree(u) /\ SlotFree)
  BY <1>1, <1>3, LeaveStep DEF ReauthBegins
<1>4. QED
  BY <1>2, <1>3

LEMMA PasskeyReauthKeeps ==
    ASSUME IInv, NEW p \in Procs, PasskeyReauth(p)
    PROVE  IInv'
<1> DEFINE c == [proc[p] EXCEPT !.pc = "rotate"]
<1>1. /\ proc[p] \in Request /\ proc[p].pc = "handler" /\ proc[p].fam <= issued /\ proc' = [proc EXCEPT ![p] = c]
      /\ UNCHANGED <<sess, issued, out, acct>> /\ UNCHANGED <<mailLock, userLock, slots>>
  BY Mine DEF PasskeyReauth, RequestOK, Goto, authVars
<1>2. c \in Request /\ c.pc = "rotate" /\ c.fam = proc[p].fam
  BY <1>1 DEF Request, Free
<1> HIDE DEF c
<1>3. RequestOK(c) /\ c.pc \in Free /\ proc[p].pc \in Free
  BY <1>1, <1>2 DEF RequestOK, LoggingIn, Locked, Reading, Free
<1>4. QED
  BY <1>1, <1>2, <1>3, SameFewer, FreeStepOn, Zenon

LEMMA ReauthEndsKeeps ==
    ASSUME IInv, NEW p \in Procs, ReauthEnds(p)
    PROVE  IInv'
<1> DEFINE c == [proc[p] EXCEPT !.pc = "rotate", !.pw = 0, !.target = None]
<1>1. /\ proc[p] \in Request /\ proc[p].pc = "reauth" /\ UNCHANGED <<sess, issued, out, acct>>
      /\ proc[p].fam <= issued /\ \A w \in Users : mailLock[w] # p
  BY Mine DEF ReauthEnds, RequestOK, LoggingIn
<1>2. CASE Leave(p)
  BY <1>1, <1>2, LeaveStep
<1>3. CASE /\ proc' = [proc EXCEPT ![p].pc = "rotate", ![p].pw = 0, ![p].target = None]
           /\ userLock' = Unlocked(userLock, p) /\ slots' = slots \ {p} /\ mailLock' = mailLock
  <2>1. c \in Request /\ c.pc = "rotate" /\ c.fam = proc[p].fam
    BY <1>1, Zenon DEF Request, Free
  <2>2. proc' = [proc EXCEPT ![p] = c]
    BY <1>3, Zenon DEF IInv, Requests
  <2> HIDE DEF c
  <2>3. RequestOK(c) /\ c.pc \notin Locked
    BY <1>1, <2>1 DEF RequestOK, LoggingIn, Locked, Reading
  <2>4. LocksTyped'
    BY <1>3 DEF IInv, Requests, LocksTyped, Unlocked
  <2>5. Holds(p, c)
    BY <1>1, <1>3, <2>3, <2>4, AuthAssumption DEF Holds, Unlocked
  <2>6. QED
    BY <1>1, <2>1, <2>2, <2>3, <2>5, QuietStep, Zenon
<1>4. QED
  BY <1>2, <1>3 DEF ReauthEnds

-----------------------------------------------------------------------------
(* Changes that end sessions *)

LEMMA StartChangeKeeps ==
    ASSUME IInv, NEW p \in Procs, NEW op \in Own \cup Admin \cup {"logoutAll"}, NEW t \in Users, StartChange(p, op, t)
    PROVE  IInv'
<1> DEFINE c == IF op = "logoutAll" THEN [proc[p] EXCEPT !.pc = "recent", !.op = op]
                ELSE [proc[p] EXCEPT !.pc = "recent", !.op = op, !.target = t, !.lease = FALSE]
<1>1. /\ proc[p] \in Request /\ proc[p].pc = "handler" /\ proc[p].fam <= issued
      /\ UNCHANGED <<sess, issued, out, acct>> /\ UNCHANGED <<mailLock, userLock, slots>>
  BY Mine DEF StartChange, RequestOK, authVars
<1>2. /\ c \in Request /\ c.pc = "recent" /\ c.op = op /\ c.fam = proc[p].fam
      /\ op # "logoutAll" => c.target = t
  BY <1>1, ZenonT(60) DEF Request, Free, Changes
<1>3. proc' = [proc EXCEPT ![p] = c]
  <2>1. CASE op = "logoutAll"
    BY <2>1, Zenon DEF StartChange, IInv, Requests
  <2>2. CASE op # "logoutAll"
    <3>1. proc' = [proc EXCEPT ![p] = [[proc[p] EXCEPT !.pc = "recent", !.op = op, !.target = t] EXCEPT !.lease = FALSE]]
      BY <2>2 DEF StartChange, ReleaseRequestVaultLease
    <3>2. QED
      BY <1>1, <2>2, <3>1
  <2>3. QED
    BY <2>1, <2>2
<1> HIDE DEF c
<1>4. RequestOK(c) /\ c.pc \in Free /\ proc[p].pc \in Free
  BY <1>1, <1>2 DEF RequestOK, LoggingIn, Locked, Reading, Free, Changes, Own, Admin
<1>5. QED
  BY <1>1, <1>2, <1>3, <1>4, SameFewer, FreeStepOn, Zenon

LEMMA CompletePasswordResetKeeps ==
    ASSUME IInv, NEW p \in Procs, NEW u \in Users, CompletePasswordReset(p, u)
    PROVE  IInv'
<1> DEFINE c == [Idle EXCEPT !.pc = "change", !.op = "reset", !.target = u]
<1>1. /\ proc[p].pc = "idle" /\ proc' = [proc EXCEPT ![p] = c]
      /\ UNCHANGED <<sess, issued, out, acct>> /\ UNCHANGED <<mailLock, userLock, slots>>
  BY DEF CompletePasswordReset, authVars
<1>2. c \in Request /\ c.pc = "change" /\ c.op = "reset" /\ c.target = u /\ c.fam = 0
  BY Zenon DEF Idle, Request, Free, Changes
<1> HIDE DEF c
<1>3. RequestOK(c) /\ c.pc \in Free /\ proc[p].pc \in Free
  BY <1>1, <1>2 DEF RequestOK, LoggingIn, Locked, Reading, Free, Changes, IInv, Sessions
<1>4. QED
  BY <1>1, <1>2, <1>3, SameFewer, FreeStepOn, Zenon

LEMMA ChangeLocksKeeps ==
    ASSUME IInv, NEW p \in Procs, ChangeLocks(p)
    PROVE  IInv'
<1> DEFINE u == proc[p].target
           c == [proc[p] EXCEPT !.pc = "locked"]
<1>1. /\ proc[p] \in Request /\ proc[p].pc = "change" /\ proc[p].op \in Changes /\ u \in Users /\ proc[p].fam <= issued
      /\ UNCHANGED <<sess, issued, out, acct>> /\ UNCHANGED <<mailLock, slots>>
  BY Mine DEF ChangeLocks, RequestOK
<1>2. CASE LockFree(u)
  <2>1. userLock[u] = None /\ userLock' = [userLock EXCEPT ![u] = p] /\ proc' = [proc EXCEPT ![p] = c]
    BY <1>2 DEF ChangeLocks, LockFree, Goto
  <2>2. c \in Request /\ c.pc = "locked" /\ c.target = u /\ c.fam = proc[p].fam /\ c.op = proc[p].op
    BY <1>1 DEF Request, Locked
  <2> HIDE DEF c
  <2>3. RequestOK(c)
    BY <1>1, <2>2 DEF RequestOK, LoggingIn, Locked, Reading
  <2>4. /\ proc[p].pc \notin Locked /\ c.pc \in Locked /\ p \notin slots
        /\ slots' \subseteq slots \cup {p}
        /\ MailFits(p, c) /\ p \notin slots'
    BY <1>1, <2>1, <2>2, Mine DEF Locked, Slotted, LoggingIn, IInv, Requests, LocksTyped, MailFits
  <2>5. Holds(p, c)
    BY <1>1, <2>1, <2>2, <2>4, TakesUser, Zenon
  <2>6. QED
    BY <1>1, <2>1, <2>2, <2>3, <2>5, QuietStep, Zenon
<1>3. CASE ~LockFree(u)
  <2>1. proc' = [proc EXCEPT ![p] = Idle] /\ userLock' = userLock
    BY <1>3 DEF ChangeLocks
  <2>2. proc[p].pc \in Free /\ Idle.pc \in Free
    BY <1>1, IdleFacts DEF Free
  <2>3. QED
    BY <1>1, <2>1, <2>2, IdleFacts, SameFewer, FreeStepOn, Zenon
<1>4. QED
  BY <1>2, <1>3

\* What the changes do to a row: only enabling an account leaves its revision.
LEMMA ChangedRow ==
    ASSUME NEW a \in Account, NEW op \in Changes
    PROVE  /\ Changed(a, op) \in Account
           /\ Changed(a, op).rev = IF op = "enable" THEN a.rev ELSE a.rev + 1
<1> DEFINE n == a.pw + 1
           m == a.rev + 1
<1>0. n \in Nat /\ m \in Nat
  BY DEF Account
<1> SUFFICES /\ Changed(a, op) \in Account
             /\ Changed(a, op).rev = IF op = "enable" THEN a.rev ELSE m
  OBVIOUS
<1>1. CASE op = "password"
  <2>1. Changed(a, op) = [a EXCEPT !.pw = n, !.rev = m]
    BY <1>1, Zenon DEF Changed, ReplacePassword
  <2> HIDE DEF n, m
  <2>2. QED
    BY <1>0, <1>1, <2>1, Zenon DEF Account
<1>2. CASE op = "reset"
  <2>1. Changed(a, op) = [a EXCEPT !.pw = n, !.rev = m]
    BY <1>2, Zenon DEF Changed, ResetPassword
  <2> HIDE DEF n, m
  <2>2. QED
    BY <1>0, <1>2, <2>1, Zenon DEF Account
<1>3. CASE op = "recovery"
  BY <1>0, <1>3 DEF Changed, Account, RotateRecovery
<1>4. CASE op = "passkeys"
  BY <1>0, <1>4 DEF Changed, Account, DeletePasskeys
<1>5. CASE op = "disable"
  <2>1. Changed(a, op) = [a EXCEPT !.active = FALSE, !.rev = m]
    BY <1>5, Zenon DEF Changed, DisableUser
  <2> HIDE DEF n, m
  <2>2. QED
    BY <1>0, <1>5, <2>1, Zenon DEF Account
<1>6. CASE op = "role"
  BY <1>0, <1>6 DEF Changed, Account, SetUserRole
<1>7. CASE op = "enable"
  BY <1>7, Zenon DEF Changed, Account, EnableUser
<1>8. QED
  BY <1>1, <1>2, <1>3, <1>4, <1>5, <1>6, <1>7 DEF Changes, Own, Admin

\* The request that holds an account's lock changes its row; when that makes the sessions
\* stale, it is the one that removes them.
LEMMA AccountChanges ==
    ASSUME IInv, NEW p \in Procs, proc[p].pc = "locked", NEW u \in Users, u = proc[p].target,
           NEW a \in Account, acct' = [acct EXCEPT ![u] = a],
           NEW c \in Request, proc' = [proc EXCEPT ![p] = c], Holds(p, c), RequestOK(c), c.pc \notin Reading,
           UNCHANGED <<sess, issued, out>>, a.rev = acct[u].rev \/ (c.pc = "revoke" /\ c.target = u)
    PROVE  IInv'
<1>1. /\ proc \in [Procs -> Request] /\ acct \in [Users -> Account] /\ issued \in Nat
      /\ proc' \in [Procs -> Request] /\ proc'[p] = c /\ \A r \in Procs : r # p => proc'[r] = proc[r]
      /\ acct' \in [Users -> Account] /\ acct'[u] = a /\ \A w \in Users : w # u => acct'[w] = acct[w]
  BY DEF IInv, Requests, Sessions
<1>2. userLock[u] = p
  BY Mine DEF Locked
<1>3. ASSUME NEW r \in Procs
      PROVE  RequestOK(proc[r])'
  <2>1. CASE r = p
    BY <1>1, <2>1 DEF RequestOK
  <2>2. CASE r # p
    <3>1. RequestOK(proc[r]) /\ proc'[r] = proc[r]
      BY <1>1, <2>2, Mine, Zenon
    <3>2. proc[r].pc \in Reading => proc[r].target \in Users /\ proc[r].target # u
      <4>1. proc[r].pc \in Reading => proc[r].pc \in Locked
        BY DEF Reading, Locked
      <4>2. proc[r].pc \in Locked => proc[r].target \in Users
        BY <3>1 DEF RequestOK
      <4>3. proc[r].pc \in Locked /\ proc[r].target = u => userLock[u] = r
        BY Mine, Zenon
      <4>4. QED
        BY <1>2, <2>2, <4>1, <4>2, <4>3, Zenon
    <3>3. proc[r].pc \in Reading => acct'[proc[r].target] = acct[proc[r].target]
      BY <1>1, <3>2
    <3>4. QED
      BY <3>1, <3>3 DEF RequestOK
  <2>3. QED
    BY <2>1, <2>2, Zenon
<1>4. LocksOK' /\ LocksTyped' /\ \A w \in Users : Revoking(w) => Revoking(w)'
  <2>1. LocksTyped'
    BY DEF Holds
  <2>2. proc[p].pc # "revoke"
    OBVIOUS
  <2>3. QED
    BY <2>1, <2>2, LocksMove, Zenon
<1>5. a.rev # acct[u].rev => Revoking(u)'
  <2>1. a.rev # acct[u].rev => userLock'[u] = p /\ proc'[p].pc = "revoke"
    BY <1>1 DEF Holds, Locked
  <2>2. QED
    BY <2>1, AuthAssumption DEF Revoking
<1>6. ASSUME NEW s \in DOMAIN sess
      PROVE  /\ sess[s].rev = acct'[sess[s].user].rev \/ Revoking(sess[s].user)'
             /\ sess[s].fam \notin out
  <2>1. PICK w \in Users : w = sess[s].user
    BY DEF IInv, Sessions, Session
  <2>2. (sess[s].rev = acct[w].rev \/ Revoking(w)) /\ sess[s].fam \notin out
    BY <2>1 DEF IInv, NoStaleSession, Revoking
  <2>3. sess[s].rev = acct'[w].rev \/ Revoking(w)'
    BY <1>1, <1>4, <1>5, <2>2
  <2>4. Revoking(w)' <=> Revoking(sess[s].user)'
    BY <2>1 DEF Revoking
  <2>5. QED
    BY <2>1, <2>2, <2>3, <2>4
<1>7. NoStaleSession' /\ Sessions'
  BY <1>6 DEF NoStaleSession, Revoking, IInv, Sessions
<1>8. QED
  BY <1>1, <1>3, <1>4, <1>7 DEF IInv, Requests

LEMMA ChangeCommitsKeeps ==
    ASSUME IInv, NEW p \in Procs, ChangeCommits(p)
    PROVE  IInv'
<1> DEFINE u == proc[p].target
           op == proc[p].op
           a == Changed(acct[u], op)
           n == acct[u].rev + 1
           c == [proc[p] EXCEPT !.pc = "revoke", !.op = "none", !.rev = n]
<1>1. /\ proc[p] \in Request /\ proc[p].pc = "locked" /\ op \in Changes /\ u \in Users /\ proc[p].fam <= issued
      /\ acct[u] \in Account /\ UNCHANGED <<sess, issued, out>>
  BY Mine, ZenonT(60) DEF ChangeCommits, RequestOK, Locked, IInv, Requests
<1>2. CASE Leave(p) /\ UNCHANGED acct
  BY <1>1, <1>2, LeaveStep
<1>3. a \in Account /\ a.rev = IF op = "enable" THEN acct[u].rev ELSE acct[u].rev + 1
  BY <1>1, ChangedRow
<1>4. CASE acct' = [acct EXCEPT ![u] = a] /\ op = "enable" /\ Leave(p)
  <2>1. Idle.pc \notin Reading
    BY IdleFacts DEF Reading
  <2> HIDE DEF a
  <2>2. QED
    BY <1>1, <1>3, <1>4, <2>1, LeaveHolds, IdleFacts, AccountChanges, Zenon
<1>5. CASE /\ acct' = [acct EXCEPT ![u] = a] /\ UNCHANGED <<mailLock, userLock, slots>>
           /\ proc' = [proc EXCEPT ![p].pc = "revoke", ![p].op = "none", ![p].rev = acct[u].rev + 1]
  <2>1. c \in Request /\ c.pc = "revoke" /\ c.target = u /\ c.fam = proc[p].fam
    <3>1. n \in Nat
      BY <1>1 DEF Account
    <3> HIDE DEF n
    <3>2. QED
      BY <1>1, <3>1, Zenon DEF Request, Locked
  <2>2. proc' = [proc EXCEPT ![p] = c]
    BY <1>5, Zenon DEF IInv, Requests
  <2> HIDE DEF c, a
  <2>3. RequestOK(c) /\ c.pc \notin Reading
    BY <1>1, <2>1 DEF RequestOK, LoggingIn, Locked, Reading
  <2>4. Holds(p, c)
    <3>1. p \notin slots /\ \A w \in Users : mailLock[w] # p /\ (userLock[w] = p <=> w = u)
      BY <1>1, Mine DEF Slotted, LoggingIn, Locked
    <3>2. LocksTyped'
      BY <1>5 DEF IInv, Requests, LocksTyped
    <3>3. QED
      BY <1>5, <2>1, <3>1, <3>2 DEF Holds, Locked
  <2>5. QED
    BY <1>1, <1>3, <1>5, <2>1, <2>2, <2>3, <2>4, AccountChanges, Zenon
<1>6. QED
  <2>1. \/ Leave(p) /\ UNCHANGED acct
        \/ acct' = [acct EXCEPT ![u] = a] /\ op = "enable" /\ Leave(p)
        \/ /\ acct' = [acct EXCEPT ![u] = a] /\ UNCHANGED <<mailLock, userLock, slots>>
           /\ proc' = [proc EXCEPT ![p].pc = "revoke", ![p].op = "none", ![p].rev = acct[u].rev + 1]
    BY DEF ChangeCommits
  <2>2. QED
    BY <1>2, <1>4, <1>5, <2>1

\* DeleteAllSessionsForUser leaves no stale session, so that the lock may go.
LEMMA ChangeRevokesKeeps ==
    ASSUME IInv, NEW p \in Procs, ChangeRevokes(p)
    PROVE  IInv'
<1> DEFINE u == proc[p].target
           c == [proc[p] EXCEPT !.pc = "drain"]
<1>1. /\ proc[p] \in Request /\ proc[p].pc = "revoke" /\ u \in Users /\ proc[p].fam <= issued
      /\ proc' = [proc EXCEPT ![p] = c] /\ sess' = Without(Of(u))
      /\ UNCHANGED <<issued, out, acct>> /\ UNCHANGED <<mailLock, userLock, slots>>
  BY Mine DEF ChangeRevokes, RequestOK, Locked, Goto, authVars
<1>2. c \in Request /\ c.pc = "drain" /\ c.target = u /\ c.fam = proc[p].fam
  BY <1>1 DEF Request, Locked
<1> HIDE DEF c
<1>3. RequestOK(c)
  BY <1>1, <1>2 DEF RequestOK, LoggingIn, Locked, Reading
<1>4. p \notin slots /\ \A w \in Users : mailLock[w] # p /\ (userLock[w] = p <=> w = u)
  BY <1>1, Mine DEF Slotted, LoggingIn, Locked
<1>5. Holds(p, c)
  <2>1. LocksTyped'
    BY <1>1 DEF IInv, Requests, LocksTyped
  <2>2. QED
    BY <1>1, <1>2, <1>4, <2>1 DEF Holds, Locked
<1>6. issued \in Nat /\ issued' \in Nat /\ issued' >= issued
  BY <1>1 DEF IInv, Sessions
<1>7. Requests'
  BY <1>1, <1>2, <1>3, <1>5, <1>6, OneMoves, Zenon
<1>8. Fewer /\ DOMAIN sess' = DOMAIN sess \ Of(u)
  BY <1>1, WithoutFewer, Zenon
<1>9. out' \subseteq 0..issued /\ \A s \in DOMAIN sess' : sess[s].fam \notin out'
  BY <1>1, <1>8 DEF IInv, Sessions, NoStaleSession
<1>10. ASSUME NEW w \in Users, Revoking(w)
       PROVE  Revoking(w)' \/ \A s \in DOMAIN sess' : sess[s].user # w
  <2>1. CASE w = u
    BY <1>8, <2>1 DEF Of
  <2>2. CASE w # u
    <3>1. userLock[w] \in Procs /\ userLock[w] # p
      BY <1>4, <1>10, <2>2 DEF Revoking, IInv, Requests, LocksTyped
    <3>2. proc'[userLock[w]] = proc[userLock[w]] /\ userLock' = userLock
      BY <1>1, <3>1 DEF IInv, Requests
    <3>3. QED
      BY <1>10, <3>2 DEF Revoking
  <2>3. QED
    BY <2>1, <2>2
<1>11. Sessions' /\ NoStaleSession'
  BY <1>1, <1>8, <1>9, <1>10, FewerSessions
<1>12. QED
  BY <1>7, <1>11 DEF IInv

LEMMA ChangeDrainsKeeps ==
    ASSUME IInv, NEW p \in Procs, ChangeDrains(p)
    PROVE  IInv'
<1> DEFINE u == proc[p].target
           c == [proc[p] EXCEPT !.pc = "wait", !.gone = vault[u].st = "closed"]
<1>1. /\ proc[p] \in Request /\ proc[p].pc = "drain" /\ u \in Users /\ proc[p].fam <= issued
      /\ userLock' = Unlocked(userLock, p) /\ UNCHANGED <<mailLock, slots>> /\ UNCHANGED <<sess, issued, out, acct>>
  BY Mine DEF ChangeDrains, RequestOK, Locked
<1>2. proc' = [proc EXCEPT ![p] = c]
  BY Zenon DEF ChangeDrains, IInv, Requests
<1>3. c \in Request /\ c.pc = "wait" /\ c.target = u /\ c.fam = proc[p].fam
  BY <1>1, Zenon DEF Request, Free
<1> HIDE DEF c
<1>4. RequestOK(c) /\ c.pc \notin Locked
  BY <1>1, <1>3 DEF RequestOK, LoggingIn, Locked, Reading
<1>5. p \notin slots /\ \A w \in Users : mailLock[w] # p
  BY <1>1, Mine DEF Slotted, LoggingIn
<1>6. LocksTyped'
  BY <1>1 DEF IInv, Requests, LocksTyped, Unlocked
<1>7. Holds(p, c)
  BY <1>1, <1>4, <1>5, <1>6, AuthAssumption DEF Holds, Unlocked
<1>8. QED
  BY <1>1, <1>2, <1>3, <1>4, <1>7, QuietStep, Zenon

\* The change is answered, or its caller stops waiting.
LEMMA WaitEndsKeeps ==
    ASSUME IInv, NEW p \in Procs, ChangeAnswers(p) \/ ChangeCancelled(p)
    PROVE  IInv'
<1>1. /\ proc[p].pc = "wait" /\ proc' = [proc EXCEPT ![p] = Idle]
      /\ UNCHANGED <<sess, issued, out, acct>> /\ UNCHANGED <<mailLock, userLock, slots>>
  BY DEF ChangeAnswers, ChangeCancelled, authVars
<1>2. proc[p].pc \in Free /\ Idle.pc \in Free
  BY <1>1, IdleFacts DEF Free
<1>3. QED
  BY <1>1, <1>2, IdleFacts, SameFewer, FreeStepOn, Zenon

-----------------------------------------------------------------------------
(* Requests with a session *)

\* A request that ends and holds no lock; some sessions may go.
LEMMA FreeEnds ==
    ASSUME IInv, NEW p \in Procs, proc[p].pc \in Free, NEW gone, sess' = Without(gone) \/ sess' = sess,
           proc' = [proc EXCEPT ![p] = Idle], UNCHANGED <<issued, out, acct>>, UNCHANGED <<mailLock, userLock, slots>>
    PROVE  IInv'
<1>1. Fewer
  BY SameFewer, WithoutFewer, Zenon
<1>2. Idle.pc \in Free
  BY IdleFacts DEF Free
<1>3. QED
  BY <1>1, <1>2, IdleFacts, FreeStepOn, Zenon

\* No request takes a step, and no session appears.
LEMMA TableShrinks ==
    ASSUME IInv, Fewer, UNCHANGED <<issued, out, acct, proc>>, UNCHANGED <<mailLock, userLock, slots>>
    PROVE  IInv'
<1>1. Requests'
  <2>1. LocksTyped'
    BY DEF IInv, Requests, LocksTyped
  <2>2. LocksOK'
    BY DEF IInv, Requests, LocksOK
  <2>3. \A r \in Procs : RequestOK(proc[r])'
    BY DEF IInv, Requests, RequestOK
  <2>4. QED
    BY <2>1, <2>2, <2>3 DEF IInv, Requests
<1>2. out' \subseteq 0..issued /\ \A s \in DOMAIN sess' : sess[s].fam \notin out'
  BY DEF IInv, Sessions, NoStaleSession, Fewer
<1>3. \A u \in Users : Revoking(u) => Revoking(u)'
  BY DEF Revoking
<1>4. Sessions' /\ NoStaleSession'
  BY <1>2, <1>3, FewerSessions, Zenon
<1>5. QED
  BY <1>1, <1>4 DEF IInv

\* What a request that presents session s starts with.
LEMMA Presents ==
    ASSUME IInv, NEW p \in Procs, NEW s \in DOMAIN sess, NEW pc \in {"auth", "logout"}
    PROVE  LET c == Presenting(p, s, pc)
           IN c \in Request /\ c.pc = pc /\ c.user \in Users /\ c.fam <= issued /\ c.op = "none"
<1>1. /\ sess[s] \in Session /\ sess[s].fam <= issued /\ s \in Nat
  BY DEF IInv, Sessions
<1>2. QED
  BY <1>1, Zenon DEF Presenting, Idle, Request, Session, Free

LEMMA BorrowVaultSessionKeeps ==
    ASSUME IInv, NEW p \in Procs, NEW s \in DOMAIN sess, BorrowVaultSession(p, s), UNCHANGED authVars
    PROVE  IInv'
<1> DEFINE q == Presenting(p, s, "auth")
           c == [q EXCEPT !.lease = TRUE]
<1>1. /\ proc[p].pc = "idle" /\ UNCHANGED <<issued, out, acct>> /\ UNCHANGED <<mailLock, userLock, slots>>
      /\ \/ proc' = [proc EXCEPT ![p] = c] /\ sess' = sess
         \/ sess' = Without({s} \cap DOMAIN sess) /\ proc' = proc
  BY DEF BorrowVaultSession, DropDead, authVars
<1>2. CASE proc' = [proc EXCEPT ![p] = c] /\ sess' = sess
  <2>1. q \in Request /\ q.pc = "auth" /\ q.user \in Users /\ q.fam <= issued
    BY Presents
  <2> HIDE DEF q
  <2>2. c \in Request /\ c.pc = "auth" /\ c.user \in Users /\ c.fam <= issued
    BY <2>1, Zenon DEF Request
  <2> HIDE DEF c
  <2>3. RequestOK(c) /\ c.pc \in Free /\ proc[p].pc \in Free
    BY <1>1, <2>2 DEF RequestOK, LoggingIn, Locked, Reading, Free
  <2>4. QED
    BY <1>1, <1>2, <2>2, <2>3, SameFewer, FreeStepOn, Zenon
<1>3. CASE sess' = Without({s} \cap DOMAIN sess) /\ proc' = proc
  BY <1>1, <1>3, WithoutFewer, TableShrinks, Zenon
<1>4. QED
  BY <1>1, <1>2, <1>3

LEMMA GetSessionKeeps ==
    ASSUME IInv, NEW p \in Procs, NEW s \in DOMAIN sess, NEW op \in {"logout", "restore"},
           GetSession(p, s, op), UNCHANGED authVars
    PROVE  IInv'
<1> DEFINE q == Presenting(p, s, IF op = "restore" THEN "auth" ELSE op)
           c == [q EXCEPT !.op = op]
<1>1. /\ proc[p].pc = "idle" /\ UNCHANGED <<issued, out, acct>> /\ UNCHANGED <<mailLock, userLock, slots>>
      /\ \/ proc' = [proc EXCEPT ![p] = c] /\ sess' = sess
         \/ sess' = Without({s} \cap DOMAIN sess) /\ proc' = proc
  BY DEF GetSession, DropDead, authVars
<1>2. CASE proc' = [proc EXCEPT ![p] = c] /\ sess' = sess
  <2>1. q \in Request /\ q.pc \in {"auth", "logout"} /\ q.user \in Users /\ q.fam <= issued
    BY Presents
  <2> HIDE DEF q
  <2>2. c \in Request /\ c.pc \in {"auth", "logout"} /\ c.user \in Users /\ c.fam <= issued
    BY <2>1 DEF Request
  <2> HIDE DEF c
  <2>3. RequestOK(c) /\ c.pc \in Free /\ proc[p].pc \in Free
    BY <1>1, <2>2 DEF RequestOK, LoggingIn, Locked, Reading, Free
  <2>4. QED
    BY <1>1, <1>2, <2>2, <2>3, SameFewer, FreeStepOn, Zenon
<1>3. CASE sess' = Without({s} \cap DOMAIN sess) /\ proc' = proc
  BY <1>1, <1>3, WithoutFewer, TableShrinks, Zenon
<1>4. QED
  BY <1>1, <1>2, <1>3

LEMMA CurrentVaultUserKeeps ==
    ASSUME IInv, NEW p \in Procs, CurrentVaultUser(p), UNCHANGED authVars
    PROVE  IInv'
<1> DEFINE to == IF proc[p].op = "restore" THEN "recent" ELSE "handler"
           c == [proc[p] EXCEPT !.pc = to]
<1>1. /\ proc[p] \in Request /\ proc[p].pc = "auth" /\ proc[p].user \in Users /\ proc[p].fam <= issued
      /\ UNCHANGED <<issued, out, acct>> /\ UNCHANGED <<mailLock, userLock, slots>>
      /\ \/ proc' = [proc EXCEPT ![p] = c] /\ sess' = sess
         \/ sess' = Without(Of(proc[p].user)) /\ proc' = [proc EXCEPT ![p] = Idle]
  BY Mine DEF CurrentVaultUser, RequestOK, authVars
<1>2. CASE proc' = [proc EXCEPT ![p] = c] /\ sess' = sess
  <2>1. /\ c \in Request /\ c.pc = to /\ c.user = proc[p].user /\ c.fam = proc[p].fam /\ c.op = proc[p].op
    BY <1>1 DEF Request, Free
  <2> HIDE DEF c
  <2>2. RequestOK(c) /\ c.pc \in Free /\ proc[p].pc \in Free
    BY <1>1, <2>1 DEF RequestOK, LoggingIn, Locked, Reading, Free, Changes, Own, Admin
  <2>3. QED
    BY <1>1, <1>2, <2>1, <2>2, SameFewer, FreeStepOn, Zenon
<1>3. CASE sess' = Without(Of(proc[p].user)) /\ proc' = [proc EXCEPT ![p] = Idle]
  BY <1>1, <1>3, FreeEnds, Zenon DEF Free
<1>4. QED
  BY <1>1, <1>2, <1>3

LEMMA RecentAuthKeeps ==
    ASSUME IInv, NEW p \in Procs, RecentAuth(p), UNCHANGED authVars
    PROVE  IInv'
<1> DEFINE c == CASE proc[p].op = "restore"   -> [proc[p] EXCEPT !.pc = "restore"]
                  [] proc[p].op = "logoutAll" -> [proc[p] EXCEPT !.pc = "change"]
                  [] OTHER -> [Changing(proc[p], "change") EXCEPT !.rev = 0]
<1>1. /\ proc[p] \in Request /\ proc[p].pc = "recent" /\ proc[p].fam <= issued
      /\ proc[p].op \in Changes \cup {"restore", "logoutAll"} /\ (proc[p].op \in Changes => proc[p].target \in Users)
      /\ UNCHANGED <<issued, out, acct>> /\ UNCHANGED <<mailLock, userLock, slots>>
  BY Mine DEF RecentAuth, RequestOK, authVars
<1>2. \/ proc' = [proc EXCEPT ![p] = c] /\ sess' = sess
      \/ sess' = Without({proc[p].sid} \cap Expired) /\ proc' = [proc EXCEPT ![p] = Idle]
  BY DEF RecentAuth, IInv, Requests
<1>3. CASE proc' = [proc EXCEPT ![p] = c] /\ sess' = sess
  <2>1. /\ c \in Request /\ c.pc \in {"restore", "change"} /\ c.fam <= issued
        /\ c.pc = "change" => c.op = proc[p].op /\ c.op \in Changes \cup {"logoutAll"}
        /\ c.op \in Changes => c.target = proc[p].target
    <3>1. CASE proc[p].op = "restore"
      <4>1. c = [proc[p] EXCEPT !.pc = "restore"]
        BY <3>1
      <4>2. QED
        BY <1>1, <3>1, <4>1 DEF Request, Free, Changes, Own, Admin
    <3>2. CASE proc[p].op = "logoutAll"
      <4>1. c = [proc[p] EXCEPT !.pc = "change"]
        BY <3>2
      <4>2. QED
        BY <1>1, <3>2, <4>1 DEF Request, Free, Changes, Own, Admin
    <3>3. CASE proc[p].op \in Changes
      <4> DEFINE q == Changing(proc[p], "change")
      <4>1. c = [q EXCEPT !.rev = 0]
        BY <3>3 DEF Changes, Own, Admin
      <4>2. q \in Request /\ q.pc = "change" /\ q.op = proc[p].op /\ q.target = proc[p].target /\ q.fam = 0
        BY <1>1, Zenon DEF Changing, Idle, Request, Free
      <4> HIDE DEF q, c
      <4>3. c \in Request /\ c.pc = "change" /\ c.op = proc[p].op /\ c.target = proc[p].target /\ c.fam = 0
        BY <4>1, <4>2 DEF Request
      <4>4. QED
        BY <3>3, <4>3 DEF IInv, Sessions
    <3>4. QED
      BY <1>1, <3>1, <3>2, <3>3
  <2> HIDE DEF c
  <2>2. RequestOK(c) /\ c.pc \in Free /\ proc[p].pc \in Free
    BY <1>1, <2>1 DEF RequestOK, LoggingIn, Locked, Reading, Free
  <2>3. QED
    BY <1>1, <1>3, <2>1, <2>2, SameFewer, FreeStepOn, Zenon
<1>4. CASE sess' = Without({proc[p].sid} \cap Expired) /\ proc' = [proc EXCEPT ![p] = Idle]
  BY <1>1, <1>4, FreeEnds, Zenon DEF Free
<1>5. QED
  BY <1>2, <1>3, <1>4

\* Logging out removes every session of the family it puts out.
LEMMA RevokeSessionKeeps ==
    ASSUME IInv, NEW p \in Procs, RevokeSession(p), UNCHANGED authVars
    PROVE  IInv'
<1>1. /\ proc[p] \in Request /\ proc[p].pc = "logout" /\ proc[p].fam <= issued
      /\ sess' = Without(Family(p)) /\ out' = out \cup {proc[p].fam} /\ proc' = [proc EXCEPT ![p] = Idle]
      /\ UNCHANGED <<issued, acct>> /\ UNCHANGED <<mailLock, userLock, slots>>
  BY Mine, Zenon DEF RevokeSession, RequestOK, authVars
<1>2. Fewer /\ DOMAIN sess' = DOMAIN sess \ Family(p)
  BY <1>1, WithoutFewer, Zenon
<1>3. \A s \in DOMAIN sess' : sess[s].fam \notin out'
  BY <1>1, <1>2, Zenon DEF Family, IInv, NoStaleSession
<1>4. out' \subseteq 0..issued
  BY <1>1 DEF IInv, Sessions, Request
<1>5. proc[p].pc \in Free /\ Idle.pc \in Free
  BY <1>1, IdleFacts DEF Free
<1>6. QED
  BY <1>1, <1>2, <1>3, <1>4, <1>5, IdleFacts, FreeStep, Zenon

LEMMA LogoutAllKeeps ==
    ASSUME IInv, NEW p \in Procs, LogoutAll(p), UNCHANGED authVars
    PROVE  IInv'
<1> DEFINE gone == Of(proc[p].user)
<1>1. /\ proc[p].pc = "change"
      /\ sess' = Without(gone) /\ out' = out \cup {sess[s].fam : s \in gone} /\ proc' = [proc EXCEPT ![p] = Idle]
      /\ UNCHANGED <<issued, acct>> /\ UNCHANGED <<mailLock, userLock, slots>>
  BY Zenon DEF LogoutAll, authVars
<1>2. gone \subseteq DOMAIN sess
  BY DEF Of
<1> HIDE DEF gone
<1>3. Fewer /\ DOMAIN sess' = DOMAIN sess \ gone
  BY <1>1, WithoutFewer, Zenon
<1>4. \A s \in DOMAIN sess' : sess[s].fam \notin out'
  BY <1>1, <1>2, <1>3 DEF IInv, Sessions, NoStaleSession
<1>5. out' \subseteq 0..issued
  BY <1>1, <1>2 DEF IInv, Sessions
<1>6. proc[p].pc \in Free /\ Idle.pc \in Free
  BY <1>1, IdleFacts DEF Free
<1>7. QED
  BY <1>1, <1>3, <1>4, <1>5, <1>6, IdleFacts, FreeStep, Zenon

\* A rotation moves a session that is in the table: one that was logged out is not.
LEMMA RotateKeeps ==
    ASSUME IInv, NEW p \in Procs, RotateAfterReauthentication(p), UNCHANGED authVars
    PROVE  IInv'
<1> DEFINE s == proc[p].sid
           new == [sess[s] EXCEPT !.recent = TRUE]
<1>1. /\ proc[p].pc = "rotate" /\ proc' = [proc EXCEPT ![p] = Idle]
      /\ UNCHANGED <<out, acct>> /\ UNCHANGED <<mailLock, userLock, slots>>
  BY DEF RotateAfterReauthentication, authVars
<1>2. proc[p].pc \in Free /\ Idle.pc \in Free /\ proc[p].pc # "revoke"
  BY <1>1, IdleFacts DEF Free
<1>3. CASE ~Usage(s)
  <2>1. sess' = Without({s} \cap DOMAIN sess) /\ issued' = issued
    BY <1>3 DEF RotateAfterReauthentication
  <2>2. QED
    BY <1>1, <1>2, <2>1, FreeEnds, Zenon
<1>4. CASE Usage(s)
  <2>1. /\ s \in DOMAIN sess /\ issued' = issued + 1
        /\ sess' = [t \in (DOMAIN sess \ {s}) \cup {issued + 1} |-> IF t = issued + 1 THEN new ELSE sess[t]]
    BY <1>4 DEF RotateAfterReauthentication, Usage, Live
  <2>2. sess[s] \in Session
    BY <2>1 DEF IInv, Sessions
  <2>3. new \in Session /\ new.fam = sess[s].fam /\ new.rev = sess[s].rev /\ new.user = sess[s].user
    BY <2>2, Zenon DEF Session
  <2> HIDE DEF new, s
  <2>4. /\ new.fam \in 1..(issued + 1) /\ new.fam \notin out
        /\ \A t \in DOMAIN sess \ {s} : sess[t].fam # new.fam
    BY <2>1, <2>3 DEF IInv, Sessions, NoStaleSession
  <2>5. new.rev = acct[new.user].rev \/ Revoking(new.user)
    BY <2>1, <2>3 DEF IInv, NoStaleSession, Revoking
  <2>6. issued' \in Nat /\ issued' >= issued
    BY <2>1 DEF IInv, Sessions
  <2>7. Holds(p, Idle)
    BY <1>1, <1>2, IdleFacts, FreeHolds
  <2>8. Requests' /\ \A w \in Users : Revoking(w) => Revoking(w)'
    BY <1>1, <1>2, <2>6, <2>7, IdleFacts, OneMoves, Zenon
  <2>9. DOMAIN sess \ {s} \in SUBSET DOMAIN sess /\ acct' = acct /\ out' = out
    BY <1>1
  <2>10. Sessions' /\ NoStaleSession'
    BY <2>1, <2>3, <2>4, <2>5, <2>8, <2>9, NewSession, Zenon
  <2>11. QED
    BY <2>8, <2>10 DEF IInv
<1>5. QED
  BY <1>3, <1>4

-----------------------------------------------------------------------------
(* Restores, vaults and shutdown *)

LEMMA BeginRestoreKeeps ==
    ASSUME IInv, NEW p \in Procs, BeginRestore(p), UNCHANGED authVars
    PROVE  IInv'
<1> DEFINE c == [Idle EXCEPT !.pc = "signOut", !.user = proc[p].user, !.rev = proc[p].rev]
<1>1. /\ proc[p] \in Request /\ proc[p].pc = "restore" /\ sess' = sess
      /\ UNCHANGED <<issued, out, acct>> /\ UNCHANGED <<mailLock, userLock, slots>>
      /\ \/ proc' = [proc EXCEPT ![p] = c]
         \/ proc' = [proc EXCEPT ![p] = Idle]
  BY Mine DEF BeginRestore, authVars
<1>2. CASE proc' = [proc EXCEPT ![p] = c]
  <2>1. c \in Request /\ c.pc = "signOut" /\ c.fam = 0
    BY <1>1, Zenon DEF Idle, Request, Free
  <2> HIDE DEF c
  <2>2. RequestOK(c) /\ c.pc \in Free /\ proc[p].pc \in Free
    BY <1>1, <2>1 DEF RequestOK, LoggingIn, Locked, Reading, Free, IInv, Sessions
  <2>3. QED
    BY <1>1, <1>2, <2>1, <2>2, SameFewer, FreeStepOn, Zenon
<1>3. CASE proc' = [proc EXCEPT ![p] = Idle]
  BY <1>1, <1>3, FreeEnds, Zenon DEF Free
<1>4. QED
  BY <1>1, <1>2, <1>3

\* A restore goes on to its next step.
LEMMA RestoreGoesOn ==
    ASSUME IInv, NEW p \in Procs, proc[p].pc \in {"signOut", "alone"}, NEW pc \in {"alone", "restoring"}, Fewer,
           proc' = [proc EXCEPT ![p].pc = pc], UNCHANGED <<issued, out, acct>>, UNCHANGED <<mailLock, userLock, slots>>
    PROVE  IInv'
<1> DEFINE c == [proc[p] EXCEPT !.pc = pc]
<1>1. proc[p] \in Request /\ proc[p].fam <= issued
  BY Mine DEF RequestOK
<1>2. c \in Request /\ c.pc = pc /\ c.fam = proc[p].fam /\ proc' = [proc EXCEPT ![p] = c]
  BY <1>1 DEF Request, Free
<1> HIDE DEF c
<1>3. RequestOK(c) /\ c.pc \in Free /\ proc[p].pc \in Free
  BY <1>1, <1>2 DEF RequestOK, LoggingIn, Locked, Reading, Free
<1>4. QED
  BY <1>2, <1>3, FreeStepOn, Zenon

LEMMA RestoresKeep ==
    ASSUME IInv, NEW p \in Procs, RestoreSignsOut(p) \/ RestoreSnapshot(p) \/ RestoreCancelled(p), UNCHANGED authVars
    PROVE  IInv'
<1>1. UNCHANGED <<issued, out, acct>> /\ UNCHANGED <<mailLock, userLock, slots>>
  BY DEF RestoreSignsOut, RestoreSnapshot, RestoreCancelled, authVars
<1>2. CASE RestoreSignsOut(p)
  BY <1>1, <1>2, WithoutFewer, RestoreGoesOn, Zenon DEF RestoreSignsOut
<1>3. CASE RestoreSnapshot(p)
  <2>1. CASE proc[p].pc = "alone" /\ proc' = [proc EXCEPT ![p].pc = "restoring"] /\ sess' = sess
    BY <1>1, <2>1, SameFewer, RestoreGoesOn, Zenon
  <2>2. CASE proc[p].pc = "restoring" /\ proc' = [proc EXCEPT ![p] = Idle] /\ sess' = sess
    BY <1>1, <2>2, FreeEnds, Zenon DEF Free
  <2>3. QED
    BY <1>3, <2>1, <2>2 DEF RestoreSnapshot
<1>4. CASE RestoreCancelled(p)
  BY <1>1, <1>4, FreeEnds, Zenon DEF RestoreCancelled, Free
<1>5. QED
  BY <1>2, <1>3, <1>4

\* Time and shutdown only take sessions away, or mark them.
LEMMA TimePasses ==
    ASSUME IInv, NEW s \in DOMAIN sess, Expire(s) \/ NoLongerRecent(s), UNCHANGED authVars
    PROVE  IInv'
<1>1. Fewer
  <2>1. sess[s] \in Session
    BY DEF IInv, Sessions
  <2>2. /\ [sess[s] EXCEPT !.expired = TRUE] \in Session /\ [sess[s] EXCEPT !.recent = FALSE] \in Session
    BY <2>1, Zenon DEF Session
  <2>3. PICK r \in Session : /\ sess' = [sess EXCEPT ![s] = r]
                            /\ r.user = sess[s].user /\ r.fam = sess[s].fam /\ r.rev = sess[s].rev
    <3>1. CASE sess' = [sess EXCEPT ![s] = [sess[s] EXCEPT !.expired = TRUE]]
      BY <2>1, <2>2, <3>1, Zenon DEF Session
    <3>2. CASE sess' = [sess EXCEPT ![s] = [sess[s] EXCEPT !.recent = FALSE]]
      BY <2>1, <2>2, <3>2, Zenon DEF Session
    <3>3. QED
      BY <3>1, <3>2 DEF Expire, NoLongerRecent
  <2>4. QED
    BY <2>3 DEF Fewer, IInv, Sessions
<1>2. UNCHANGED <<issued, out, acct, proc>> /\ UNCHANGED <<mailLock, userLock, slots>>
  BY DEF Expire, NoLongerRecent, authVars
<1>3. QED
  BY <1>1, <1>2, TableShrinks

LEMMA ShutdownKeeps ==
    ASSUME IInv, Purge \/ CloseSessions \/ CloseVaults, UNCHANGED authVars
    PROVE  IInv'
<1>1. Fewer
  BY SameFewer, WithoutFewer, Zenon DEF Purge, CloseSessions, CloseVaults
<1>2. UNCHANGED <<issued, out, acct, proc>> /\ UNCHANGED <<mailLock, userLock, slots>>
  BY DEF Purge, CloseSessions, CloseVaults, authVars
<1>3. QED
  BY <1>1, <1>2, TableShrinks

\* The closer tells those who wait, and changes nothing else of a request.
LEMMA VaultClosesKeeps ==
    ASSUME IInv, NEW u \in Users, VaultCloses(u), UNCHANGED authVars
    PROVE  IInv'
<1>1. /\ UNCHANGED <<sess, issued, out, acct>> /\ UNCHANGED <<mailLock, userLock, slots>>
      /\ proc' = [p \in Procs |-> IF proc[p].pc = "wait" /\ proc[p].target = u
                                  THEN [proc[p] EXCEPT !.gone = TRUE] ELSE proc[p]]
  BY DEF VaultCloses, authVars
<1>2. ASSUME NEW p \in Procs
      PROVE  /\ proc'[p] \in Request /\ proc'[p].pc = proc[p].pc /\ proc'[p].target = proc[p].target
             /\ proc'[p].op = proc[p].op /\ proc'[p].user = proc[p].user /\ proc'[p].fam = proc[p].fam
             /\ proc'[p].rev = proc[p].rev /\ RequestOK(proc[p])
  <2>1. proc[p] \in Request /\ RequestOK(proc[p])
    BY Mine
  <2>2. QED
    BY <1>1, <2>1, Zenon DEF Request
<1>3. ASSUME NEW p \in Procs
      PROVE  RequestOK(proc[p])'
  <2> DEFINE c == proc[p]
             d == proc'[p]
  <2>0. /\ d.pc = c.pc /\ d.target = c.target /\ d.op = c.op /\ d.user = c.user /\ d.fam = c.fam
        /\ d.rev = c.rev /\ RequestOK(c)
    BY <1>2, Zenon
  <2> HIDE DEF c, d
  <2>1. RequestOK(d)
    BY <2>0 DEF RequestOK
  <2>2. acct' = acct /\ issued' = issued
    BY <1>1
  <2>3. QED
    BY <2>1, <2>2, Zenon DEF RequestOK, d
<1>4. LocksOK' /\ LocksTyped' /\ proc' \in [Procs -> Request]
  <2>1. proc' \in [Procs -> Request] /\ LocksTyped'
    BY <1>1, <1>2 DEF IInv, Requests, LocksTyped
  <2>2. LocksOK'
    BY <1>1, <1>2 DEF IInv, Requests, LocksOK, LocksTyped
  <2>3. QED
    BY <2>1, <2>2
<1>5. Requests'
  BY <1>1, <1>3, <1>4 DEF IInv, Requests
<1>6. ASSUME NEW w \in Users, Revoking(w)
      PROVE  Revoking(w)'
  <2>1. userLock[w] \in Procs
    BY <1>6 DEF Revoking, IInv, Requests, LocksTyped
  <2>2. QED
    BY <1>1, <1>2, <1>6, <2>1 DEF Revoking
<1>7. Fewer /\ out' \subseteq 0..issued /\ \A s \in DOMAIN sess' : sess[s].fam \notin out'
  BY <1>1, SameFewer DEF IInv, Sessions, NoStaleSession
<1>8. Sessions' /\ NoStaleSession'
  BY <1>1, <1>6, <1>7, FewerSessions
<1>9. QED
  BY <1>5, <1>8 DEF IInv

-----------------------------------------------------------------------------
(* The invariant *)

LEMMA InitIInv == Init => IInv
<1> SUFFICES ASSUME Init
             PROVE  IInv
  OBVIOUS
<1>1. DOMAIN sess = {} /\ issued = 0 /\ out = {} /\ slots = {}
  BY DEF Init
<1>2. Sessions /\ NoStaleSession
  <2>1. NoStaleSession
    BY <1>1, Zenon DEF NoStaleSession
  <2>2. sess \in [DOMAIN sess -> Session]
    BY Zenon DEF Init
  <2>3. Sessions
    BY <1>1, <2>2 DEF Sessions
  <2> QED  BY <2>1, <2>3
<1>3. Idle \in Request /\ Idle.pc = "idle" /\ Idle.fam = 0
  BY DEF Idle, Request, Free
<1>4. \A p \in Procs : RequestOK(proc[p])
  BY <1>1, <1>3, SMTT(60) DEF Init, RequestOK, LoggingIn, Locked, Reading
<1>5. LocksTyped
  BY <1>1 DEF Init, LocksTyped
<1>6. LocksOK
  BY <1>1, <1>3, AuthAssumption DEF Init, LocksOK, Locked
<1>7. acct \in [Users -> Account] /\ proc \in [Procs -> Request]
  BY <1>3 DEF Init, Account
<1>8. QED
  BY <1>2, <1>4, <1>5, <1>6, <1>7 DEF IInv, Requests

LEMMA StartsKeep ==
    ASSUME IInv, NEW p \in Procs, Starts(p)
    PROVE  IInv'
BY LoginBeginsKeeps, PasskeyLoginKeeps, CompletePasswordResetKeeps, BorrowVaultSessionKeeps, GetSessionKeeps DEF Starts

LEMMA ContinuesKeeps ==
    ASSUME IInv, NEW p \in Procs, Continues(p)
    PROVE  IInv'
<1>1. CASE RequestEnds(p) /\ UNCHANGED authVars
  BY <1>1, FreeEnds, Zenon DEF RequestEnds, Free, authVars
<1>2. QED
  BY <1>1, LoginLocksMailKeeps, LoginLocksUserKeeps, LoginReadsKeeps, LoginUnwrapsKeeps, PasskeyAssertsKeeps,
     PasskeyReauthKeeps, OpenAcquiresKeeps, OpenCreatesKeeps, ReauthBeginsKeeps, ReauthEndsKeeps, StartChangeKeeps,
     ChangeLocksKeeps, ChangeCommitsKeeps, ChangeRevokesKeeps, ChangeDrainsKeeps, WaitEndsKeeps,
     CurrentVaultUserKeeps, RecentAuthKeeps, RevokeSessionKeeps, LogoutAllKeeps, RotateKeeps,
     BeginRestoreKeeps, RestoresKeep DEF Continues

LEMMA NextIInv == IInv /\ [Next]_vars => IInv'
<1> SUFFICES ASSUME IInv, [Next]_vars
             PROVE  IInv'
  OBVIOUS
<1>1. CASE UNCHANGED vars
  <2>1. UNCHANGED <<issued, out, acct, proc>> /\ UNCHANGED <<mailLock, userLock, slots>> /\ sess' = sess
    BY <1>1 DEF vars, sessionVars, authVars
  <2>2. QED
    BY <2>1, SameFewer, TableShrinks
<1>2. ASSUME NEW p \in Procs, Starts(p) \/ Continues(p) \/ ChangeCancelled(p)
      PROVE  IInv'
  BY <1>2, StartsKeep, ContinuesKeeps, WaitEndsKeeps
<1>3. CASE Environment
  BY <1>3, TimePasses, ShutdownKeeps, RestoresKeep DEF Environment
<1>4. QED
  BY <1>1, <1>2, <1>3, VaultClosesKeeps DEF Next

LEMMA InvariantHolds == Spec => []IInv
BY InitIInv, NextIInv, PTL DEF Spec

\* No session outlives a committed change of its account or a logout, whatever logins,
\* reauthentications, changes, logouts, restores and expiries run beside each other.
THEOREM NeverStale == Spec => []NoStaleSession
<1>1. IInv => NoStaleSession
  BY DEF IInv
<1>2. QED
  BY <1>1, InvariantHolds, PTL

\* A request that is over holds no account lock and no derivation slot, on any of its
\* ways out.
THEOREM LocksAlwaysReturned == Spec => []LocksReturned
<1>1. IInv => LocksReturned
  BY DEF IInv, Requests, LocksOK, LocksTyped, LocksReturned, Locked, LoggingIn, Slotted
<1>2. QED
  BY <1>1, InvariantHolds, PTL
=============================================================================
