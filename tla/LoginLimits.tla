----------------------------- MODULE LoginLimits -----------------------------
(* How often an account can be tried: the counter of failed authentications   *)
(* with its growing locks (login_throttle), which passwords and passkeys      *)
(* share, and the one-time ceremonies of the passkeys.                        *)
(*                                                                            *)
(* One account, and goroutines that serve requests for it.  A request takes   *)
(* the time when it arrives (dependencies.now()) and uses it until its end,   *)
(* while the clock goes on.  Sessions, vaults and changes of the account are  *)
(* in ServerAuth; a refused request that changes nothing is left out.         *)
EXTENDS FiniteSets, Integers

CONSTANTS
  Procs,
  MaxFailures, BaseLock, MaxLock, Decay,   \* LoginThrottlePolicy
  KDFSlots,
  maxPasskeyCeremonies, Lifetime,          \* ceremonies: how many, how long
  MaxPasskeysPerUser,
  MaxTime, MaxBegun                        \* bounds of the model

ASSUME PolicyAssumption ==
  /\ MaxFailures \in 1..1000 /\ BaseLock \in Nat \ {0}
  /\ MaxLock \in Nat /\ MaxLock >= BaseLock /\ Decay \in Nat /\ Decay >= MaxLock

VARIABLES
  now,
  row,          \* the login_throttle row, NoRow without one; until = 0 is NULL
  slots,        \* KDF slots taken
  emailLock, userLock,   \* the account's two locks, held or not
  ceremonies,   \* id -> kind and expiry
  begun,        \* ceremonies stored so far: their ids
  passkeys,     \* the registered credentials, by the ceremony that made them
  proc,
  lock,         \* the lock last set: its end, and the requests past the check
  uses          \* how often a ceremony led to a login, a proof or a credential

vars == <<now, row, slots, emailLock, userLock, ceremonies, begun, passkeys, proc, lock, uses>>

Ids == 1..MaxBegun
LoginKinds == {"login", "discoverable", "reauth"}
Kinds == LoginKinds \cup {"registration", "assertion"}
NoRow == [count |-> 0, level |-> 0, until |-> 0, last |-> -1]
Idle == [pc |-> "idle", req |-> "none", now |-> 0, id |-> 0]
Pcs == {"idle", "start", "admit", "compare", "record", "clear", "check", "enter", "validate",
        "password", "failed", "late", "succeeded", "persist", "again"}

TypeOK ==
  /\ now \in 0..MaxTime
  /\ row \in [count : 0..MaxFailures, level : Nat, until : Nat, last : Int]
  /\ slots \in 0..KDFSlots /\ emailLock \in BOOLEAN /\ userLock \in BOOLEAN
  /\ DOMAIN ceremonies \subseteq 1..begun /\ begun \in 0..MaxBegun
  /\ \A i \in DOMAIN ceremonies : ceremonies[i] \in [kind : Kinds, expires : Nat]
  /\ passkeys \subseteq Ids
  /\ proc \in [Procs -> [pc : Pcs, req : Kinds \cup {"none", "password"}, now : 0..MaxTime,
                         id : 0..MaxBegun]]
  /\ uses \in [Ids -> Nat]

Init ==
  /\ now = 0 /\ row = NoRow /\ slots = 0 /\ emailLock = FALSE /\ userLock = FALSE
  /\ ceremonies = [i \in {} |-> 0] /\ begun = 0 /\ passkeys = {}
  /\ proc = [p \in Procs |-> Idle]
  /\ lock = [until |-> 0, inside |-> {}] /\ uses = [i \in Ids |-> 0]

-----------------------------------------------------------------------------
(* The row of the account.                                                    *)
LeastOf(a, b) == IF a < b THEN a ELSE b

\* LoginThrottleLockedUntil, checkLoginThrottle: the account is locked at t.
LockedAt(r, t) == r.until > t

\* The level stops where the duration reaches MaxLock (a day of seconds at most, so
\* before the code's other limit of 64).
Doublings[d \in Nat] == IF d >= MaxLock THEN 0 ELSE 1 + Doublings[2 * d]
maxLevel == 1 + Doublings[BaseLock]
Duration(level) == LeastOf(MaxLock, BaseLock * 2^(level - 1))

\* Mutant: a failure during a lock counts.
NeverKept(r, t) == FALSE

\* Already locked: the row stays, "so the lock cannot be extended by traffic".
KeepsLock(r, t) == LockedAt(r, t)

(* One failure at time t.                                                     *)
RegisterLoginFailure(r, t) ==
  LET decayed == r.last >= 0 /\ t - r.last > Decay
      count == IF decayed THEN 1 ELSE r.count + 1
      level == IF decayed THEN 0 ELSE r.level
      next  == LeastOf(level + 1, maxLevel)
  IN IF KeepsLock(r, t) THEN r
     ELSE IF count >= MaxFailures
       THEN [count |-> 0, level |-> next, until |-> t + Duration(next), last |-> t]
       ELSE [count |-> count, level |-> level, until |-> 0, last |-> t]

(* Rows nobody has failed on for the decay window are removed, by the         *)
(* failures of any account (every 128th; here, any).                          *)
PurgedAt(r, t) ==
  IF r # NoRow /\ (IF r.until > 0 THEN r.until ELSE r.last) < t - Decay THEN NoRow ELSE r

PastCheck(p) ==
  \/ proc[p].pc \in {"admit", "compare", "validate", "password"}
  \/ proc[p].pc = "enter" /\ proc[p].req # "discoverable"

(* A request records its failure, with the time it arrived at; storing it may *)
(* fail, which is only logged.                                                *)
recordLoginFailure(p) ==
  \/ LET r == RegisterLoginFailure(row, proc[p].now) IN
     /\ row' = r
     /\ lock' = IF r.until \notin {0, row.until}
                  THEN [until |-> r.until, inside |-> {q \in Procs \ {p} : PastCheck(q)}]
                  ELSE [lock EXCEPT !.inside = @ \ {p}]
  \/ row' = row /\ lock' = [lock EXCEPT !.inside = @ \ {p}]

(* A successful authentication by any method removes the row, if it can.      *)
clearLoginFailures(p) ==
  \/ row' = NoRow /\ lock' = [until |-> 0, inside |-> {}]
  \/ row' = row /\ lock' = [lock EXCEPT !.inside = @ \ {p}]

Leaves(p) == lock' = [lock EXCEPT !.inside = @ \ {p}]

maybePurgeLoginThrottle ==
  /\ row' = PurgedAt(row, now) /\ row' # row
  /\ UNCHANGED <<now, slots, emailLock, userLock, ceremonies, begun, passkeys, proc, lock, uses>>

Tick ==
  /\ now < MaxTime /\ now' = now + 1
  /\ UNCHANGED <<row, slots, emailLock, userLock, ceremonies, begun, passkeys, proc, lock, uses>>

-----------------------------------------------------------------------------
Go(p, l) == proc' = [proc EXCEPT ![p].pc = l]
Done(p) == proc' = [proc EXCEPT ![p] = Idle]

(* A request with a password: a login, or a reauthentication.                 *)
Arrive(p) ==
  /\ proc[p].pc = "idle"
  /\ \E k \in {"password", "reauth"} :
       /\ k = "reauth" => ~userLock       \* lockAccount first, else busy
       /\ userLock' = (userLock \/ k = "reauth")
       /\ proc' = [proc EXCEPT ![p] = [pc |-> "start", req |-> k, now |-> now, id |-> 0]]
  /\ UNCHANGED <<now, row, slots, emailLock, ceremonies, begun, passkeys, lock, uses>>

Unlocks(p) ==
  /\ userLock' = (userLock /\ proc[p].req = "password") 
  /\ UNCHANGED emailLock

Check(p) ==
  /\ proc[p].pc = "start"
  /\ IF LockedAt(row, proc[p].now)
       THEN Done(p) /\ Unlocks(p)
       ELSE Go(p, "admit") /\ UNCHANGED <<emailLock, userLock>>
  /\ UNCHANGED <<now, row, slots, ceremonies, begun, passkeys, lock, uses>>

(* A KDF slot and the locks the request does not hold yet; without a queue,   *)
(* so a request that cannot have them is answered as busy.                    *)
reserveKDF(p) ==
  /\ proc[p].pc = "admit"
  /\ \/ /\ slots < KDFSlots
        /\ proc[p].req = "password" => ~emailLock /\ ~userLock
        /\ slots' = slots + 1 /\ userLock' = TRUE
        /\ emailLock' = (emailLock \/ proc[p].req = "password")
        /\ Go(p, "compare") /\ UNCHANGED lock
     \/ /\ slots >= KDFSlots \/ (proc[p].req = "password" /\ (emailLock \/ userLock))
        /\ Done(p) /\ Leaves(p) /\ Unlocks(p) /\ UNCHANGED slots
  /\ UNCHANGED <<now, row, ceremonies, begun, passkeys, uses>>

Compare(p) ==
  /\ proc[p].pc = "compare"
  /\ slots' = slots - 1
  /\ Go(p, "record") \/ Go(p, "clear")
  /\ UNCHANGED <<now, row, emailLock, userLock, ceremonies, begun, passkeys, lock, uses>>

(* The counter is written before the account's locks are given back.          *)
Answer(p) ==
  /\ \/ proc[p].pc = "record" /\ recordLoginFailure(p) /\ UNCHANGED uses
     \/ /\ proc[p].pc = "clear" /\ clearLoginFailures(p)
        /\ uses' = IF proc[p].id = 0 THEN uses ELSE [uses EXCEPT ![proc[p].id] = @ + 1]
  /\ userLock' = FALSE /\ emailLock' = (emailLock /\ proc[p].req # "password")
  /\ Done(p)
  /\ UNCHANGED <<now, slots, ceremonies, begun, passkeys>>

-----------------------------------------------------------------------------
(* Ceremonies.                                                                *)
Expired(i, t) == ceremonies[i].expires < t
Without(f, s) == [i \in DOMAIN f \ s |-> f[i]]

(* Expired ceremonies are dropped when another one is stored; full is busy.   *)
storePasskeyCeremony(kind) ==
  LET kept == Without(ceremonies, {i \in DOMAIN ceremonies : Expired(i, now)}) IN
  IF Cardinality(DOMAIN kept) < maxPasskeyCeremonies
    THEN /\ begun' = begun + 1
         /\ ceremonies' = [i \in DOMAIN kept \cup {begun + 1} |->
                             IF i = begun + 1 THEN [kind |-> kind, expires |-> now + Lifetime]
                                              ELSE kept[i]]
    ELSE ceremonies' = kept /\ UNCHANGED begun

BeginCeremony(kind) ==
  /\ begun < MaxBegun /\ storePasskeyCeremony(kind)
  /\ UNCHANGED <<now, row, slots, emailLock, userLock, passkeys, proc, lock, uses>>

(* A login by name and a reauthentication ask the counter; only the latter    *)
(* needs a passkey, an unknown name gets decoys.                              *)
BeginPasskeyRegistration == BeginCeremony("registration")
BeginDiscoverablePasskeyLogin == BeginCeremony("discoverable")
beginPrivatePasskeyLogin == ~LockedAt(row, now) /\ BeginCeremony("login")
beginPasskeyAssertion == ~LockedAt(row, now) /\ passkeys # {} /\ BeginCeremony("reauth")

\* Mutant: looks the ceremony up and leaves it for the next request.
Looked(i) == ceremonies

\* The ceremony is deleted whatever else is wrong with the request.
Taken(i) == Without(ceremonies, {i})

(* A request that finishes a ceremony takes it as kind k and goes on at l; its *)
(* client, user or session may not be those of the ceremony.                  *)
takePasskeyCeremony(p, k, l) ==
  /\ proc[p].pc = "idle"
  /\ \E i \in DOMAIN ceremonies, ours \in BOOLEAN :
       /\ ceremonies' = Taken(i)
       /\ proc' = IF ours /\ ceremonies[i].kind = k /\ ~Expired(i, now)
                    THEN [proc EXCEPT ![p] = [pc |-> l, req |-> k, now |-> now, id |-> i]]
                    ELSE proc
  /\ UNCHANGED <<now, row, slots, emailLock, userLock, begun, passkeys, lock, uses>>

FinishPasskeyRegistration(p) == takePasskeyCeremony(p, "registration", "persist")
FinishPasskeyRegistrationAssertion(p) == takePasskeyCeremony(p, "assertion", "persist")
FinishDiscoverablePasskeyLogin(p) == takePasskeyCeremony(p, "discoverable", "enter")
FinishPasskeyLogin(p) == takePasskeyCeremony(p, "login", "check")
FinishPasskeyReauthentication(p) == takePasskeyCeremony(p, "reauth", "check")
\* A registration whose authenticator evaluated nothing goes on as an assertion.
RegistrationGoesOn(p) == takePasskeyCeremony(p, "registration", "again")

(* A login by name and a reauthentication ask the counter before the lock of  *)
(* the account, a discoverable login after it.                                *)
CheckAssertion(p) ==
  /\ proc[p].pc = "check"
  /\ IF LockedAt(row, proc[p].now)
       THEN /\ Done(p)
            /\ userLock' = (userLock /\ proc[p].req # "discoverable")
       ELSE /\ Go(p, IF proc[p].req = "discoverable" THEN "validate" ELSE "enter")
            /\ UNCHANGED userLock
  /\ UNCHANGED <<now, row, slots, emailLock, ceremonies, begun, passkeys, lock, uses>>

EnterAssertion(p) ==
  /\ proc[p].pc = "enter"
  /\ \/ \* busy, or a discoverable answer without a user
        (userLock \/ proc[p].req = "discoverable") /\ Done(p) /\ Leaves(p) /\ UNCHANGED userLock
     \/ \* a decoy, another user's ceremony or a malformed answer: a failure, without the lock
        proc[p].req # "discoverable" /\ Go(p, "late") /\ UNCHANGED <<userLock, lock>>
     \/ /\ ~userLock /\ userLock' = TRUE /\ UNCHANGED lock
        /\ Go(p, IF proc[p].req = "discoverable" THEN "check" ELSE "validate")
  /\ UNCHANGED <<now, row, slots, emailLock, ceremonies, begun, passkeys, uses>>

(* The assertion is wrong, or right; a credential whose envelope only the     *)
(* password opens sends a login on to the password.                           *)
validatePasskeyAssertion(p) ==
  /\ proc[p].pc = "validate"
  /\ \/ Go(p, "failed")
     \/ passkeys # {} /\ Go(p, "succeeded")
     \/ passkeys # {} /\ proc[p].req # "reauth" /\ Go(p, "password")
  /\ UNCHANGED <<now, row, slots, emailLock, userLock, ceremonies, begun, passkeys, lock, uses>>

(* unwrapVaultWithPassword asks the counter again and takes a slot; being     *)
(* refused here is not counted as a failure.                                  *)
unwrapVaultWithPassword(p) ==
  /\ proc[p].pc = "password"
  /\ IF LockedAt(row, proc[p].now) \/ slots >= KDFSlots
       THEN Done(p) /\ Leaves(p) /\ userLock' = FALSE /\ UNCHANGED slots
       ELSE slots' = slots + 1 /\ Go(p, "compare") /\ UNCHANGED <<userLock, lock>>
  /\ UNCHANGED <<now, row, emailLock, ceremonies, begun, passkeys, uses>>

(* By name and for a proof, the lock is given back before the failure is      *)
(* recorded; a discoverable login records it first.                           *)
ReleaseFailed(p) ==
  /\ proc[p].pc = "failed"
  /\ userLock' = FALSE
  /\ IF proc[p].req = "discoverable"
       THEN Done(p) /\ recordLoginFailure(p)
       ELSE Go(p, "late") /\ UNCHANGED <<row, lock>>
  /\ UNCHANGED <<now, slots, emailLock, ceremonies, begun, passkeys, uses>>

RecordFailed(p) ==
  /\ proc[p].pc = "late" /\ recordLoginFailure(p) /\ Done(p)
  /\ UNCHANGED <<now, slots, emailLock, userLock, ceremonies, begun, passkeys, uses>>

Succeed(p) ==
  /\ proc[p].pc = "succeeded" /\ clearLoginFailures(p)
  /\ uses' = [uses EXCEPT ![proc[p].id] = @ + 1]
  /\ userLock' = FALSE /\ Done(p)
  /\ UNCHANGED <<now, slots, emailLock, ceremonies, begun, passkeys>>

(* The credential is stored, under the account's lock and within its limit.   *)
persistVerifiedPasskey(p) ==
  /\ proc[p].pc = "persist" /\ Done(p)
  /\ \/ /\ ~userLock /\ Cardinality(passkeys) < MaxPasskeysPerUser
        /\ passkeys' = passkeys \cup {proc[p].id}
        /\ uses' = [uses EXCEPT ![proc[p].id] = @ + 1]
     \/ UNCHANGED <<passkeys, uses>>
  /\ UNCHANGED <<now, row, slots, emailLock, userLock, ceremonies, begun, lock>>

(* A provider without a result at creation: the candidate goes on into an     *)
(* assertion ceremony, if the account's lock is free.                         *)
BeginPasskeyRegistrationAssertion(p) ==
  /\ proc[p].pc = "again" /\ Done(p)
  /\ \/ ~userLock /\ begun < MaxBegun /\ storePasskeyCeremony("assertion")
     \/ UNCHANGED <<ceremonies, begun>>
  /\ UNCHANGED <<now, row, slots, emailLock, userLock, passkeys, lock, uses>>

DeletePasskey(i) ==
  /\ ~userLock /\ i \in passkeys /\ passkeys' = passkeys \ {i}
  /\ UNCHANGED <<now, row, slots, emailLock, userLock, ceremonies, begun, proc, lock, uses>>

DeleteAllPasskeys ==
  /\ ~userLock /\ passkeys' = {}
  /\ UNCHANGED <<now, row, slots, emailLock, userLock, ceremonies, begun, proc, lock, uses>>

Next ==
  \/ Tick \/ maybePurgeLoginThrottle \/ DeleteAllPasskeys
  \/ BeginPasskeyRegistration \/ BeginDiscoverablePasskeyLogin
  \/ beginPrivatePasskeyLogin \/ beginPasskeyAssertion
  \/ \E i \in Ids : DeletePasskey(i)
  \/ \E p \in Procs :
       \/ Arrive(p) \/ Check(p) \/ reserveKDF(p) \/ Compare(p) \/ Answer(p)
       \/ FinishPasskeyRegistration(p) \/ FinishPasskeyRegistrationAssertion(p)
       \/ FinishDiscoverablePasskeyLogin(p) \/ FinishPasskeyLogin(p)
       \/ FinishPasskeyReauthentication(p) \/ RegistrationGoesOn(p) \/ CheckAssertion(p) \/ EnterAssertion(p)
       \/ validatePasskeyAssertion(p) \/ unwrapVaultWithPassword(p)
       \/ ReleaseFailed(p) \/ RecordFailed(p) \/ Succeed(p)
       \/ persistVerifiedPasskey(p) \/ BeginPasskeyRegistrationAssertion(p)

Spec == Init /\ [][Next]_vars
-----------------------------------------------------------------------------
(* A lock holds until its end: no failure, late or early, with a password or  *)
(* with a passkey, shortens, extends or removes it, only a success does; its  *)
(* length is within the policy; and while it runs, secrets are compared only  *)
(* by requests that had passed the check when it was set.                     *)
LockHolds ==
  /\ now < lock.until =>
       /\ row.until = lock.until
       /\ \A p \in Procs : proc[p].pc \in {"compare", "validate"} => p \in lock.inside
  /\ row.until > 0 => /\ row.until - row.last \in BaseLock..MaxLock
                      /\ row.level \in 1..maxLevel

(* A ceremony leads to one login, one proof or one credential at most, also   *)
(* when its answer is sent twice at the same time.                            *)
CeremonyOnce == \A i \in Ids : uses[i] <= 1
=============================================================================
