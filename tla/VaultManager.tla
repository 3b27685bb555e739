---------------------------- MODULE VaultManager ----------------------------
(***************************************************************************)
(* vault/manager.go: the table of open user vaults, the leases that keep a *)
(* vault open, and the ways a vault is closed: the last session lease goes *)
(* (automatic retirement, which a fresh login may still cancel), a user is *)
(* drained, a snapshot is restored, the server shuts down.                 *)
(*                                                                         *)
(* A process is a goroutine inside one call.  Each step is one critical    *)
(* section of Manager.mu; what the code does outside the lock (opening,    *)
(* waiting on a channel, draining background work, closing) lies between   *)
(* steps.  Entry records are recycled once nothing refers to them.         *)
(***************************************************************************)
EXTENDS Naturals, FiniteSets

CONSTANTS
    Procs,        \* goroutines
    Users,
    Vaults,
    Keys,         \* data-encryption keys a caller may present
    KeyOf,        \* the key a vault's database really has
    None,
    Cancellable   \* the goroutines whose request context may be cancelled

ASSUME ProcsAssumption == IsFiniteSet(Procs) /\ IsFiniteSet(Users)
ASSUME KeyAssumption == KeyOf \in [Vaults -> Keys]
ASSUME NoneAssumption == None \notin Users /\ None \notin Vaults /\ None \notin Nat
ASSUME CancelAssumption == Cancellable \subseteq Procs

EntryIds == 1..(Cardinality(Procs) + Cardinality(Users))

VARIABLES
    entries,   \* Manager.entries: user -> entry
    byVault,   \* Manager.byVault: vault -> entry
    ent,       \* the entry structs
    closing,   \* Manager.closing
    proc       \* the goroutines

vars == <<entries, byVault, ent, closing, proc>>

(* ready # nil is "opening", instance # nil is "open", closing # nil is      *)
(* "closing"; "failed" has an openErr and waits for its closer; "gone" is no *)
(* longer in the tables.                                                     *)
EntryStates == {"opening", "open", "failed", "closing", "gone"}

Gone == [state |-> "gone", user |-> None, vault |-> None, key |-> None,
         refs |-> 0, roots |-> 0, draining |-> FALSE, auto |-> FALSE]

(* e, todo: the entry in hand and those closeEntry still has to be called on; *)
(* root: a session lease; auto, fresh: what closeEntry read of autoRetiring,  *)
(* and whether entry.retired is still the channel it read; ctx: the call has  *)
(* a request context.                                                         *)
Idle == [pc |-> "idle", e |-> 0, todo |-> {}, root |-> FALSE,
         user |-> None, vault |-> None, key |-> None,
         auto |-> FALSE, fresh |-> FALSE, ctx |-> FALSE]

Init ==
    /\ entries = [u \in Users |-> 0]
    /\ byVault = [v \in Vaults |-> 0]
    /\ ent = [e \in EntryIds |-> Gone]
    /\ closing = FALSE
    /\ proc = [p \in Procs |-> Idle]

-----------------------------------------------------------------------------

Mapped(e) == \E u \in Users : entries[u] = e
Referenced == {proc[p].e : p \in Procs} \cup UNION {proc[p].todo : p \in Procs}
FreeEntry == CHOOSE e \in EntryIds : ent[e].state = "gone" /\ e \notin Referenced

Goto(p, pc) == proc' = [proc EXCEPT ![p].pc = pc]
Leave(p)    == proc' = [proc EXCEPT ![p] = Idle]

\* A lease on e, as addReferenceLocked counts it.
AddRef(x, root) == [x EXCEPT !.refs = @ + 1, !.roots = IF root THEN @ + 1 ELSE @]
Holding(q, e, root) == [q EXCEPT !.pc = "lease", !.e = e, !.root = root]

\* current.retired is replaced: a closeEntry that has read it will notice.
Unretired(q, e) == IF q.e = e THEN [q EXCEPT !.fresh = FALSE] ELSE q

-----------------------------------------------------------------------------
(* Acquire                                                                   *)

SameBinding(x, v, k) == x.vault = v /\ x.key = k

IgnoreVaultTable(u, v) == TRUE

\* No other user has the vault.
VaultFree(u, v) == byVault[v] # 0 => ent[byVault[v]].user = u

StartAcquire(p, u, v, k) ==
    /\ proc[p].pc = "idle"
    /\ proc' = [proc EXCEPT ![p] = [Idle EXCEPT !.pc = "acquire", !.user = u, !.vault = v, !.key = k]]
    /\ UNCHANGED <<entries, byVault, ent, closing>>

Refused(p) ==
    LET u == proc[p].user  v == proc[p].vault  k == proc[p].key  e == entries[u]
    IN \/ closing
       \/ e # 0 /\ ent[e].draining /\ ~ent[e].auto
       \/ e # 0 /\ ~SameBinding(ent[e], v, k)
       \/ e # 0 /\ ~ent[e].auto /\ ent[e].state \in {"failed", "closing"}
       \/ e = 0 /\ ~VaultFree(u, v)

\* One pass of Acquire's loop under the lock.
Acquire(p) ==
    LET u == proc[p].user  v == proc[p].vault  k == proc[p].key  e == entries[u]
    IN /\ proc[p].pc = "acquire"
       /\ UNCHANGED closing
       /\ \/ /\ Refused(p)
             /\ Leave(p)
             /\ UNCHANGED <<entries, byVault, ent>>
          \/ /\ ~Refused(p) /\ e # 0 /\ ent[e].auto /\ ent[e].state = "closing"
             /\ proc' = [proc EXCEPT ![p].pc = "waitRetired", ![p].e = e]
             /\ UNCHANGED <<entries, byVault, ent>>
          \/ /\ ~Refused(p) /\ e # 0 /\ ent[e].state = "opening"
             /\ proc' = [proc EXCEPT ![p].pc = "waitReady", ![p].e = e]
             /\ UNCHANGED <<entries, byVault, ent>>
          \/ /\ ~Refused(p) /\ e # 0 /\ ent[e].state = "open"
             /\ ent' = [ent EXCEPT ![e] = AddRef([@ EXCEPT !.draining = FALSE, !.auto = FALSE], TRUE)]
             /\ proc' = [q \in Procs |->
                           IF q = p THEN Holding(proc[p], e, TRUE)
                           ELSE IF ent[e].auto THEN Unretired(proc[q], e) ELSE proc[q]]
             /\ UNCHANGED <<entries, byVault>>
          \/ /\ ~Refused(p) /\ e = 0
             /\ LET f == FreeEntry
                IN /\ entries' = [entries EXCEPT ![u] = f]
                   /\ byVault' = [byVault EXCEPT ![v] = f]
                   /\ ent' = [ent EXCEPT ![f] = [Gone EXCEPT !.state = "opening", !.user = u,
                                                            !.vault = v, !.key = k]]
                   /\ proc' = [proc EXCEPT ![p].pc = "opening", ![p].e = f]

\* <-done: the previous instance is destroyed, try again.
RetiredGone(p) ==
    /\ proc[p].pc = "waitRetired"
    /\ ent[proc[p].e].state = "gone"
    /\ proc' = [proc EXCEPT ![p].pc = "acquire", ![p].e = 0]
    /\ UNCHANGED <<entries, byVault, ent, closing>>

\* What a waiter re-reads after <-ready, before it may take a reference.
StillOpen(e) == ~closing /\ Mapped(e) /\ ~ent[e].draining /\ ent[e].state = "open"

OpenedByOther(p) ==
    LET e == proc[p].e
    IN /\ proc[p].pc = "waitReady"
       /\ ent[e].state # "opening"
       /\ IF StillOpen(e)
          THEN /\ ent' = [ent EXCEPT ![e] = AddRef(@, TRUE)]
               /\ proc' = [proc EXCEPT ![p] = Holding(@, e, TRUE)]
          ELSE Leave(p) /\ UNCHANGED ent
       /\ UNCHANGED <<entries, byVault, closing>>

\* The entry an opener leaves behind when it failed and nobody drains it.
OpenFailed(e) == Gone

Unmap(e) ==
    /\ entries' = [u \in Users |-> IF entries[u] = e THEN 0 ELSE entries[u]]
    /\ byVault' = [v \in Vaults |-> IF byVault[v] = e THEN 0 ELSE byVault[v]]

\* The opener failed, or opened the database; a drain or shutdown that came
\* meanwhile makes this goroutine the closer of the entry.
finishOpening(p, ok) ==
    LET e == proc[p].e
        terminal == ent[e].draining \/ closing
    IN /\ proc[p].pc = "opening"
       /\ ok => KeyOf[ent[e].vault] = ent[e].key
       /\ UNCHANGED closing
       /\ IF terminal
          THEN /\ ent' = [ent EXCEPT ![e].state = IF ok THEN "open" ELSE "failed"]
               /\ proc' = [proc EXCEPT ![p] = [Idle EXCEPT !.pc = "close", !.e = e, !.todo = {e}]]
               /\ UNCHANGED <<entries, byVault>>
          ELSE IF ok
          THEN /\ ent' = [ent EXCEPT ![e] = AddRef([@ EXCEPT !.state = "open"], TRUE)]
               /\ proc' = [proc EXCEPT ![p] = Holding(@, e, TRUE)]
               /\ UNCHANGED <<entries, byVault>>
          ELSE /\ ent' = [ent EXCEPT ![e] = OpenFailed(e)]
               /\ Leave(p)
               /\ Unmap(e)

-----------------------------------------------------------------------------
(* Leases                                                                    *)

\* Borrow's check of the table under the lock.
MayBorrow(e) == ~closing /\ Mapped(e) /\ ~ent[e].draining /\ ent[e].state = "open"

\* Goroutine q takes a request lease from the session lease p holds.
Borrow(p, q) ==
    LET e == proc[p].e
    IN /\ proc[p].pc = "lease" /\ proc[p].root
       /\ proc[q].pc = "idle"
       /\ MayBorrow(e)
       /\ ent' = [ent EXCEPT ![e] = AddRef(@, FALSE)]
       /\ proc' = [proc EXCEPT ![q] = Holding(Idle, e, FALSE)]
       /\ UNCHANGED <<entries, byVault, closing>>

\* Goroutine q reserves the vault p's session holds for a restore.
BeginRestore(p, q) ==
    LET e == proc[p].e
    IN /\ proc[p].pc = "lease" /\ proc[p].root
       /\ proc[q].pc = "idle"
       /\ MayBorrow(e)
       /\ ent' = [ent EXCEPT ![e] = [AddRef(@, FALSE) EXCEPT !.draining = TRUE]]
       /\ proc' = [proc EXCEPT ![q] = [Holding(Idle, e, FALSE) EXCEPT !.pc = "restore"]]
       /\ UNCHANGED <<entries, byVault, closing>>

\* waitForReferences returned nil and the instance was read.
SoleReference(e) == ent[e].refs <= 1 /\ ent[e].state = "open"

RestoreRuns(p) ==
    /\ proc[p].pc = "restore"
    /\ SoleReference(proc[p].e)
    /\ Goto(p, "restoring")
    /\ UNCHANGED <<entries, byVault, ent, closing>>

\* What a release does to the entry: the last session lease starts retirement.
Released(x, root) ==
    LET y == [x EXCEPT !.refs = @ - 1, !.roots = IF root THEN @ - 1 ELSE @]
    IN IF root /\ y.roots = 0 /\ ~x.draining
       THEN [y EXCEPT !.draining = TRUE, !.auto = TRUE] ELSE y

\* Release of a lease or of a restore operation (done, failed or cancelled); the
\* last reference closes idle, and closes the entry if it is draining.
Release(p) ==
    LET e == proc[p].e
        x == Released(ent[e], proc[p].root)
    IN /\ proc[p].pc \in {"lease", "restore", "restoring"}
       /\ proc[p].pc = "restore" => p \in Cancellable
       /\ ent' = [ent EXCEPT ![e] = x]
       /\ proc' = [q \in Procs |->
                     IF q = p
                     THEN IF x.refs = 0 /\ x.draining
                          THEN [Idle EXCEPT !.pc = "close", !.e = e, !.todo = {e}] ELSE Idle
                     ELSE IF x.refs = 0 /\ proc[q].e = e /\ proc[q].pc = "waitIdle"
                     THEN [proc[q] EXCEPT !.pc = "idled"] ELSE proc[q]]
       /\ UNCHANGED <<entries, byVault, closing>>

-----------------------------------------------------------------------------
(* Closing                                                                   *)

Drained(x) == [x EXCEPT !.draining = TRUE, !.auto = FALSE]

\* BeginUserDrain and its waiter; a user without an entry gets a no-op waiter.
BeginUserDrain(p, u) ==
    LET e == entries[u]
    IN /\ proc[p].pc = "idle"
       /\ e # 0
       /\ ent' = [ent EXCEPT ![e] = Drained(@)]
       /\ proc' = [proc EXCEPT ![p] = [Idle EXCEPT !.pc = "close", !.e = e, !.todo = {e}, !.ctx = TRUE]]
       /\ UNCHANGED <<entries, byVault, closing>>

Close(p) ==
    LET all == {e \in EntryIds : Mapped(e)}
    IN /\ proc[p].pc = "idle"
       /\ closing' = TRUE
       /\ ent' = [e \in EntryIds |-> IF e \in all THEN Drained(ent[e]) ELSE ent[e]]
       /\ \/ all = {} /\ UNCHANGED proc
          \/ \E e \in all :
                proc' = [proc EXCEPT ![p] = [Idle EXCEPT !.pc = "close", !.e = e, !.todo = all, !.ctx = TRUE]]
       /\ UNCHANGED <<entries, byVault>>

\* closeEntry returns; Close goes on with the entries it has left.
Return(p) ==
    LET rest == proc[p].todo \ {proc[p].e}
    IN IF rest = {} THEN Leave(p)
       ELSE \E e \in rest : proc' = [proc EXCEPT ![p] = [@ EXCEPT !.pc = "close", !.e = e, !.todo = rest]]

\* The head of closeEntry's loop.
CloseEntry(p) ==
    LET e == proc[p].e
    IN /\ proc[p].pc = "close"
       /\ IF ~Mapped(e) \/ ~ent[e].draining THEN Return(p)
          ELSE Goto(p, CASE ent[e].state = "opening" -> "waitOpened"
                         [] ent[e].state = "closing" -> "waitClosed"
                         [] OTHER -> IF ent[e].refs = 0 THEN "idled" ELSE "waitIdle")
       /\ UNCHANGED <<entries, byVault, ent, closing>>

CloseWaits(p) ==
    LET e == proc[p].e
    IN /\ \/ proc[p].pc = "waitOpened" /\ ent[e].state # "opening" /\ Goto(p, "close")
          \/ proc[p].pc = "waitClosed" /\ ent[e].state = "gone" /\ Return(p)
       /\ UNCHANGED <<entries, byVault, ent, closing>>

\* After <-idle: read what kind of closing this is, then drain background work.
CloseReads(p) ==
    LET e == proc[p].e
    IN /\ proc[p].pc = "idled"
       /\ proc' = [proc EXCEPT ![p] = [@ EXCEPT !.pc = "drained", !.fresh = TRUE,
              !.auto = ent[e].auto /\ ent[e].refs = 0 /\ ent[e].state # "closing"]]
       /\ UNCHANGED <<entries, byVault, ent, closing>>

CloserYields(p) == ~proc[p].fresh \/ ~ent[proc[p].e].auto

\* Retirement was cancelled by a fresh login, or taken over by a drain.
RetirementOver(p) == proc[p].auto /\ (~proc[p].fresh \/ ~ent[proc[p].e].auto)

CloseWithLeases(e) == Mapped(e) /\ ent[e].draining /\ ent[e].state \in {"open", "failed"}

\* The last check before the instance is taken away.
MayClose(e) ==
    /\ Mapped(e) /\ ent[e].draining /\ ent[e].state \in {"open", "failed"}
    /\ ent[e].refs = 0

CloseCommits(p) ==
    LET e == proc[p].e
    IN /\ proc[p].pc = "drained"
       /\ IF RetirementOver(p) THEN Return(p) /\ UNCHANGED ent
          ELSE IF ~MayClose(e) THEN Goto(p, "close") /\ UNCHANGED ent
          ELSE Goto(p, "closing") /\ ent' = [ent EXCEPT ![e].state = "closing"]
       /\ UNCHANGED <<entries, byVault, closing>>

\* instance.Close() has returned.
CloseDone(p) ==
    LET e == proc[p].e
    IN /\ proc[p].pc = "closing"
       /\ ent' = [ent EXCEPT ![e] = Gone]
       /\ Unmap(e)
       /\ Return(p)
       /\ UNCHANGED closing

\* A cancelled context ends the wait, and with it the whole call.
Cancel(p) ==
    /\ p \in Cancellable /\ proc[p].ctx
    /\ \/ proc[p].pc \in {"waitOpened", "waitClosed", "waitIdle", "idled"}
       \/ proc[p].pc = "drained" /\ proc[p].auto
    /\ Leave(p)
    /\ UNCHANGED <<entries, byVault, ent, closing>>

-----------------------------------------------------------------------------

Progress(p) ==
    \/ Acquire(p) \/ RetiredGone(p) \/ OpenedByOther(p)
    \/ finishOpening(p, TRUE) \/ finishOpening(p, FALSE)
    \/ RestoreRuns(p)
    \/ CloseEntry(p) \/ CloseWaits(p) \/ CloseReads(p) \/ CloseCommits(p) \/ CloseDone(p)

Next ==
    \E p \in Procs :
        \/ \E u \in Users, v \in Vaults, k \in Keys : StartAcquire(p, u, v, k)
        \/ \E q \in Procs : Borrow(p, q) \/ BeginRestore(p, q)
        \/ \E u \in Users : BeginUserDrain(p, u)
        \/ Progress(p) \/ Release(p) \/ Close(p) \/ Cancel(p)

Spec == Init /\ [][Next]_vars

\* A goroutine that can run does, an opener returns, and sessions and requests
\* end: every lease is released.
Fairness == \A p \in Procs : WF_vars(Progress(p) \/ Release(p))

FairSpec == Spec /\ Fairness

-----------------------------------------------------------------------------

Holders(e) == {p \in Procs : proc[p].e = e /\ proc[p].pc \in {"lease", "restore", "restoring"}}

Entry == [state : EntryStates, user : Users \cup {None}, vault : Vaults \cup {None}, key : Keys \cup {None},
          refs : Nat, roots : Nat, draining : BOOLEAN, auto : BOOLEAN]
Call == [pc : {"idle", "acquire", "waitRetired", "waitReady", "opening", "lease", "restore", "restoring",
               "close", "waitOpened", "waitClosed", "waitIdle", "idled", "drained", "closing"},
         e : EntryIds \cup {0}, todo : SUBSET EntryIds, root : BOOLEAN,
         user : Users \cup {None}, vault : Vaults \cup {None}, key : Keys \cup {None},
         auto : BOOLEAN, fresh : BOOLEAN, ctx : BOOLEAN]

\* Every variable keeps the type its declaration above gives it.
TypeOK ==
    /\ entries \in [Users -> EntryIds \cup {0}]
    /\ byVault \in [Vaults -> EntryIds \cup {0}]
    /\ ent \in [EntryIds -> Entry]
    /\ closing \in BOOLEAN
    /\ proc \in [Procs -> Call]

\* One database instance per vault: from the reservation in Acquire until Close has
\* returned, no second entry opens the same vault file or serves the same user.
OneInstancePerVault ==
    \A e, f \in EntryIds :
        e # f /\ ent[e].state # "gone" /\ ent[f].state # "gone" =>
            ent[e].vault # ent[f].vault /\ ent[e].user # ent[f].user

\* A lease that is not released has its open instance: nobody closes the database or
\* destroys its key under a request, a session or a restore, and a restore has it alone.
LeaseKeepsInstance ==
    \A p \in Procs :
        /\ proc[p].pc \in {"lease", "restore", "restoring"} =>
               ent[proc[p].e].state = "open" /\ Mapped(proc[p].e)
        /\ proc[p].pc = "restoring" => Holders(proc[p].e) = {p}

\* p drains e: for a change of the account or the shutdown, in a context that is not
\* cancelled, or for a restore.
Drains(p, e) ==
    \/ e \in proc[p].todo /\ proc[p].ctx /\ p \notin Cancellable
    \/ e = proc[p].e /\ proc[p].pc \in {"restore", "restoring"}

\* A drain that was started ends with the entry closed and forgotten, so that the user can
\* log in again, whatever retirements and other drains, cancelled or not, it meets; a restore
\* does so even when it is cancelled itself (for other drains that is DrainHasCloser).
DrainCompletes ==
    \A u \in Users :
        entries[u] # 0 /\ (\E p \in Procs : Drains(p, entries[u])) ~> entries[u] = 0

\* What finishDrain relies on when its request is cancelled ("the final outstanding
\* vault lease release completes the already-started drain"): as long as the server
\* runs, a drained entry that has no lease left has a goroutine closing it.
DrainHasCloser ==
    \A e \in EntryIds :
        Mapped(e) /\ ent[e].draining /\ ~ent[e].auto /\ ent[e].refs = 0 /\ ~closing =>
            \E p \in Procs : proc[p].e = e /\ (proc[p].pc = "opening" \/ e \in proc[p].todo)
=============================================================================
