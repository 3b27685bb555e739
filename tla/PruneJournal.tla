---------------------------- MODULE PruneJournal ----------------------------
(***************************************************************************)
(* The snapshot directory of a vault (database.go): createSnapshot moves   *)
(* the oldest generations aside, journals them, publishes the new one and  *)
(* only then deletes them; every later creation, listing and start of the  *)
(* vault first completes or undoes what an earlier one left.  A process or *)
(* power failure may come at every step, an I/O error in every one.        *)
(*                                                                         *)
(* A generation is its name, whose order is that of the timestamp in it; a *)
(* name is never used twice.  crash is the set of directories a power      *)
(* failure may leave: the operations since the last sync happened up to    *)
(* some point, as a journaling file system orders them.  The directory     *)
(* lock is held throughout an operation.  Staging, sidecar and temporary   *)
(* files are left out: none of them is read before it is complete.         *)
(*                                                                         *)
(* Creations, listings and restores hold the one snapshot validation slot  *)
(* of the process, and the automatic worker holds it until it has pruned.  *)
(***************************************************************************)
EXTENDS Naturals, FiniteSetsExt

CONSTANTS
    Gens,       \* the names of generations, natural numbers
    Size,       \* their sizes, each of which the budget admits
    MaxKeep,    \* generations kept (30)
    Budget,     \* SNAPSHOT_MAX_TOTAL_BYTES
    None,
    MaxFaults   \* bound on failures and I/O errors

VARIABLES
    fs,       \* the directory: public and hidden generations and the journal
    crash,    \* what a power failure may leave of it
    pc,
    op,       \* what runs: create, list, start
    why,      \* why it rolls back or goes forward
    todo,     \* artifacts its loop has yet to handle
    errs,     \* an error its loop went on after
    changed,  \* its loop changed the directory
    target,   \* the generation being published
    victims,  \* the generations it takes the place of
    base,     \* the generations certain to be there when it began, or answered since
    used,     \* names given out
    faults

control == <<pc, op, why, todo, errs, changed>>
ghosts  == <<target, victims, base, used>>
vars    == <<fs, crash, control, ghosts, faults>>

NoJournal == [phase |-> "none", target |-> None, victims |-> {}]
Journal   == [phase : {"none", "prepared", "published"}, target : Gens \cup {None}, victims : SUBSET Gens]
Directory == [pub : SUBSET Gens, hid : SUBSET Gens, journal : Journal]

All(d) == d.pub \cup d.hid

Init ==
    /\ fs = [pub |-> {}, hid |-> {}, journal |-> NoJournal]
    /\ crash = {fs}
    /\ pc = "down" /\ op = "start" /\ why = "forward" /\ todo = {} /\ errs = FALSE /\ changed = FALSE
    /\ target = None /\ victims = {} /\ base = {} /\ used = {}
    /\ faults = 0

-----------------------------------------------------------------------------
(* Directory operations                                                      *)

HideByUnlink(g, d) == [d EXCEPT !.pub = @ \ {g}]

Hide(g, d) == [d EXCEPT !.pub = @ \ {g}, !.hid = @ \cup {g}]
Restore(g, d) == [d EXCEPT !.pub = @ \cup {g}, !.hid = @ \ {g}]
Unlink(g, d) == [d EXCEPT !.hid = @ \ {g}]
Delete(g, d) == [d EXCEPT !.pub = @ \ {g}]
Publish(g, d) == [d EXCEPT !.pub = @ \cup {g}]
Write(j, d) == [d EXCEPT !.journal = j]

Unsynced(d) == fs' = d /\ crash' = crash \cup {d}
Synced      == crash' = {fs} /\ UNCHANGED fs
Untouched   == UNCHANGED <<fs, crash>>

Fault == faults < MaxFaults /\ faults' = faults + 1
Fine  == UNCHANGED faults

Goto(p) == pc' = p /\ UNCHANGED <<op, why, todo, errs, changed>>

\* An error ends the operation; a vault whose start fails is not open.
Failed ==
    /\ pc' = IF op = "start" THEN "down" ELSE "idle"
    /\ UNCHANGED <<op, why, todo, errs, changed>>

Loop(p, w, set) == pc' = p /\ why' = w /\ todo' = set /\ errs' = FALSE /\ changed' = FALSE /\ UNCHANGED op

Done(g) == todo' = todo \ {g} /\ changed' = (changed \/ fs' # fs) /\ UNCHANGED <<pc, op, why>>

\* A loop that changed nothing has nothing to sync.
SyncedIfChanged == IF changed THEN Synced ELSE Untouched

-----------------------------------------------------------------------------
(* Beginnings                                                                *)

\* recoverSnapshotPruneTransactionAtStart, or the journal that
\* cleanupSnapshotPruneArtifacts finds, comes first.
Begin(o) ==
    /\ pc = IF o = "start" THEN "down" ELSE "idle"
    /\ o = "create" => used # Gens
    /\ op' = o
    /\ IF fs.journal.phase # "none"
       THEN pc' = "recover" /\ todo' = {}
       ELSE IF o = "create"
       THEN pc' = "plan" /\ todo' = {}
       ELSE pc' = "restore" /\ todo' = fs.hid
    /\ errs' = FALSE /\ changed' = FALSE
    /\ Untouched /\ Fine
    /\ UNCHANGED <<why, ghosts>>

\* recoverSnapshotPruneManifest; a published target that is gone is an error.
Resolution(j) ==
    IF j.target \in fs.pub
    THEN IF j.phase = "prepared" THEN "mark" ELSE "finalize"
    ELSE IF j.phase = "prepared" THEN "rollback" ELSE "error"

Recover ==
    LET j == fs.journal
    IN /\ pc = "recover"
       /\ IF Resolution(j) = "error" THEN Failed ELSE Loop(Resolution(j), "resume", j.victims)
       /\ Untouched /\ Fine
       /\ UNCHANGED ghosts

-----------------------------------------------------------------------------
(* createSnapshot                                                            *)

Total(set) == MapThenSumSet(LAMBDA x : Size[x], set)

Fits(kept, g) == Cardinality(kept) + 1 <= MaxKeep /\ Total(kept) + Size[g] <= Budget

\* Oldest first, until the rest and the new generation fit.
planSnapshotQuarantine(g) == {v \in fs.pub : ~Fits({x \in fs.pub : x >= v}, g)}

\* The staged image is complete, validated and synced; its name is that of the clock.
Plan(g) ==
    /\ pc = "plan"
    /\ g \notin used
    /\ used' = used \cup {g}
    /\ target' = g
    /\ base' = {x \in Gens : \A d \in crash : x \in All(d)}
    /\ victims' = planSnapshotQuarantine(g)
    /\ Loop(IF victims' = {} THEN "publish" ELSE "hide", "forward", victims')
    /\ Untouched /\ Fine

PlanFails ==
    /\ pc = "plan"
    /\ Fault /\ Failed
    /\ Untouched
    /\ UNCHANGED ghosts

RollBack(w, set) == Loop("rollback", w, set) /\ UNCHANGED ghosts

\* applySnapshotQuarantine: the error of one rename undoes those before it.
HideVictim ==
    /\ pc = "hide" /\ todo # {}
    /\ LET g == Min(todo)
       IN \/ /\ Unsynced(Hide(g, fs)) /\ Fine
             /\ Done(g) /\ UNCHANGED <<errs, ghosts>>
          \/ /\ Fault /\ Untouched
             /\ RollBack("abandon", {v \in victims : v <= g})

SyncHidden ==
    /\ pc = "hide" /\ todo = {}
    /\ \/ Synced /\ Fine /\ Goto("journal") /\ UNCHANGED ghosts
       \/ Fault /\ Untouched /\ RollBack("abandon", victims)

\* createSnapshotPruneManifest: a synced temporary, renamed without replacing.
WriteJournal ==
    /\ pc = "journal"
    /\ \/ /\ Unsynced(Write([phase |-> "prepared", target |-> target, victims |-> victims], fs))
          /\ Fine /\ Goto("journaled") /\ UNCHANGED ghosts
       \/ Fault /\ Untouched /\ RollBack("abandon", victims)

SyncJournal ==
    /\ pc = "journaled"
    /\ \/ Synced /\ Fine /\ Goto("publish") /\ UNCHANGED ghosts
       \/ Fault /\ Untouched /\ RollBack("abandon", victims)

\* The request may also be cancelled here.
PublishSnapshot ==
    /\ pc = "publish"
    /\ \/ Unsynced(Publish(target, fs)) /\ Fine /\ Goto("published") /\ UNCHANGED ghosts
       \/ /\ Fault /\ Untouched
          /\ IF victims = {} THEN Failed /\ UNCHANGED ghosts ELSE RollBack("abort", victims)

\* What was published is not what was staged, or the directory cannot be synced.
SyncPublished ==
    /\ pc = "published"
    /\ \/ /\ Synced /\ Fine
          /\ Loop(IF victims = {} THEN "answer" ELSE "mark", "forward", victims)
       \/ Fault /\ Failed /\ Untouched
       \/ Fault /\ Failed /\ Unsynced(Delete(target, fs))
    /\ UNCHANGED ghosts

AsPublished(j) == [j EXCEPT !.phase = "published"]

\* writeSnapshotPruneManifest with phase published.
MarkPublished ==
    /\ pc = "mark"
    /\ \/ Unsynced(Write(AsPublished(fs.journal), fs)) /\ Fine /\ Goto("marked")
       \/ Fault /\ Failed /\ Untouched
    /\ UNCHANGED ghosts

SyncMarked ==
    /\ pc = "marked"
    /\ \/ Synced /\ Fine /\ Goto("finalize")
       \/ Fault /\ Failed /\ Untouched
    /\ UNCHANGED ghosts

\* finalizeSnapshotPruneArtifact: an original that is there again is an error.
FinalizeVictim ==
    /\ pc = "finalize" /\ todo # {}
    /\ LET g == Min(todo)
       IN /\ \/ /\ Fine
                /\ IF g \in fs.hid /\ g \notin fs.pub THEN Unsynced(Unlink(g, fs)) ELSE Untouched
                /\ errs' = (errs \/ g \in fs.pub)
             \/ Fault /\ Untouched /\ errs' = TRUE
          /\ Done(g)
    /\ UNCHANGED ghosts

SyncFinalized ==
    /\ pc = "finalize" /\ todo = {}
    /\ \/ SyncedIfChanged /\ Fine /\ IF errs THEN Failed ELSE Goto("unjournal")
       \/ changed /\ Fault /\ Failed /\ Untouched
    /\ UNCHANGED ghosts

RemoveJournal ==
    /\ pc = "unjournal"
    /\ \/ Unsynced(Write(NoJournal, fs)) /\ Fine /\ Goto("unjournaled")
       \/ Fault /\ Failed /\ Untouched
    /\ UNCHANGED ghosts

\* Where the operation goes on once the journal is resolved.
SyncUnjournaled ==
    /\ pc = "unjournaled"
    /\ \/ /\ Synced /\ Fine
          /\ CASE why = "abort"   -> Failed
               [] why = "forward" -> Goto("answer")
               [] why = "resume"  -> Goto(IF op = "create" THEN "plan" ELSE "idle")
       \/ Fault /\ Failed /\ Untouched
    /\ UNCHANGED ghosts

\* A request has its answer; the automatic worker goes on to cleanOldSnapshots and
\* still has the validation slot, so that no other operation comes in between.
Answer ==
    /\ pc = "answer"
    /\ Goto("idle") \/ Goto("clean")
    /\ base' = (base \ victims) \cup {target} /\ victims' = {}
    /\ Untouched /\ Fine
    /\ UNCHANGED <<target, used>>

-----------------------------------------------------------------------------
(* rollbackSnapshotQuarantine                                                *)

\* An artifact that is at neither name is an error, and the journal stays.
RollbackVictim ==
    /\ pc = "rollback" /\ todo # {}
    /\ LET g == Max(todo)
       IN /\ \/ /\ Fine
                /\ IF g \in fs.hid /\ g \notin fs.pub THEN Unsynced(Restore(g, fs)) ELSE Untouched
                /\ errs' = (errs \/ (g \in fs.hid <=> g \in fs.pub))
             \/ Fault /\ Untouched /\ errs' = TRUE
          /\ Done(g)
    /\ UNCHANGED ghosts

SyncRolledBack ==
    /\ pc = "rollback" /\ todo = {}
    /\ \/ Synced /\ Fine /\ IF errs \/ why = "abandon" THEN Failed ELSE Goto("unjournal")
       \/ Fault /\ Failed /\ Untouched
    /\ UNCHANGED ghosts

-----------------------------------------------------------------------------
(* cleanupSnapshotPruneArtifacts without a journal                           *)

RestoreHidden ==
    /\ pc = "restore" /\ todo # {}
    /\ LET g == Min(todo)
       IN /\ \/ /\ Fine
                /\ IF g \notin fs.pub THEN Unsynced(Restore(g, fs)) ELSE Untouched
                /\ errs' = (errs \/ g \in fs.pub)
             \/ Fault /\ Untouched /\ errs' = TRUE
          /\ Done(g)
    /\ UNCHANGED ghosts

SyncRestored ==
    /\ pc = "restore" /\ todo = {}
    /\ \/ SyncedIfChanged /\ Fine /\ IF errs THEN Failed ELSE Goto("idle")
       \/ changed /\ Fault /\ Failed /\ Untouched
    /\ UNCHANGED ghosts

\* The loops of a listing stop when its request is cancelled.
CancelList ==
    /\ pc \in {"restore", "finalize"} /\ op = "list"
    /\ Fault /\ Failed /\ Untouched
    /\ UNCHANGED ghosts

-----------------------------------------------------------------------------
(* cleanOldSnapshots, by the automatic worker                                *)

Within(set) == Cardinality(set) <= MaxKeep /\ Total(set) <= Budget

\* The oldest are deleted until the rest is within both limits.
pruneSnapshots(d) == [d EXCEPT !.pub = {x \in @ : Within({y \in d.pub : y >= x})}]

\* Deletions and sync are one step: RetentionAtomic says that there are none.
CleanOldSnapshots ==
    /\ pc = "clean"
    /\ Goto("idle")
    /\ \/ fs' = pruneSnapshots(fs) /\ crash' = (IF fs' = fs THEN crash ELSE {fs'}) /\ Fine
       \/ Fault /\ Untouched
    /\ base' = base \ (fs.pub \ fs'.pub)
    /\ UNCHANGED <<target, victims, used>>

-----------------------------------------------------------------------------
(* Failures                                                                  *)

ProcessDies == pc # "down" /\ Untouched /\ Fault
PowerFails  == (\E d \in crash : fs' = d /\ crash' = {d}) /\ Fault

Crash ==
    /\ ProcessDies \/ PowerFails
    /\ pc' = "down"
    /\ UNCHANGED <<op, why, todo, errs, changed, target, victims, base, used>>

Next ==
    \/ \E o \in {"create", "list", "start"} : Begin(o)
    \/ Recover
    \/ \E g \in Gens : Plan(g)
    \/ PlanFails \/ HideVictim \/ SyncHidden \/ WriteJournal \/ SyncJournal
    \/ PublishSnapshot \/ SyncPublished \/ MarkPublished \/ SyncMarked
    \/ FinalizeVictim \/ SyncFinalized \/ RemoveJournal \/ SyncUnjournaled \/ Answer
    \/ RollbackVictim \/ SyncRolledBack \/ RestoreHidden \/ SyncRestored \/ CancelList
    \/ CleanOldSnapshots \/ Crash

Spec == Init /\ [][Next]_vars

-----------------------------------------------------------------------------

\* The directory and the control state have their types.
TypeOK ==
    /\ fs \in Directory /\ crash \subseteq Directory /\ fs \in crash
    /\ todo \subseteq Gens /\ victims \subseteq Gens /\ base \subseteq Gens /\ used \subseteq Gens
    /\ target \in Gens \cup {None} /\ faults \in 0..MaxFaults
    /\ errs \in BOOLEAN /\ changed \in BOOLEAN

\* A directory that recovery can complete.
Completable(d) ==
    LET j == d.journal
    IN /\ d.pub \cap d.hid = {}
       /\ j.phase = "published" => j.target \in d.pub
       /\ j.phase # "none" => IF j.target \in d.pub THEN j.victims \cap d.pub = {}
                              ELSE j.victims \subseteq All(d)

\* Whatever a failure leaves, the generations that were there are there, or the new one
\* is public and only what it takes the place of is missing; a creation that answers is
\* durable and leaves the directory within both limits, and still so when its worker prunes,
\* which resolves no journal and must find none.  Recovery can complete it: a journal
\* without its published target has every victim at exactly one of its names, one with it has
\* none back at its public name, and a journal marked published has its target.
RetentionAtomic ==
    /\ \A d \in crash : Completable(d)
    /\ \A d \in crash : base \subseteq All(d) \/ (target \in d.pub /\ base \ victims \subseteq All(d))
    /\ pc \in {"answer", "clean"} =>
          Within(fs.pub) /\ \A d \in crash : target \in d.pub /\ d.journal = NoJournal

=============================================================================
