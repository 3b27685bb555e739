-------------------------- MODULE TransactionSaves --------------------------
(***************************************************************************)
(* The durable save queue of one user vault: the receipts of               *)
(* core/transaction_saves.go, the instance-owned worker of                 *)
(* database/transaction_save_worker.go that applies them, and the events   *)
(* that interrupt it: lost replies, storage errors, process death, an      *)
(* orderly close, a snapshot restore.                                      *)
(*                                                                         *)
(* rows and ledger are what is on disk.  One SQL transaction is one step:  *)
(* beginLedgerWrite reserves SQLite's single writer before it reads.       *)
(***************************************************************************)
EXTENDS Naturals, Sequences, FiniteSets, FiniteSetsExt

CONSTANTS
    Ids,             \* operation UUIDs
    Contents,        \* what a request asks for (the payload its hash stands for)
    None,            \* no request / no content
    Size,            \* payload size of a content
    maxPendingSaves,
    maxPendingSaveBytes,
    MaxFaults,       \* bound: storage errors and process deaths
    MaxImages        \* bound: snapshots taken

ASSUME IdsAssumption == IsFiniteSet(Ids) /\ None \notin Ids
ASSUME ContentsAssumption == None \notin Contents /\ Size \in [Contents -> Nat]
ASSUME BoundsAssumption ==
    /\ maxPendingSaves \in Nat /\ maxPendingSaveBytes \in Nat
    /\ MaxFaults \in Nat /\ MaxImages \in Nat

VARIABLES
    rows,         \* transaction_save_requests, by request_id
    ledger,       \* the ledger mutations requests made, oldest first
    images,       \* snapshots of the vault: the queue and the ledger together
    phase,        \* the instance: "down", "open" (no worker registered), "serving"
    closing,      \* ledgerWork.closing
    pendingWake,  \* ledgerWork.pending
    pc,           \* the worker goroutine; "off" when ledgerWork.running is FALSE
    cur,          \* the request the worker has read
    waiting,      \* requests whose handler has committed and not yet answered
    acked,        \* receipts answered with 202 on the current timeline
    conflicts,    \* requests answered with 409 on the current timeline
    stalled,      \* a storage error ended a run, or kept a handler from waking one
    faults

disk     == <<rows, ledger>>
worker   == <<pc, cur, pendingWake>>
clients  == <<waiting, acked, conflicts>>
vars     == <<disk, images, phase, closing, worker, clients, stalled, faults>>

States == {"none", "pending", "completed", "failed"}
NoRow  == [state |-> "none", content |-> None, payload |-> FALSE, rowid |-> 0]
Row    == [state : States, content : Contents \cup {None}, payload : BOOLEAN, rowid : Nat]
Entry  == [id : Ids, content : Contents]
Image  == [rows : [Ids -> Row], ledger : Seq(Entry)]

Stored   == {i \in Ids : rows[i].state # "none"}
Pending  == {i \in Ids : rows[i].state = "pending"}
Retained == {i \in Ids : rows[i].payload}

Init ==
    /\ rows = [i \in Ids |-> NoRow]
    /\ ledger = <<>>
    /\ images = {}
    /\ phase = "down"
    /\ closing = FALSE
    /\ pendingWake = FALSE
    /\ pc = "off"
    /\ cur = None
    /\ waiting = {}
    /\ acked = {}
    /\ conflicts = {}
    /\ stalled = FALSE
    /\ faults = 0

-----------------------------------------------------------------------------
(* The wake-up of the worker.                                              *)

WakeStartsOnly ==
    /\ pendingWake' = IF closing \/ pc # "off" THEN pendingWake ELSE TRUE
    /\ pc' = IF closing \/ pc # "off" THEN pc ELSE "loop"
    /\ stalled' = FALSE

\* Callers hold a registered worker, so work is not nil.
WakeLedgerWorker ==
    /\ pendingWake' = (pendingWake \/ ~closing)
    /\ pc' = IF closing \/ pc # "off" THEN pc ELSE "loop"
    /\ stalled' = (stalled /\ closing)

\* A handler holds a lease on the vault, so it never runs while the vault closes.
Serving == phase = "serving" /\ ~closing

Fault == faults < MaxFaults /\ faults' = faults + 1

-----------------------------------------------------------------------------
(* The operations of the HTTP handlers.                                    *)

AnyHash(id, c) == TRUE

SameHash(id, c) == rows[id].content = c

RetainedBytes == MapThenSumSet(LAMBDA i : Size[rows[i].content], Retained)

HasRoom(c) ==
    /\ Cardinality(Retained) < maxPendingSaves
    /\ RetainedBytes + Size[c] <= maxPendingSaveBytes

\* A full queue (429) and an error before the commit change nothing.
AcceptTransactionSave(id, c) ==
    /\ Serving
    /\ \/ /\ rows[id].state # "none"
          /\ SameHash(id, c)
          /\ waiting' = waiting \cup {[id |-> id, content |-> c]}
          /\ UNCHANGED <<rows, conflicts>>
       \/ /\ rows[id].state # "none"
          /\ ~SameHash(id, c)
          /\ conflicts' = conflicts \cup {[id |-> id, content |-> c]}
          /\ UNCHANGED <<rows, waiting>>
       \/ /\ rows[id].state = "none"
          /\ HasRoom(c)
          /\ rows' = [rows EXCEPT ![id] = [state |-> "pending", content |-> c,
                                           payload |-> TRUE,
                                           rowid |-> Cardinality(Stored) + 1]]
          /\ waiting' = waiting \cup {[id |-> id, content |-> c]}
          /\ UNCHANGED conflicts
    /\ UNCHANGED <<ledger, images, phase, closing, worker, acked, stalled, faults>>

\* The status query, then the wake-up and the 202.
AnswerTransactionSave(r) ==
    /\ r \in waiting
    /\ waiting' = waiting \ {r}
    /\ acked' = acked \cup {r}
    /\ WakeLedgerWorker
    /\ UNCHANGED <<disk, images, phase, closing, cur, conflicts, faults>>

\* The status query fails after the commit: an error is answered and nothing woken.
AnswerStorageError(r) ==
    /\ r \in waiting
    /\ Fault
    /\ waiting' = waiting \ {r}
    /\ stalled' = TRUE
    /\ UNCHANGED <<disk, images, phase, closing, worker, acked, conflicts>>

TransactionSaveStatus(id) ==
    /\ Serving
    /\ rows[id].state = "pending"
    /\ WakeLedgerWorker
    /\ UNCHANGED <<disk, images, phase, closing, cur, clients, faults>>

\* The list of notices holds every retained input: its LIMIT is maxPendingSaves.
TransactionSaveNotices ==
    /\ Serving
    /\ \E i \in Retained : rows[i].state = "pending"
    /\ WakeLedgerWorker
    /\ UNCHANGED <<disk, images, phase, closing, cur, clients, faults>>

Dismissable(id) == rows[id].state = "failed"

DismissFailedTransactionSave(id) ==
    /\ Serving
    /\ Dismissable(id)
    /\ rows' = [rows EXCEPT ![id].payload = FALSE]
    /\ UNCHANGED <<ledger, images, phase, closing, worker, clients, stalled, faults>>

-----------------------------------------------------------------------------
(* The worker.                                                             *)

WorkerLoop ==
    /\ pc = "loop"
    /\ pc' = IF pendingWake THEN "pick" ELSE "off"
    /\ pendingWake' = FALSE
    /\ UNCHANGED <<disk, images, phase, closing, cur, clients, stalled, faults>>

AnyPending(id) == id \in Pending

\* ORDER BY rowid LIMIT 1
OldestPending(id) == id \in Pending /\ \A j \in Pending : rows[id].rowid <= rows[j].rowid

WorkerPick ==
    /\ pc = "pick"
    /\ \/ /\ Pending = {}
          /\ pc' = "loop"
          /\ UNCHANGED cur
       \/ \E id \in Ids : OldestPending(id) /\ cur' = id /\ pc' = "prepare"
    /\ UNCHANGED <<disk, images, phase, closing, pendingWake, clients, stalled, faults>>

\* Decoding, validation and image processing, outside any transaction.
WorkerPrepare ==
    /\ pc = "prepare"
    /\ pc' \in {"apply", "fail"}
    /\ UNCHANGED <<disk, images, phase, closing, cur, pendingWake, clients, stalled, faults>>

FailureOnlyLogged ==
    /\ pc = "fail"
    /\ pc' = "pick"
    /\ UNCHANGED <<disk, images, phase, closing, cur, pendingWake, clients, stalled, faults>>

failTransactionSave ==
    /\ pc = "fail"
    /\ rows' = IF rows[cur].state = "pending"
               THEN [rows EXCEPT ![cur].state = "failed"] ELSE rows
    /\ pc' = "pick"
    /\ UNCHANGED <<ledger, images, phase, closing, cur, pendingWake, clients, stalled, faults>>

Completed(row) == [row EXCEPT !.state = "completed", !.payload = FALSE]

\* The mutation, then the marker in a transaction of its own.
ApplyThenMark ==
    /\ pc = "apply"
    /\ ledger' = Append(ledger, [id |-> cur, content |-> rows[cur].content])
    /\ \/ rows' = [rows EXCEPT ![cur] = Completed(@)] /\ pc' = "pick"
       \/ UNCHANGED rows /\ pc' = "loop"
    /\ UNCHANGED <<images, phase, closing, cur, pendingWake, clients, stalled, faults>>

\* One SQL transaction: recheck, mutate the ledger, mark completed, commit; or
\* roll back on a rejected mutation or an oversized result and record the failure.
processTransactionSave ==
    /\ pc = "apply"
    /\ IF rows[cur].state = "pending"
       THEN \/ /\ ledger' = Append(ledger, [id |-> cur, content |-> rows[cur].content])
               /\ rows' = [rows EXCEPT ![cur] = Completed(@)]
               /\ pc' = "pick"
            \/ pc' = "fail" /\ UNCHANGED disk
       ELSE pc' = "pick" /\ UNCHANGED disk
    /\ UNCHANGED <<images, phase, closing, cur, pendingWake, clients, stalled, faults>>

\* A failing query, begin, update or commit ends the run; the row stays pending.
WorkerStorageError ==
    /\ pc \in {"pick", "apply", "fail"}
    /\ Fault
    /\ pc' = "loop"
    /\ stalled' = TRUE
    /\ UNCHANGED <<disk, images, phase, closing, cur, pendingWake, clients>>

-----------------------------------------------------------------------------
(* The instance that owns the worker.                                      *)

\* initialize: resetLedgerWork leaves no registered work.
Open ==
    /\ phase = "down"
    /\ phase' = "open"
    /\ UNCHANGED <<disk, images, closing, worker, clients, stalled, faults>>

\* newService registers the first worker, which resumes what an earlier process left.
RegisterLedgerWorker ==
    /\ phase = "open"
    /\ phase' = "serving"
    /\ WakeLedgerWorker
    /\ UNCHANGED <<disk, images, closing, cur, clients, faults>>

\* stopLedgerWork: the owner closes only when no handler holds the vault.
CloseBegin ==
    /\ Serving
    /\ waiting = {}
    /\ closing' = TRUE
    /\ UNCHANGED <<disk, images, phase, worker, clients, stalled, faults>>

CloseEnd ==
    /\ phase = "serving" /\ closing
    /\ pc = "off"
    /\ phase' = "down"
    /\ closing' = FALSE
    /\ pendingWake' = FALSE
    /\ UNCHANGED <<disk, images, pc, cur, clients, stalled, faults>>

\* The process dies: what is on disk survives.
Crash ==
    /\ phase # "down"
    /\ Fault
    /\ phase' = "down"
    /\ closing' = FALSE
    /\ pendingWake' = FALSE
    /\ pc' = "off"
    /\ cur' = None
    /\ waiting' = {}
    /\ UNCHANGED <<disk, images, acked, conflicts, stalled>>

\* A snapshot is a backup of the whole vault database.
TakeSnapshot ==
    /\ phase = "serving"
    /\ Cardinality(images) < MaxImages
    /\ images' = images \cup {[rows |-> rows, ledger |-> ledger]}
    /\ UNCHANGED <<disk, phase, closing, worker, clients, stalled, faults>>

\* The restorer is the only user of the vault and has waited for the worker; the
\* deferred wake-up resumes what the restored queue holds.
RestoreSnapshot(img) ==
    /\ Serving /\ waiting = {} /\ pc = "off"
    /\ rows' = img.rows
    /\ ledger' = img.ledger
    /\ acked' = {} /\ conflicts' = {}
    /\ WakeLedgerWorker
    /\ UNCHANGED <<images, phase, closing, cur, waiting, faults>>

WorkerStep ==
    \/ WorkerLoop \/ WorkerPick \/ WorkerPrepare
    \/ failTransactionSave \/ processTransactionSave

Next ==
    \/ \E id \in Ids, c \in Contents : AcceptTransactionSave(id, c)
    \/ \E r \in waiting : AnswerTransactionSave(r) \/ AnswerStorageError(r)
    \/ \E id \in Ids : TransactionSaveStatus(id) \/ DismissFailedTransactionSave(id)
    \/ TransactionSaveNotices
    \/ WorkerStep \/ WorkerStorageError
    \/ Open \/ RegisterLedgerWorker \/ CloseBegin \/ CloseEnd \/ Crash
    \/ TakeSnapshot
    \/ \E img \in images : RestoreSnapshot(img)

Spec == Init /\ [][Next]_vars

\* The worker is a goroutine the scheduler runs, handlers finish, a closed vault is
\* unlocked again, and the client polls a pending save every 250 ms.
Fairness ==
    /\ WF_vars(WorkerStep)
    /\ WF_vars(\E r \in waiting : AnswerTransactionSave(r))
    /\ WF_vars(Open \/ RegisterLedgerWorker \/ CloseEnd)
    /\ WF_vars(\E id \in Ids : TransactionSaveStatus(id))

FairSpec == Spec /\ Fairness

-----------------------------------------------------------------------------

\* Every variable keeps the type its declaration above gives it.
TypeOK ==
    /\ rows \in [Ids -> Row]
    /\ ledger \in Seq(Entry)
    /\ images \subseteq Image
    /\ phase \in {"down", "open", "serving"}
    /\ closing \in BOOLEAN /\ pendingWake \in BOOLEAN /\ stalled \in BOOLEAN
    /\ pc \in {"off", "loop", "pick", "prepare", "apply", "fail"}
    /\ cur \in Ids \cup {None}
    /\ waiting \subseteq Entry /\ acked \subseteq Entry /\ conflicts \subseteq Entry
    /\ faults \in 0..MaxFaults

\* Exactly once: whatever is retried, interrupted or restored, a request is
\* completed exactly when the ledger holds its mutation, once, with the content the
\* receipt was given for (README "the same ID is handled as the same processing").
ExactlyOnce ==
    /\ \A id \in Ids : rows[id].state = "completed" <=>
          \E k \in DOMAIN ledger : ledger[k].id = id
    /\ \A k \in DOMAIN ledger : ledger[k].content = rows[ledger[k].id].content
    /\ \A k, m \in DOMAIN ledger : ledger[k].id = ledger[m].id => k = m

\* Receipt order: mutations reach the ledger in the order the requests were accepted
\* ("One instance-owned worker processes requests in receipt order").
ReceiptOrder ==
    \A k, m \in DOMAIN ledger :
        k < m => rows[ledger[k].id].rowid < rows[ledger[m].id].rowid

\* A receipt answered with 202 survives everything but a restore to an older image:
\* the row is there, with the content that was acknowledged.
DurableReceipts ==
    \A r \in acked \cup waiting :
        rows[r.id].state # "none" /\ rows[r.id].content = r.content

\* A request refused with 409 is never applied with the refused content.
ConflictsNeverApplied ==
    \A r \in conflicts : \A k \in DOMAIN ledger : ledger[k] # r

\* No lost wake-up: while the vault is open, an accepted request waits for nobody
\* but the worker, unless a storage error stopped the last run.
NoLostWakeup ==
    Serving /\ Pending # {} => pc # "off" \/ waiting # {} \/ stalled

\* Input is never discarded silently: outside a restore, a retained payload goes
\* away only with its completion, or by dismissal after the failure was recorded.
InputKept ==
    [][\A id \in Ids :
          rows[id].payload /\ rows'[id].state # "none" /\ ~rows'[id].payload =>
              rows'[id].state = "completed" \/ rows[id].state = "failed"
              \/ \E img \in images : RestoreSnapshot(img)]_vars

\* The receipts a client can see: a row without its retained payload.
Receipts(table) == [i \in Ids |-> [outcome |-> table[i].state, content |-> table[i].content,
                                   number |-> table[i].rowid]]

Queue == INSTANCE SaveQueue WITH
    Numbers <- 1..Cardinality(Ids),
    receipts <- Receipts(rows),
    past <- {[receipts |-> Receipts(img.rows), ledger |-> img.ledger] : img \in images}

\* The queue on disk, with its worker, wake-ups, crashes and closes, implements the
\* receipts the API documents.
ImplementsQueue == Queue!QueueSpec

\* An accepted request is settled in the end, across crashes, closes and
\* storage errors, as long as the vault is opened again and its client polls.
Settles(id) == rows[id].state = "pending" ~> rows[id].state # "pending"
=============================================================================
