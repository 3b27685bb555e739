----------------------- MODULE TransactionSavesProofs -----------------------
(***************************************************************************)
(* TLAPS proofs about TransactionSaves, for any set of requests and any    *)
(* bounds.  DiskOK is what every SQL transaction preserves on the pair of  *)
(* queue table and ledger; it holds of the live database and of every      *)
(* snapshot, so a restore preserves it too.                                *)
(***************************************************************************)
EXTENDS TransactionSaves, FiniteSetTheorems, TLAPS

StoredIn(t) == {i \in Ids : t[i].state # "none"}

TableOK(t) ==
    /\ t \in [Ids -> Row]
    /\ \A i \in Ids : t[i].state = "none" => t[i] = NoRow
    /\ \A i \in Ids : t[i].state # "none" =>
          t[i].content \in Contents /\ t[i].rowid \in 1..Cardinality(StoredIn(t))
    /\ \A i, j \in Ids : t[i].state # "none" /\ t[i].rowid = t[j].rowid => i = j
    /\ \A i \in Ids : t[i].state = "pending" => t[i].payload

LedgerOK(t, l) ==
    /\ l \in Seq(Entry)
    /\ \A i \in Ids : t[i].state = "completed" <=> \E k \in 1..Len(l) : l[k].id = i
    /\ \A k \in 1..Len(l) : l[k].content = t[l[k].id].content
    /\ \A k, m \in 1..Len(l) : k < m => t[l[k].id].rowid < t[l[m].id].rowid
    /\ \A k \in 1..Len(l), p \in Ids :
          t[p].state = "pending" => t[l[k].id].rowid < t[p].rowid

DiskOK(t, l) == TableOK(t) /\ LedgerOK(t, l)

ReceiptsOK ==
    /\ \A r \in acked \cup waiting :
          rows[r.id].state # "none" /\ rows[r.id].content = r.content
    /\ \A r \in conflicts :
          rows[r.id].state # "none" /\ rows[r.id].content # r.content

WorkerOK ==
    /\ pc \in {"prepare", "apply", "fail"} => OldestPending(cur)
    /\ pc # "off" => phase = "serving"
    /\ phase # "serving" => waiting = {} /\ ~closing
    /\ closing => waiting = {}

WakeupOK ==
    Serving /\ Pending # {} =>
        \/ pc \in {"pick", "prepare", "apply", "fail"}
        \/ pc = "loop" /\ pendingWake
        \/ waiting # {}
        \/ stalled

\* The inductive invariant.
IInv ==
    /\ TypeOK
    /\ DiskOK(rows, ledger)
    /\ \A img \in images : DiskOK(img.rows, img.ledger)
    /\ ReceiptsOK
    /\ WorkerOK
    /\ WakeupOK

-----------------------------------------------------------------------------

\* The stored rows are finite in number and a new one makes them one more.
LEMMA StoredGrows ==
    ASSUME NEW t, NEW u, NEW id \in Ids, t[id].state = "none", u[id].state # "none",
           \A i \in Ids : i # id => u[i].state = t[i].state
    PROVE  /\ Cardinality(StoredIn(t)) \in Nat
           /\ Cardinality(StoredIn(u)) = Cardinality(StoredIn(t)) + 1
<1>1. IsFiniteSet(StoredIn(t))
  BY IdsAssumption, FS_Subset DEF StoredIn
<1>2. StoredIn(u) = StoredIn(t) \cup {id} /\ id \notin StoredIn(t)
  BY DEF StoredIn
<1> QED  BY <1>1, <1>2, FS_AddElement, FS_CardinalityType, Zenon

\* Every ledger entry belongs to a stored request that is completed.
LEMMA LedgerIds ==
    ASSUME NEW t, NEW l, DiskOK(t, l)
    PROVE  \A k \in 1..Len(l) : l[k].id \in Ids /\ t[l[k].id].state = "completed"
<1>1. \A k \in 1..Len(l) : l[k] \in Entry
  BY DEF DiskOK, LedgerOK
<1>2. \A k \in 1..Len(l) : l[k].id \in Ids
  BY <1>1 DEF Entry
<1> QED  BY <1>2 DEF DiskOK, LedgerOK

\* A row that changes state and drops its payload keeps its type.
LEMMA RowUpdate ==
    ASSUME NEW row \in Row, NEW s \in States, NEW new,
           new = [row EXCEPT !.state = s, !.payload = FALSE]
    PROVE  /\ new \in Row /\ new.rowid = row.rowid
           /\ new.content = row.content /\ new.state = s
BY Zenon DEF Row

\* So does one that only drops its payload.
LEMMA RowDismiss ==
    ASSUME NEW row \in Row, NEW new, new = [row EXCEPT !.payload = FALSE]
    PROVE  /\ new \in Row /\ new.rowid = row.rowid
           /\ new.content = row.content /\ new.state = row.state
BY Zenon DEF Row

\* AcceptTransactionSave's INSERT keeps the table and the ledger consistent.
LEMMA InsertOK ==
    ASSUME NEW t, NEW l, DiskOK(t, l), NEW id \in Ids, NEW c \in Contents,
           t[id].state = "none", NEW u,
           u = [t EXCEPT ![id] = [state |-> "pending", content |-> c, payload |-> TRUE,
                                  rowid |-> Cardinality(StoredIn(t)) + 1]]
    PROVE  DiskOK(u, l)
<1> DEFINE n == Cardinality(StoredIn(t))
<1>1. n \in Nat /\ Cardinality(StoredIn(u)) = n + 1
  <2>1. u[id].state # "none" /\ \A i \in Ids : i # id => u[i].state = t[i].state
    BY DEF DiskOK, TableOK
  <2> QED  BY <2>1, StoredGrows, Zenon
<1>2. TableOK(u)
  <2> HIDE DEF n
  <2>1. u \in [Ids -> Row]
    BY <1>1 DEF DiskOK, TableOK, Row, States, n
  <2>2. \A i \in Ids : i # id => u[i] = t[i]
    BY DEF DiskOK, TableOK
  <2>3. u[id] = [state |-> "pending", content |-> c, payload |-> TRUE, rowid |-> n + 1]
    BY DEF DiskOK, TableOK, n
  <2>4. \A i \in Ids : t[i].state # "none" => t[i].content \in Contents /\ t[i].rowid \in 1..n
    BY DEF DiskOK, TableOK, n
  <2>5. \A i \in Ids : u[i].state # "none" => u[i].content \in Contents /\ u[i].rowid \in 1..(n + 1)
    BY <1>1, <2>2, <2>3, <2>4
  <2>6. \A i, j \in Ids : u[i].state # "none" /\ u[i].rowid = u[j].rowid => i = j
    <3>1. \A i \in Ids : t[i].rowid \in Nat /\ t[i].rowid < n + 1
      BY <1>1, <2>4 DEF DiskOK, TableOK, NoRow
    <3> QED  BY <1>1, <2>2, <2>3, <3>1 DEF DiskOK, TableOK
  <2> QED  BY <1>1, <2>1, <2>2, <2>3, <2>5, <2>6 DEF DiskOK, TableOK
<1>3. LedgerOK(u, l)
  <2>1. \A k \in 1..Len(l) : l[k].id \in Ids /\ t[l[k].id].state = "completed"
    BY LedgerIds
  <2>2. \A k \in 1..Len(l) : l[k].id # id /\ u[l[k].id] = t[l[k].id] /\ t[l[k].id].rowid \in 1..n
    BY <2>1 DEF DiskOK, TableOK
  <2>3. \A i \in Ids : i # id => u[i] = t[i]
    BY DEF DiskOK, TableOK
  <2>4. u[id].state = "pending" /\ u[id].rowid = n + 1
    BY DEF DiskOK, TableOK
  <2> QED  BY <1>1, <2>1, <2>2, <2>3, <2>4 DEF DiskOK, LedgerOK
<1> QED  BY <1>2, <1>3 DEF DiskOK

\* failTransactionSave's UPDATE keeps the table and the ledger consistent.
LEMMA FailOK ==
    ASSUME NEW t, NEW l, DiskOK(t, l), NEW id \in Ids, t[id].state = "pending", NEW u,
           u = [t EXCEPT ![id].state = "failed"]
    PROVE  DiskOK(u, l)
<1>2. \A i \in Ids : i # id => u[i] = t[i]
  BY DEF DiskOK, TableOK
<1>3. /\ u[id].state = "failed" /\ u[id].content = t[id].content
      /\ u[id].rowid = t[id].rowid /\ u \in [Ids -> Row]
  BY DEF DiskOK, TableOK, Row, States
<1>1. StoredIn(u) = StoredIn(t)
  BY <1>2, <1>3 DEF StoredIn
<1>4. TableOK(u)
  BY <1>1, <1>2, <1>3 DEF DiskOK, TableOK
<1>5. \A k \in 1..Len(l) : l[k].id \in Ids /\ u[l[k].id] = t[l[k].id]
  BY <1>2, LedgerIds
<1> QED  BY <1>2, <1>3, <1>4, <1>5 DEF DiskOK, LedgerOK

\* DismissFailedTransactionSave's UPDATE keeps the table and the ledger consistent.
LEMMA DismissOK ==
    ASSUME NEW t, NEW l, DiskOK(t, l), NEW id \in Ids, t[id].state = "failed", NEW u,
           u = [t EXCEPT ![id].payload = FALSE]
    PROVE  DiskOK(u, l)
<1>2. \A i \in Ids : i # id => u[i] = t[i]
  BY DEF DiskOK, TableOK
<1>3. /\ u[id].state = "failed" /\ u[id].content = t[id].content
      /\ u[id].rowid = t[id].rowid /\ u \in [Ids -> Row]
  <2> DEFINE new == [t[id] EXCEPT !.payload = FALSE]
  <2>1. t \in [Ids -> Row] /\ t[id] \in Row /\ u = [t EXCEPT ![id] = new]
    BY DEF DiskOK, TableOK
  <2>2. /\ new \in Row /\ new.rowid = t[id].rowid
        /\ new.content = t[id].content /\ new.state = "failed"
    BY <2>1, RowDismiss
  <2> HIDE DEF new
  <2> QED  BY <2>1, <2>2, Zenon
<1>1. StoredIn(u) = StoredIn(t)
  BY <1>2, <1>3 DEF StoredIn
<1>4. TableOK(u)
  BY <1>1, <1>2, <1>3 DEF DiskOK, TableOK
<1>5. \A k \in 1..Len(l) : l[k].id \in Ids /\ u[l[k].id] = t[l[k].id]
  BY <1>2, LedgerIds
<1> QED  BY <1>2, <1>3, <1>4, <1>5 DEF DiskOK, LedgerOK

\* The transaction that applies the oldest pending request and marks it completed
\* keeps the table and the ledger consistent.
LEMMA CompleteOK ==
    ASSUME NEW t, NEW l, DiskOK(t, l), NEW id \in Ids, t[id].state = "pending",
           \A j \in Ids : t[j].state = "pending" => t[id].rowid <= t[j].rowid,
           NEW u, u = [t EXCEPT ![id] = Completed(@)],
           NEW m, m = Append(l, [id |-> id, content |-> t[id].content])
    PROVE  DiskOK(u, m)
<1>2. \A i \in Ids : i # id => u[i] = t[i]
  BY DEF DiskOK, TableOK
<1>3. /\ u[id].state = "completed" /\ u[id].content = t[id].content
      /\ u[id].rowid = t[id].rowid /\ u \in [Ids -> Row]
  <2> DEFINE new == [t[id] EXCEPT !.state = "completed", !.payload = FALSE]
  <2>1. t \in [Ids -> Row] /\ t[id] \in Row /\ u = [t EXCEPT ![id] = new]
    BY DEF DiskOK, TableOK, Completed
  <2>2. /\ new \in Row /\ new.rowid = t[id].rowid
        /\ new.content = t[id].content /\ new.state = "completed"
    BY <2>1, RowUpdate, Zenon DEF States
  <2> HIDE DEF new
  <2> QED  BY <2>1, <2>2
<1>1. StoredIn(u) = StoredIn(t)
  BY <1>2, <1>3 DEF StoredIn
<1>4. TableOK(u)
  BY <1>1, <1>2, <1>3 DEF DiskOK, TableOK
<1>5. /\ m \in Seq(Entry) /\ Len(m) = Len(l) + 1
      /\ m[Len(l) + 1] = [id |-> id, content |-> t[id].content]
      /\ \A k \in 1..Len(l) : m[k] = l[k]
  BY DEF DiskOK, TableOK, LedgerOK, Entry
<1>6. \A k \in 1..Len(l) : l[k].id \in Ids /\ l[k].id # id /\ u[l[k].id] = t[l[k].id]
  BY <1>2, LedgerIds
<1>7. \A k \in 1..Len(l) : t[l[k].id].rowid < t[id].rowid
  BY DEF DiskOK, LedgerOK
<1>8. Len(l) \in Nat /\ 1..Len(m) = 1..Len(l) \cup {Len(l) + 1}
  BY <1>5 DEF DiskOK, LedgerOK
<1>9. \A i \in Ids : u[i].state = "completed" <=> \E k \in 1..Len(m) : m[k].id = i
  BY <1>2, <1>3, <1>5, <1>6, <1>8 DEF DiskOK, LedgerOK
<1>10. \A k \in 1..Len(m) : m[k].content = u[m[k].id].content
  BY <1>3, <1>5, <1>6, <1>8 DEF DiskOK, LedgerOK
<1>11. \A k, j \in 1..Len(m) : k < j => u[m[k].id].rowid < u[m[j].id].rowid
  BY <1>3, <1>5, <1>6, <1>7, <1>8 DEF DiskOK, LedgerOK
<1>12. ASSUME NEW k \in 1..Len(m), NEW p \in Ids, u[p].state = "pending"
       PROVE  u[m[k].id].rowid < u[p].rowid
  <2>1. p # id /\ u[p] = t[p] /\ t[id].rowid \in Nat /\ t[p].rowid \in Nat
    BY <1>2, <1>3, <1>12 DEF DiskOK, TableOK, Row
  <2>2. t[id].rowid < t[p].rowid
    BY <1>12, <2>1 DEF DiskOK, TableOK
  <2>3. CASE k \in 1..Len(l)
    BY <1>5, <1>6, <1>12, <2>1, <2>3 DEF DiskOK, LedgerOK
  <2>4. CASE k = Len(l) + 1
    BY <1>3, <1>5, <2>1, <2>2, <2>4
  <2> QED  BY <1>8, <2>3, <2>4
<1> QED  BY <1>4, <1>5, <1>9, <1>10, <1>11, <1>12, Zenon DEF DiskOK, LedgerOK

-----------------------------------------------------------------------------

\* A fresh database with an idle worker satisfies the inductive invariant.
LEMMA InitIInv == Init => IInv
<1> SUFFICES ASSUME Init PROVE IInv
  OBVIOUS
<1>1. rows \in [Ids -> Row] /\ \A i \in Ids : rows[i] = NoRow /\ rows[i].state = "none"
  BY DEF Init, Row, NoRow, States
<1>0. ledger \in Seq(Entry) /\ Len(ledger) = 0
  BY DEF Init
<1>2. TypeOK
  <2>1. faults \in 0..MaxFaults /\ images \subseteq Image
    BY BoundsAssumption DEF Init
  <2> QED  BY <1>0, <1>1, <2>1, Zenon DEF Init, TypeOK
<1>3. DiskOK(rows, ledger)
  <2>1. 1..Len(ledger) = {}
    BY <1>0
  <2>2. TableOK(rows)
    BY <1>1 DEF TableOK
  <2> QED  BY <1>0, <1>1, <2>1, <2>2 DEF DiskOK, LedgerOK
<1> QED
  BY <1>1, <1>2, <1>3 DEF Init, IInv, ReceiptsOK, WorkerOK, WakeupOK, Serving, Pending

\* The type invariant is preserved by the steps that change the table or the ledger
\* only as DiskOK allows.
LEMMA DiskType ==
    ASSUME NEW t, NEW l, DiskOK(t, l)
    PROVE  t \in [Ids -> Row] /\ l \in Seq(Entry)
BY DEF DiskOK, TableOK, LedgerOK

\* Accepting a request (insertAcceptedSave) keeps the invariant: the new row is the youngest.
LEMMA AcceptStep ==
    ASSUME IInv, NEW id \in Ids, NEW c \in Contents, AcceptTransactionSave(id, c)
    PROVE  IInv'
<1> DEFINE e == [id |-> id, content |-> c]
<1>0. e \in Entry /\ e.id = id /\ e.content = c
  BY DEF Entry
<1> HIDE DEF e
<1> USE DEF disk, worker, clients
<1>1. DiskOK(rows, ledger)'
  <2>1. CASE UNCHANGED rows
    BY <2>1 DEF IInv, AcceptTransactionSave
  <2>2. CASE rows[id].state = "none"
    BY <2>2, InsertOK, ZenonT(60) DEF IInv, AcceptTransactionSave, StoredIn, Stored
  <2> QED  BY <2>1, <2>2 DEF AcceptTransactionSave
<1>2. /\ waiting' = waiting \/ waiting' = waiting \cup {e}
      /\ conflicts' = conflicts \/ conflicts' = conflicts \cup {e}
  BY DEF AcceptTransactionSave, e
<1>3. TypeOK'
  BY <1>0, <1>1, <1>2, DiskType DEF IInv, TypeOK, AcceptTransactionSave
<1>4. \A i \in Ids : rows[i].state # "none" => rows'[i] = rows[i]
  BY DEF AcceptTransactionSave, IInv, TypeOK
<1>5. \A i \in Ids : rows'[i] = rows[i] \/
         (i = id /\ rows[i].state = "none" /\ rows'[i].state = "pending"
          /\ rows'[i].content = c /\ rows'[i].rowid = Cardinality(Stored) + 1)
  BY DEF AcceptTransactionSave, IInv, TypeOK
<1>6. ReceiptsOK'
  <2>1. \A r \in acked \cup waiting \cup conflicts : r.id \in Ids /\ rows'[r.id] = rows[r.id]
    BY <1>4 DEF IInv, TypeOK, ReceiptsOK, Entry
  <2>2. \/ conflicts' = conflicts /\ rows'[id].state # "none" /\ rows'[id].content = c
        \/ waiting' = waiting /\ rows'[id].state # "none" /\ rows'[id].content # c
    BY DEF AcceptTransactionSave, IInv, TypeOK, SameHash
  <2> QED  BY <1>0, <1>2, <2>1, <2>2 DEF AcceptTransactionSave, IInv, ReceiptsOK
<1>7. WorkerOK'
  <2>1. pc \in {"prepare", "apply", "fail"} => OldestPending(cur)'
    <3> SUFFICES ASSUME pc \in {"prepare", "apply", "fail"} PROVE OldestPending(cur)'
      OBVIOUS
    <3>1. cur \in Ids /\ rows[cur].state = "pending" /\ cur' = cur /\ rows'[cur] = rows[cur]
      BY <1>4 DEF IInv, WorkerOK, OldestPending, Pending, AcceptTransactionSave
    <3>2. Cardinality(Stored) \in Nat /\ rows[cur].rowid <= Cardinality(Stored)
      BY <3>1, IdsAssumption, FS_Subset, FS_CardinalityType
         DEF IInv, DiskOK, TableOK, Stored, StoredIn
    <3> QED  BY <1>5, <3>1, <3>2 DEF IInv, WorkerOK, OldestPending, Pending, DiskOK, TableOK, Row
  <2> QED  BY <2>1 DEF IInv, WorkerOK, AcceptTransactionSave, Serving
<1>8. WakeupOK'
  BY <1>2, <1>5, Zenon DEF AcceptTransactionSave, IInv, WakeupOK, Serving, Pending
<1> QED  BY <1>1, <1>3, <1>6, <1>7, <1>8 DEF IInv, AcceptTransactionSave
\* A step that leaves the disk, the receipts and the snapshots alone preserves what
\* is said about them.
LEMMA SameDisk ==
    ASSUME IInv, UNCHANGED <<rows, ledger, images, conflicts>>,
           (acked \cup waiting)' \subseteq acked \cup waiting
    PROVE  /\ DiskOK(rows, ledger)'
           /\ (\A img \in images : DiskOK(img.rows, img.ledger))'
           /\ ReceiptsOK'
BY DEF IInv, ReceiptsOK

\* The handlers that only read or answer keep it.
LEMMA HandlerSteps ==
    ASSUME IInv,
           \/ \E r \in waiting : AnswerTransactionSave(r) \/ AnswerStorageError(r)
           \/ \E id \in Ids : TransactionSaveStatus(id)
           \/ TransactionSaveNotices
    PROVE  IInv'
<1> USE DEF disk, worker, clients
<1>1. ASSUME NEW r \in waiting, AnswerTransactionSave(r) PROVE IInv'
  <2>1. TypeOK'
    BY <1>1 DEF IInv, TypeOK, AnswerTransactionSave, WakeLedgerWorker
  <2>2. WorkerOK' /\ WakeupOK'
    BY <1>1, Zenon DEF IInv, TypeOK, AnswerTransactionSave, WakeLedgerWorker, WorkerOK, WakeupOK,
                OldestPending, Pending, Serving
  <2>3. UNCHANGED <<rows, ledger, images, conflicts>> /\ (acked \cup waiting)' \subseteq acked \cup waiting
    BY <1>1 DEF AnswerTransactionSave
  <2> QED  BY <2>1, <2>2, <2>3, SameDisk DEF IInv
<1>2. ASSUME NEW r \in waiting, AnswerStorageError(r) PROVE IInv'
  <2>1. TypeOK'
    BY <1>2, BoundsAssumption DEF IInv, TypeOK, AnswerStorageError, Fault
  <2>2. WorkerOK' /\ WakeupOK'
    BY <1>2 DEF IInv, AnswerStorageError, WorkerOK, WakeupOK, OldestPending, Pending, Serving
  <2>3. UNCHANGED <<rows, ledger, images, conflicts>> /\ (acked \cup waiting)' \subseteq acked \cup waiting
    BY <1>2 DEF AnswerStorageError
  <2> QED  BY <2>1, <2>2, <2>3, SameDisk DEF IInv
<1>3. ASSUME Serving, WakeLedgerWorker,
             UNCHANGED <<disk, images, phase, closing, cur, clients, faults>>
      PROVE  IInv'
  <2>1. TypeOK'
    BY <1>3 DEF IInv, TypeOK, WakeLedgerWorker
  <2>2. WorkerOK' /\ WakeupOK'
    BY <1>3 DEF IInv, TypeOK, WakeLedgerWorker, WorkerOK, WakeupOK, OldestPending, Pending, Serving
  <2> QED  BY <1>3, <2>1, <2>2, SameDisk DEF IInv
<1> QED  BY <1>1, <1>2, <1>3 DEF TransactionSaveStatus, TransactionSaveNotices

\* Dismissing a failed save keeps it: no pending row and no ledger entry goes away.
LEMMA DismissStep ==
    ASSUME IInv, NEW id \in Ids, DismissFailedTransactionSave(id)
    PROVE  IInv'
<1> USE DEF disk, worker, clients
<1>1. DiskOK(rows, ledger)'
  BY DismissOK, Zenon DEF IInv, DismissFailedTransactionSave, Dismissable
<1>2. \A i \in Ids : /\ rows'[i].state = rows[i].state /\ rows'[i].content = rows[i].content
                     /\ rows'[i].rowid = rows[i].rowid
  BY DEF IInv, TypeOK, Row, DismissFailedTransactionSave
<1>3. TypeOK'
  BY <1>1, DiskType, Zenon DEF IInv, TypeOK, DismissFailedTransactionSave
<1>4. ReceiptsOK'
  BY <1>2 DEF IInv, TypeOK, Entry, ReceiptsOK, DismissFailedTransactionSave
<1>5. WorkerOK' /\ WakeupOK'
  BY <1>2 DEF IInv, WorkerOK, WakeupOK, OldestPending, Pending, Serving, DismissFailedTransactionSave
<1> QED  BY <1>1, <1>3, <1>4, <1>5 DEF IInv, DismissFailedTransactionSave
\* Steps of the worker that do not write to the database.
LEMMA WorkerReads ==
    ASSUME IInv, WorkerLoop \/ WorkerPick \/ WorkerPrepare \/ WorkerStorageError
    PROVE  IInv'
<1> USE DEF disk, worker, clients
<1>1. /\ UNCHANGED <<rows, ledger, images, conflicts, acked, waiting, phase, closing>>
      /\ pc # "off" /\ (cur' = cur \/ cur' \in Ids)
  BY DEF WorkerLoop, WorkerPick, WorkerPrepare, WorkerStorageError
<1>2. TypeOK'
  <2>1. pc' \in {"off", "loop", "pick", "prepare", "apply", "fail"}
    BY DEF WorkerLoop, WorkerPick, WorkerPrepare, WorkerStorageError
  <2>2. pendingWake' \in BOOLEAN /\ stalled' \in BOOLEAN
    BY Zenon DEF IInv, TypeOK, WorkerLoop, WorkerPick, WorkerPrepare, WorkerStorageError
  <2>3. faults' \in 0..MaxFaults
    BY BoundsAssumption DEF IInv, TypeOK, WorkerLoop, WorkerPick, WorkerPrepare, WorkerStorageError, Fault
  <2> QED  BY <1>1, <2>1, <2>2, <2>3 DEF IInv, TypeOK
<1>3. WorkerOK'
  <2>1. pc' \in {"prepare", "apply", "fail"} => OldestPending(cur)'
    BY <1>1 DEF IInv, WorkerOK, WorkerLoop, WorkerPick, WorkerPrepare, WorkerStorageError,
                OldestPending, Pending
  <2> QED  BY <1>1, <2>1 DEF IInv, WorkerOK
<1>4. WakeupOK'
  BY <1>1 DEF IInv, WakeupOK, WorkerLoop, WorkerPick, WorkerPrepare, WorkerStorageError,
              Pending, Serving
<1> QED  BY <1>1, <1>2, <1>3, <1>4, SameDisk DEF IInv

\* Steps of the worker that do.
LEMMA WorkerWrites ==
    ASSUME IInv, failTransactionSave \/ processTransactionSave
    PROVE  IInv'
<1> USE DEF disk, worker, clients
<1>1. /\ UNCHANGED <<images, conflicts, acked, waiting, phase, closing, cur, pendingWake, stalled, faults>>
      /\ pc \in {"fail", "apply"} /\ pc' \in {"pick", "fail"}
  BY DEF failTransactionSave, processTransactionSave
<1>2. cur \in Ids /\ rows[cur].state = "pending" /\ OldestPending(cur)
  BY <1>1 DEF IInv, WorkerOK, OldestPending, Pending
<1>3. \/ pc' = "pick" /\ rows' = [rows EXCEPT ![cur].state = "failed"] /\ UNCHANGED ledger
      \/ /\ pc' = "pick" /\ rows' = [rows EXCEPT ![cur] = Completed(@)]
         /\ ledger' = Append(ledger, [id |-> cur, content |-> rows[cur].content])
      \/ pc' = "fail" /\ UNCHANGED <<rows, ledger>>
  BY <1>2 DEF failTransactionSave, processTransactionSave
<1>4. DiskOK(rows, ledger)'
  <2>1. CASE UNCHANGED <<rows, ledger>>
    BY <2>1 DEF IInv
  <2>2. CASE rows' = [rows EXCEPT ![cur].state = "failed"] /\ UNCHANGED ledger
    BY <1>2, <2>2, FailOK, Zenon DEF IInv
  <2>3. CASE /\ rows' = [rows EXCEPT ![cur] = Completed(@)]
             /\ ledger' = Append(ledger, [id |-> cur, content |-> rows[cur].content])
    <3>1. \A j \in Ids : rows[j].state = "pending" => rows[cur].rowid <= rows[j].rowid
      BY <1>2 DEF OldestPending, Pending
    <3> QED  BY <1>2, <2>3, <3>1, CompleteOK, Zenon DEF IInv
  <2> QED  BY <1>3, <2>1, <2>2, <2>3
<1>5. TypeOK'
  BY <1>1, <1>4, DiskType DEF IInv, TypeOK
<1>6. \A i \in Ids : rows[i].state # "none" =>
          rows'[i].state # "none" /\ rows'[i].content = rows[i].content
  <2>1. \A i \in Ids : i # cur => rows'[i] = rows[i]
    BY <1>2, <1>3 DEF IInv, TypeOK
  <2>2. CASE rows' = [rows EXCEPT ![cur] = Completed(@)]
    <3> DEFINE new == [rows[cur] EXCEPT !.state = "completed", !.payload = FALSE]
    <3>1. rows[cur] \in Row /\ rows'[cur] = new
      BY <1>2, <2>2 DEF IInv, TypeOK, Completed
    <3>2. new.state = "completed" /\ new.content = rows[cur].content
      BY <3>1 DEF Row
    <3> HIDE DEF new
    <3> QED  BY <2>1, <3>1, <3>2
  <2>3. CASE rows' = [rows EXCEPT ![cur].state = "failed"]
    BY <1>2, <2>1, <2>3 DEF IInv, TypeOK, Row
  <2> QED  BY <1>3, <2>2, <2>3
<1>7. ReceiptsOK'
  BY <1>1, <1>6 DEF IInv, TypeOK, Entry, ReceiptsOK
<1>8. WorkerOK'
  BY <1>1, <1>2, <1>3 DEF IInv, WorkerOK, OldestPending, Pending
<1>9. WakeupOK'
  BY <1>1 DEF WakeupOK
<1> QED  BY <1>1, <1>4, <1>5, <1>7, <1>8, <1>9 DEF IInv

\* Opening, registering, closing, dying and taking a snapshot.
LEMMA LifecycleSteps ==
    ASSUME IInv,
           Open \/ RegisterLedgerWorker \/ CloseBegin \/ CloseEnd \/ Crash \/ TakeSnapshot
    PROVE  IInv'
<1> USE DEF disk, worker, clients
<1>3. CASE Open
  <2>1. TypeOK'
    BY <1>3 DEF IInv, TypeOK, Open
  <2>2. WorkerOK' /\ WakeupOK'
    BY <1>3 DEF IInv, TypeOK, WorkerOK, WakeupOK, Open, OldestPending, Pending, Serving
  <2> QED  BY <1>3, <2>1, <2>2, SameDisk DEF IInv, Open
<1>4. CASE RegisterLedgerWorker
  <2>1. TypeOK'
    BY <1>4 DEF IInv, TypeOK, RegisterLedgerWorker, WakeLedgerWorker
  <2>2. WorkerOK' /\ WakeupOK'
    BY <1>4, Zenon DEF IInv, TypeOK, WorkerOK, WakeupOK, RegisterLedgerWorker, WakeLedgerWorker, OldestPending, Pending, Serving
  <2> QED  BY <1>4, <2>1, <2>2, SameDisk DEF IInv, RegisterLedgerWorker
<1>5. CASE CloseBegin
  <2>1. TypeOK'
    BY <1>5 DEF IInv, TypeOK, CloseBegin
  <2>2. WorkerOK' /\ WakeupOK'
    BY <1>5 DEF IInv, TypeOK, WorkerOK, WakeupOK, CloseBegin, OldestPending, Pending, Serving
  <2> QED  BY <1>5, <2>1, <2>2, SameDisk DEF IInv, CloseBegin
<1>6. CASE CloseEnd
  <2>1. TypeOK'
    BY <1>6, Zenon DEF IInv, TypeOK, CloseEnd
  <2>2. WorkerOK' /\ WakeupOK'
    BY <1>6 DEF IInv, TypeOK, WorkerOK, WakeupOK, CloseEnd, OldestPending, Pending, Serving
  <2> QED  BY <1>6, <2>1, <2>2, SameDisk DEF IInv, CloseEnd
<1>7. CASE Crash
  <2>0. faults' \in 0..MaxFaults
    BY <1>7, BoundsAssumption DEF IInv, TypeOK, Crash, Fault
  <2>1. TypeOK'
    BY <1>7, <2>0, Zenon DEF IInv, TypeOK, Crash
  <2>2. WorkerOK' /\ WakeupOK'
    BY <1>7 DEF IInv, TypeOK, WorkerOK, WakeupOK, Crash, Fault, OldestPending, Pending, Serving
  <2> QED  BY <1>7, <2>1, <2>2, SameDisk DEF IInv, Crash
<1>2. CASE TakeSnapshot
  <2> DEFINE new == [rows |-> rows, ledger |-> ledger]
  <2>1. new \in Image /\ new.rows = rows /\ new.ledger = ledger /\ images' = images \cup {new}
    BY <1>2 DEF IInv, TypeOK, Image, TakeSnapshot
  <2> HIDE DEF new
  <2>2. UNCHANGED <<rows, ledger, phase, closing, pc, cur, pendingWake, waiting, acked, conflicts, stalled, faults>>
    BY <1>2 DEF TakeSnapshot
  <2>3. TypeOK'
    BY <2>1, <2>2 DEF IInv, TypeOK
  <2>4. DiskOK(rows, ledger)' /\ ReceiptsOK' /\ WorkerOK' /\ WakeupOK'
    BY <2>2 DEF IInv, ReceiptsOK, WorkerOK, WakeupOK, OldestPending, Pending, Serving
  <2>5. (\A img \in images : DiskOK(img.rows, img.ledger))'
    BY <2>1 DEF IInv
  <2> QED  BY <2>3, <2>4, <2>5 DEF IInv
<1> QED  BY <1>2, <1>3, <1>4, <1>5, <1>6, <1>7

\* A restored snapshot brings a table and a ledger that belong together.
LEMMA RestoreStep ==
    ASSUME IInv, NEW img \in images, RestoreSnapshot(img)
    PROVE  IInv'
<1> USE DEF disk, worker, clients
<1>1. DiskOK(rows, ledger)' /\ (\A i \in images : DiskOK(i.rows, i.ledger))'
  BY DEF IInv, RestoreSnapshot
<1>2. TypeOK'
  BY <1>1, DiskType DEF IInv, TypeOK, RestoreSnapshot, WakeLedgerWorker
<1>3. ReceiptsOK' /\ WorkerOK' /\ WakeupOK'
  BY Zenon DEF IInv, TypeOK, ReceiptsOK, WorkerOK, WakeupOK, RestoreSnapshot, WakeLedgerWorker, Serving
<1> QED  BY <1>1, <1>2, <1>3 DEF IInv

\* The inductive invariant holds of every reachable state, one case per action of Next.
THEOREM Inductive == Spec => []IInv
<1>1. IInv /\ [Next]_vars => IInv'
  <2> SUFFICES ASSUME IInv, [Next]_vars PROVE IInv'
    OBVIOUS
  <2>1. CASE UNCHANGED vars
    BY <2>1, ZenonT(60) DEF vars, disk, worker, clients, IInv, TypeOK, ReceiptsOK, WorkerOK, WakeupOK,
                OldestPending, Pending, Serving
  <2>2. CASE Next
    BY <2>2, AcceptStep, HandlerSteps, DismissStep, WorkerReads, WorkerWrites, LifecycleSteps,
       RestoreStep DEF Next, WorkerStep
  <2> QED  BY <2>1, <2>2
<1> QED  BY <1>1, InitIInv, PTL DEF Spec
-----------------------------------------------------------------------------

\* Every reachable state is well typed.
THEOREM TypeCorrect == Spec => []TypeOK
BY Inductive, PTL DEF IInv

\* The ledger is ordered by the row ids of its requests.
LEMMA LedgerOrdered ==
    ASSUME IInv
    PROVE  /\ DOMAIN ledger = 1..Len(ledger) /\ Len(ledger) \in Nat
           /\ \A k, m \in 1..Len(ledger) : k < m => rows[ledger[k].id].rowid < rows[ledger[m].id].rowid
<1>1. DOMAIN ledger = 1..Len(ledger) /\ Len(ledger) \in Nat
  BY DEF IInv, TypeOK
<1>2. \A k, m \in 1..Len(ledger) : k < m => rows[ledger[k].id].rowid < rows[ledger[m].id].rowid
  BY Zenon DEF IInv, DiskOK, LedgerOK
<1> QED  BY <1>1, <1>2

\* The queue of core/transaction_saves.go applies a request exactly once, whatever is
\* retried, interrupted, closed or restored.
THEOREM AppliedExactlyOnce == Spec => []ExactlyOnce
<1>1. IInv => ExactlyOnce
  <2> SUFFICES ASSUME IInv PROVE ExactlyOnce
    OBVIOUS
  <2>1. DOMAIN ledger = 1..Len(ledger) /\ Len(ledger) \in Nat
    BY LedgerOrdered, Zenon
  <2>2. \A k, m \in 1..Len(ledger) : ledger[k].id = ledger[m].id => k = m
    <3> SUFFICES ASSUME NEW k \in 1..Len(ledger), NEW m \in 1..Len(ledger),
                        ledger[k].id = ledger[m].id, k # m
                 PROVE  FALSE
      OBVIOUS
    <3>1. ledger[k].id \in Ids /\ rows[ledger[k].id].rowid \in Nat
      BY LedgerIds DEF IInv, TypeOK, Row
    <3>2. k < m \/ m < k
      OBVIOUS
    <3>3. \A r \in Nat : ~(r < r)
      OBVIOUS
    <3> QED  BY <3>1, <3>2, <3>3, LedgerOrdered, Zenon
  <2> QED  BY <2>1, <2>2, Zenon DEF IInv, DiskOK, LedgerOK, ExactlyOnce
<1> QED  BY <1>1, Inductive, PTL

\* Requests reach the ledger in the order of their receipts.
THEOREM AppliedInReceiptOrder == Spec => []ReceiptOrder
<1>1. IInv => ReceiptOrder
  BY LedgerOrdered, Zenon DEF ReceiptOrder
<1> QED  BY <1>1, Inductive, PTL

\* A receipt the server has answered with 202 is on disk with the acknowledged content.
THEOREM ReceiptsDurable == Spec => []DurableReceipts
<1>1. IInv => DurableReceipts
  BY Zenon DEF IInv, ReceiptsOK, DurableReceipts
<1> QED  BY <1>1, Inductive, PTL

\* What was refused with 409 is not in the ledger.
THEOREM RefusedNeverApplied == Spec => []ConflictsNeverApplied
<1>1. IInv => ConflictsNeverApplied
  <2> SUFFICES ASSUME IInv PROVE ConflictsNeverApplied
    OBVIOUS
  <2>1. \A r \in conflicts : rows[r.id].content # r.content
    BY Zenon DEF IInv, ReceiptsOK
  <2>2. \A k \in 1..Len(ledger) : ledger[k].content = rows[ledger[k].id].content
    BY Zenon DEF IInv, DiskOK, LedgerOK
  <2> QED  BY <2>1, <2>2, LedgerOrdered, Zenon DEF ConflictsNeverApplied
<1> QED  BY <1>1, Inductive, PTL

\* The worker of database/transaction_save_worker.go never sleeps on an accepted
\* request that nothing but a storage error has stopped.
THEOREM WakeupsKept == Spec => []NoLostWakeup
<1>1. IInv => NoLostWakeup
  BY DEF IInv, WakeupOK, NoLostWakeup
<1> QED  BY <1>1, Inductive, PTL
\* Input accepted into the queue is dropped only by completion or by dismissing a
\* recorded failure.
THEOREM InputNeverDropped == Spec => InputKept
<1> DEFINE Kept == \A id \in Ids :
          rows[id].payload /\ rows'[id].state # "none" /\ ~rows'[id].payload =>
              rows'[id].state = "completed" \/ rows[id].state = "failed"
              \/ \E img \in images : RestoreSnapshot(img)
<1>1. IInv /\ [Next]_vars => [Kept]_vars
  <2> SUFFICES ASSUME IInv, Next, NEW id \in Ids,
                      rows[id].payload, ~rows'[id].payload,
                      ~ \E img \in images : RestoreSnapshot(img)
               PROVE  rows'[id].state = "completed" \/ rows[id].state = "failed"
    OBVIOUS
  <2> USE DEF disk
  <2>1. rows' # rows
    OBVIOUS
  <2>2. CASE \E i \in Ids, c \in Contents : AcceptTransactionSave(i, c)
    BY <2>1, <2>2, SMTT(60) DEF AcceptTransactionSave, IInv, TypeOK
  <2>3. CASE \E i \in Ids : DismissFailedTransactionSave(i)
    BY <2>3 DEF DismissFailedTransactionSave, Dismissable, IInv, TypeOK
  <2>4. CASE failTransactionSave
    BY <2>4 DEF failTransactionSave, IInv, TypeOK, Row
  <2>5. CASE processTransactionSave
    BY <2>1, <2>5, ZenonT(60) DEF processTransactionSave, Completed, IInv, TypeOK, Row
  <2> QED
    BY <2>1, <2>2, <2>3, <2>4, <2>5, Zenon
       DEF Next, WorkerStep, AnswerTransactionSave, AnswerStorageError, TransactionSaveStatus,
           TransactionSaveNotices, WorkerLoop, WorkerPick, WorkerPrepare, WorkerStorageError, Open,
           RegisterLedgerWorker, CloseBegin, CloseEnd, Crash, TakeSnapshot
<1> QED  BY <1>1, Inductive, PTL DEF Spec, InputKept

-----------------------------------------------------------------------------
(* The refinement of SaveQueue.                                            *)

\* What the abstract queue sees of a row.
LEMMA ReceiptOf ==
    ASSUME NEW t, NEW i \in Ids
    PROVE  /\ Receipts(t)[i].outcome = t[i].state
           /\ Receipts(t)[i].content = t[i].content
           /\ Receipts(t)[i].number = t[i].rowid
BY DEF Receipts

\* The INSERT of AcceptTransactionSave is the abstract Accept.
LEMMA AcceptRefines ==
    ASSUME IInv, NEW id \in Ids, NEW c \in Contents, AcceptTransactionSave(id, c), rows' # rows
    PROVE  Queue!Accept(id, c)
<1> DEFINE n == Cardinality(Stored) + 1
<1>1. /\ rows[id].state = "none" /\ UNCHANGED <<ledger, images>>
      /\ rows' = [rows EXCEPT ![id] = [state |-> "pending", content |-> c, payload |-> TRUE, rowid |-> n]]
  BY DEF AcceptTransactionSave
<1>2. n \in 1..Cardinality(Ids)
  <2>1. IsFiniteSet(Stored) /\ id \notin Stored
    BY <1>1, IdsAssumption, FS_Subset DEF Stored
  <2>2. Cardinality(Stored \cup {id}) = n /\ Cardinality(Stored) \in Nat
    BY <2>1, FS_AddElement, FS_CardinalityType
  <2>3. Cardinality(Stored \cup {id}) <= Cardinality(Ids) /\ Cardinality(Ids) \in Nat
    BY IdsAssumption, FS_Subset, FS_CardinalityType DEF Stored
  <2> QED  BY <2>2, <2>3
<1>3. \A j \in Ids : rows[j].rowid < n
  <2>1. Cardinality(Stored) \in Nat
    BY IdsAssumption, FS_Subset, FS_CardinalityType DEF Stored
  <2>2. \A j \in Ids : rows[j].state = "none" => rows[j].rowid = 0
    <3>1. \A j \in Ids : rows[j].state = "none" => rows[j] = NoRow
      BY Zenon DEF IInv, DiskOK, TableOK
    <3> QED  BY <3>1 DEF NoRow
  <2>3. \A j \in Ids : rows[j].state # "none" => rows[j].rowid \in 1..Cardinality(Stored)
    BY Zenon DEF IInv, DiskOK, TableOK, Stored, StoredIn
  <2> QED  BY <2>1, <2>2, <2>3
<1>4. Receipts(rows)' = [Receipts(rows) EXCEPT ![id] =
                            [outcome |-> "pending", content |-> c, number |-> n]]
  BY <1>1, Zenon DEF Receipts, IInv, TypeOK
<1> HIDE DEF n
<1>5. Receipts(rows)[id].outcome = "none" /\ \A j \in Ids : Receipts(rows)[j].number < n
  BY <1>1, <1>3, ReceiptOf
<1>6. UNCHANGED {[receipts |-> Receipts(img.rows), ledger |-> img.ledger] : img \in images}
  BY <1>1 DEF Receipts
<1>7. \E m \in 1..Cardinality(Ids) :
          /\ \A j \in Ids : Receipts(rows)[j].number < m
          /\ Receipts(rows)' = [Receipts(rows) EXCEPT ![id] =
                                  [outcome |-> "pending", content |-> c, number |-> m]]
  BY <1>2, <1>4, <1>5, Zenon
<1> QED  BY <1>1, <1>5, <1>6, <1>7, Zenon DEF Queue!Accept

\* The request the worker holds is the one the abstract queue settles next.
LEMMA CurIsNext ==
    ASSUME IInv, pc \in {"apply", "fail"}
    PROVE  cur \in Ids /\ rows[cur].state = "pending" /\ Queue!IsNext(cur)
BY ReceiptOf DEF IInv, WorkerOK, OldestPending, Pending, Queue!IsNext

\* Every step of the service is a step of the abstract queue or leaves it alone.
LEMMA StepRefines ==
    ASSUME IInv, [Next]_vars
    PROVE  [Queue!Next]_(Queue!queueVars)
<1> USE DEF disk, Queue!queueVars
<1>1. CASE UNCHANGED <<rows, ledger, images>>
  BY <1>1, Zenon DEF Receipts
<1>2. ASSUME NEW id \in Ids, NEW c \in Contents, AcceptTransactionSave(id, c)
      PROVE  [Queue!Next]_(Queue!queueVars)
  <2>1. CASE rows' = rows
    BY <1>1, <1>2, <2>1, Zenon DEF AcceptTransactionSave
  <2>2. CASE rows' # rows
    BY <1>2, <2>2, AcceptRefines, Zenon DEF Queue!Next
  <2> QED  BY <2>1, <2>2, Zenon
<1>3. ASSUME NEW id \in Ids, DismissFailedTransactionSave(id)
      PROVE  [Queue!Next]_(Queue!queueVars)
  <2>1. Receipts(rows)' = Receipts(rows)
    BY <1>3 DEF DismissFailedTransactionSave, Receipts, IInv, TypeOK, Row
  <2> QED  BY <1>3, <2>1 DEF DismissFailedTransactionSave
<1>4. CASE failTransactionSave
  <2>1. cur \in Ids /\ rows[cur].state = "pending" /\ Queue!IsNext(cur)
    BY <1>4, CurIsNext DEF failTransactionSave
  <2>2. rows' = [rows EXCEPT ![cur].state = "failed"] /\ UNCHANGED <<ledger, images>>
    BY <1>4, <2>1 DEF failTransactionSave
  <2>3. Receipts(rows)' = [Receipts(rows) EXCEPT ![cur].outcome = "failed"]
    BY <2>1, <2>2, ZenonT(60) DEF Receipts, IInv, TypeOK, Row
  <2> QED  BY <2>1, <2>2, <2>3, Zenon DEF Queue!Next, Queue!Reject
<1>5. CASE processTransactionSave
  <2>1. cur \in Ids /\ rows[cur].state = "pending" /\ Queue!IsNext(cur)
    BY <1>5, CurIsNext DEF processTransactionSave
  <2>2. CASE UNCHANGED <<rows, ledger>>
    BY <1>1, <1>5, <2>2 DEF processTransactionSave
  <2>3. CASE /\ ledger' = Append(ledger, [id |-> cur, content |-> rows[cur].content])
             /\ rows' = [rows EXCEPT ![cur] = Completed(@)]
    <3>1. Receipts(rows)' = [Receipts(rows) EXCEPT ![cur].outcome = "completed"]
      BY <2>1, <2>3, ZenonT(60) DEF Receipts, IInv, TypeOK, Row, Completed
    <3>2. UNCHANGED images
      BY <1>5 DEF processTransactionSave
    <3> QED  BY <2>1, <2>3, <3>1, <3>2, ReceiptOf, Zenon DEF Queue!Next, Queue!Apply
  <2> QED  BY <1>5, <2>1, <2>2, <2>3, Zenon DEF processTransactionSave
<1>6. CASE TakeSnapshot
  <2> DEFINE F(img) == [receipts |-> Receipts(img.rows), ledger |-> img.ledger]
             new == [rows |-> rows, ledger |-> ledger]
  <2>1. images' = images \cup {new} /\ UNCHANGED <<rows, ledger>>
    BY <1>6 DEF TakeSnapshot
  <2>2. F(new) = [receipts |-> Receipts(rows), ledger |-> ledger]
    OBVIOUS
  <2> HIDE DEF new
  <2>3. {F(img) : img \in images \cup {new}} = {F(img) : img \in images} \cup {F(new)}
    <3> HIDE DEF F
    <3> QED  OBVIOUS
  <2>4. Queue!Save
    BY <2>1, <2>2, <2>3, Zenon DEF Queue!Save, Receipts
  <2> QED  BY <2>4 DEF Queue!Next
<1>7. ASSUME NEW img \in images, RestoreSnapshot(img)
      PROVE  [Queue!Next]_(Queue!queueVars)
  BY <1>7, Zenon DEF RestoreSnapshot, Queue!Next, Queue!Rollback
<1> QED
  BY <1>1, <1>2, <1>3, <1>4, <1>5, <1>6, <1>7, Zenon
     DEF Next, WorkerStep, AnswerTransactionSave, AnswerStorageError, TransactionSaveStatus,
         TransactionSaveNotices, WorkerLoop, WorkerPick, WorkerPrepare, WorkerStorageError, Open,
         RegisterLedgerWorker, CloseBegin, CloseEnd, Crash, vars

\* The durable queue implements the receipts docs/api-errors.md describes.
THEOREM RefinesSaveQueue == Spec => ImplementsQueue
<1>1. Init => Queue!Init
  BY DEF Init, Queue!Init, Queue!NoReceipt, NoRow, Receipts
<1> QED  BY <1>1, StepRefines, Inductive, PTL DEF Spec, ImplementsQueue, Queue!QueueSpec
=============================================================================
