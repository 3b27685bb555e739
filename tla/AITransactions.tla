--------------------------- MODULE AITransactions ---------------------------
(* Transactions that an AI client adds: one SQL transaction claims the key of *)
(* the request, counts it against the day's quota of the credential and adds  *)
(* the row.  A client that got no answer sends the same key again, also from  *)
(* another connection and on another day.                                     *)
EXTENDS FiniteSets, Integers

CONSTANTS
  Procs, Credentials, Keys,
  Contents,     \* what a request says
  Forms,        \* how it is written: field order, white space, order of tags
  MaxTransactionsPerDay,
  MaxDay, MaxId \* bounds of the model: days, and transactions ever added

VARIABLES
  day,      \* the current UTC day
  idem,     \* ai_transaction_idempotency: <<credential, key>> -> digest and id
  usage,    \* ai_daily_transaction_usage: <<credential, day>> -> successful_creates
  ledger,   \* the ids of the transactions that exist
  seq,      \* the table's AUTOINCREMENT sequence
  call,     \* the request that each goroutine serves
  created,  \* history: the transactions added since the ledger was replaced
  answers   \* history: the answers of success since then

vars == <<day, idem, usage, ledger, seq, call, created, answers>>

Idle == [pc |-> "idle"]
Request == [content : Contents, form : Forms]

\* canonicalAITransactionDigest sees the normalised content, not its form.
canonicalAITransactionDigest(request) == request.content

Identity == Credentials \X Keys
NoRow == [digest |-> {}, id |-> 0]

TypeOK ==
  /\ day \in 0..MaxDay /\ seq \in 0..MaxId /\ ledger \subseteq 1..seq
  /\ DOMAIN idem \subseteq Identity
  /\ \A i \in DOMAIN idem : idem[i].digest \in Contents /\ idem[i].id \in 1..seq
  /\ DOMAIN usage \subseteq Credentials \X (0..MaxDay)
  /\ \A u \in DOMAIN usage : usage[u] \in Nat
  /\ \A p \in Procs : call[p] = Idle \/
       call[p] \in [pc : {"write"}, by : Identity, digest : Contents, day : 0..MaxDay]

Init ==
  /\ day = 0 /\ seq = 0 /\ ledger = {}
  /\ idem = [i \in {} |-> NoRow] /\ usage = [u \in {} |-> 0]
  /\ call = [p \in Procs |-> Idle]
  /\ created = {} /\ answers = {}

----------------------------------------------------------------------------
\* handleAITransactions, up to the write: a request that is well formed takes
\* its time.  One that is refused before changes nothing.
handleAITransactions(p, by, request) ==
  /\ call[p] = Idle
  /\ call' = [call EXCEPT ![p] =
       [pc |-> "write", by |-> by, digest |-> canonicalAITransactionDigest(request), day |-> day]]
  /\ UNCHANGED <<day, idem, usage, ledger, seq, created, answers>>

\* The mutant forgets a key together with its transaction.
ClaimedWhileThere(c) == c.by \in DOMAIN idem /\ idem[c.by].id \in ledger
\* claimAIIdempotency finds a row for the credential and the key.
Claimed(c) == c.by \in DOMAIN idem

Used(c) == IF <<c.by[1], c.day>> \in DOMAIN usage THEN usage[<<c.by[1], c.day>>] ELSE 0

\* consumeAIDailyQuota raises the day's count, or refuses.
WithinQuota(c) == Used(c) < MaxTransactionsPerDay

\* The write of AddAITransaction, from beginLedgerWrite to the commit.
Replay(p) ==
  LET c == call[p] IN
  /\ c.pc = "write" /\ Claimed(c) /\ idem[c.by].digest = c.digest
  /\ answers' = answers \cup {[by |-> c.by, digest |-> c.digest, id |-> idem[c.by].id]}
  /\ call' = [call EXCEPT ![p] = Idle]
  /\ UNCHANGED <<day, idem, usage, ledger, seq, created>>

\* The key was used for another request, the quota is used up, the row was
\* refused, or the write failed: the SQL transaction is rolled back.
Refused(p) ==
  /\ call[p].pc = "write" /\ call' = [call EXCEPT ![p] = Idle]
  /\ UNCHANGED <<day, idem, usage, ledger, seq, created, answers>>

\* The answer may be lost on its way: the client then sends the key again.
AddAITransaction(p) ==
  LET c == call[p]
      id == seq + 1
  IN
  /\ c.pc = "write" /\ ~Claimed(c) /\ WithinQuota(c) /\ seq < MaxId
  /\ usage' = [u \in DOMAIN usage \cup {<<c.by[1], c.day>>} |->
                IF u = <<c.by[1], c.day>> THEN Used(c) + 1 ELSE usage[u]]
  /\ seq' = id /\ ledger' = ledger \cup {id}
  /\ idem' = [i \in DOMAIN idem \cup {c.by} |->
               IF i = c.by THEN [digest |-> c.digest, id |-> id] ELSE idem[i]]
  /\ created' = created \cup {[by |-> c.by, digest |-> c.digest, id |-> id, day |-> c.day]}
  /\ answers' = answers \cup {[by |-> c.by, digest |-> c.digest, id |-> id]}
  /\ call' = [call EXCEPT ![p] = Idle]
  /\ UNCHANGED day

----------------------------------------------------------------------------
\* The user deletes a transaction; its key stays claimed.
DeleteTransaction ==
  /\ \E id \in ledger : ledger' = ledger \ {id}
  /\ UNCHANGED <<day, idem, usage, seq, call, created, answers>>

\* An import in replace mode empties the tables of this module; a row it brings
\* gets an id of its own.
ReplaceImport ==
  /\ idem' = [i \in {} |-> NoRow] /\ usage' = [u \in {} |-> 0]
  /\ \E n \in 0..1 : seq + n <= MaxId /\ seq' = seq + n /\ ledger' = (seq + 1)..(seq + n)
  /\ created' = {} /\ answers' = {}
  /\ UNCHANGED <<day, call>>

\* The goroutines of the process end with it.
Restart == call' = [p \in Procs |-> Idle] /\ UNCHANGED <<day, idem, usage, ledger, seq, created, answers>>

NextDay == day < MaxDay /\ day' = day + 1 /\ UNCHANGED <<idem, usage, ledger, seq, call, created, answers>>

Next ==
  \/ \E p \in Procs :
       \/ \E by \in Identity, request \in Request : handleAITransactions(p, by, request)
       \/ Replay(p) \/ Refused(p) \/ AddAITransaction(p)
  \/ DeleteTransaction \/ ReplaceImport \/ Restart \/ NextDay

Spec == Init /\ [][Next]_vars

----------------------------------------------------------------------------
\* A key adds one transaction, however often, however written and on whatever
\* day it is sent: all answers of success for it name the same transaction and
\* the same content, also after that transaction was deleted (AddAITransaction,
\* claimAIIdempotency).  The day's count of a credential is the number of
\* transactions it added on that day, never above the quota: nothing that was
\* refused, rolled back or answered again counts (consumeAIDailyQuota).
AIOnce ==
  /\ \A a, b \in answers : a.by = b.by => a = b
  /\ \A a, b \in created : a.by = b.by => a = b
  /\ \A c \in Credentials, d \in 0..MaxDay :
       LET added == Cardinality({t \in created : t.by[1] = c /\ t.day = d})
           counted == IF <<c, d>> \in DOMAIN usage THEN usage[<<c, d>>] ELSE 0
       IN counted = added /\ added <= MaxTransactionsPerDay

=============================================================================
