-------------------------- MODULE LedgerEditProofs --------------------------
(***************************************************************************)
(* Facts about the tables of Ledger: how balances depend on rows, links on *)
(* accounts and settings, what the addition of rows and links keeps, where *)
(* an import places its rows; the inductive invariant, and that every      *)
(* operation but the imports keeps it and obeys the one-bank rule.         *)
(***************************************************************************)
EXTENDS Ledger, TLAPS

\* The bounds are natural numbers, and no account is the mark of a missing row.
LEMMA Bounds ==
    /\ MaxTx \in Nat /\ MaxBalance \in Nat /\ None \notin Accounts
    /\ Dates \subseteq Int \X Int /\ Amounts \subseteq Int /\ ItemLists \subseteq SUBSET Accounts
BY LedgerConstants

\* What the driver binds and what an export writes are texts of the date column.
LEMMA DateTexts ==
    /\ \A d \in Int \X Int : Bound(d) \in Text /\ Rfc3339(d) \in Text
    /\ \A date \in Text : Moment(date) \in Int \X Int
BY DEF Bound, Rfc3339, Moment, Text

\* A missing row is a row.
LEMMA NoTxRow == NoTx \in TxRow /\ NoTx.account = None
BY DEF NoTx, TxRow, Text

-----------------------------------------------------------------------------
(* Balances *)

\* The columns of a row that balances are computed from.
Same(t, u, a) ==
    \A k \in TxIds : t[k].account = a \/ u[k].account = a =>
        t[k].account = u[k].account /\ t[k].date = u[k].date /\ t[k].amount = u[k].amount

\* A balance depends on the rows of its own account only: recalculateBalanceIn
\* selects them by account.
LEMMA BalanceFrame ==
    ASSUME NEW t, NEW u, NEW i \in TxIds, Same(t, u, t[i].account)
    PROVE  Balance(t, i) = Balance(u, i)
<1>1. t[i].account = u[i].account /\ t[i].date = u[i].date
  BY DEF Same
<1> DEFINE Rows(w) == {k \in TxIds : w[k].account = w[i].account /\ UpTo(w, k, i)}
<1>2. Rows(t) = Rows(u)
  BY <1>1 DEF Same, UpTo
<1>3. \A k \in Rows(t) : t[k].amount = u[k].amount
  BY DEF Same
<1>4. [j \in Rows(t) |-> t[j].amount] = [j \in Rows(u) |-> u[j].amount]
  <2> HIDE DEF Rows
  <2> QED BY <1>2, <1>3
<1>5. QED
  BY <1>4 DEF Balance

\* BalancesExact of a table of transactions.
ExactIn(t) ==
    \A i \in Existing(t) : t[i].balance = Balance(t, i) /\ t[i].balance \in (-MaxBalance - 1)..MaxBalance

\* Recalculating changes balances only.
LEMMA RecalculateKeeps ==
    ASSUME NEW t \in [TxIds -> TxRow], NEW as, Representable(t, as)
    PROVE  /\ recalculateBalance(t, as) \in [TxIds -> TxRow]
           /\ \A k \in TxIds : /\ recalculateBalance(t, as)[k].account = t[k].account
                               /\ recalculateBalance(t, as)[k].date = t[k].date
                               /\ recalculateBalance(t, as)[k].amount = t[k].amount
                               /\ t[k].account \in as => recalculateBalance(t, as)[k].balance = Balance(t, k)
                               /\ t[k].account \notin as => recalculateBalance(t, as)[k].balance = t[k].balance
<1> DEFINE r == recalculateBalance(t, as)
<1>1. ASSUME NEW k \in TxIds
      PROVE  /\ r[k] \in TxRow
             /\ r[k].account = t[k].account
             /\ r[k].date = t[k].date
             /\ r[k].amount = t[k].amount
             /\ t[k].account \in as => r[k].balance = Balance(t, k)
             /\ t[k].account \notin as => r[k].balance = t[k].balance
  <2>1. t[k] \in TxRow
    OBVIOUS
  <2>2. CASE t[k].account \in as
    <3>1. Balance(t, k) \in Int
      <4>1. Balance(t, k) \in (-MaxBalance - 1)..MaxBalance
        BY <2>2, Zenon DEF Representable
      <4>2. QED
        BY <4>1, Bounds
    <3>2. r[k] = [t[k] EXCEPT !.balance = Balance(t, k)]
      BY <2>2, Zenon DEF recalculateBalance
    <3>3. QED
      BY <2>1, <2>2, <3>1, <3>2, Zenon DEF TxRow
  <2>3. CASE t[k].account \notin as
    <3>1. r[k] = t[k]
      BY <2>3 DEF recalculateBalance
    <3>2. QED
      BY <2>1, <2>3, <3>1, Zenon
  <2>4. QED
    BY <2>2, <2>3, Zenon
<1>2. r = [k \in TxIds |-> r[k]]
  BY DEF recalculateBalance
<1>3. r \in [TxIds -> TxRow]
  <2> HIDE DEF r
  <2> QED BY <1>1, <1>2, Zenon
<1>4. QED
  BY <1>1, <1>3, Zenon

\* The argument of every write: rows were edited in the accounts as only, and those
\* accounts are recalculated, so all balances are exact again.
LEMMA EditExact ==
    ASSUME NEW t \in [TxIds -> TxRow], NEW u \in [TxIds -> TxRow], NEW as,
           ExactIn(t), Representable(u, as),
           \A k \in TxIds : u[k] # t[k] => {u[k].account, t[k].account} \subseteq as \cup {None}
    PROVE  ExactIn(recalculateBalance(u, as))
<1> DEFINE r == recalculateBalance(u, as)
<1>1. /\ r \in [TxIds -> TxRow]
      /\ \A k \in TxIds : /\ r[k].account = u[k].account
                          /\ r[k].date = u[k].date
                          /\ r[k].amount = u[k].amount
                          /\ u[k].account \in as => r[k].balance = Balance(u, k)
                          /\ u[k].account \notin as => r[k].balance = u[k].balance
  BY RecalculateKeeps, ZenonT(60)
<1> HIDE DEF r
<1>2. ASSUME NEW i \in Existing(r)
      PROVE  r[i].balance = Balance(r, i) /\ r[i].balance \in (-MaxBalance - 1)..MaxBalance
  <2>1. i \in TxIds /\ u[i].account # None
    BY <1>1, Zenon DEF Existing
  <2>2. CASE u[i].account \in as
    <3>1. Same(u, r, u[i].account)
      BY <1>1, Zenon DEF Same
    <3>2. Balance(u, i) = Balance(r, i)
      BY <2>1, <3>1, BalanceFrame
    <3>3. QED
      BY <1>1, <2>1, <2>2, <3>2, Zenon DEF Representable
  <2>3. CASE u[i].account \notin as
    <3>1. u[i] = t[i]
      BY <2>1, <2>3, Zenon
    <3>2. Same(t, r, t[i].account)
      BY <1>1, <2>1, <2>3, <3>1, ZenonT(60) DEF Same
    <3>3. Balance(t, i) = Balance(r, i)
      BY <2>1, <3>2, BalanceFrame
    <3>4. i \in Existing(t)
      BY <2>1, <3>1 DEF Existing
    <3>5. QED
      BY <1>1, <2>1, <2>3, <3>1, <3>3, <3>4, ZenonT(60) DEF ExactIn
  <2>4. QED
    BY <2>2, <2>3, Zenon
<1>3. QED
  BY <1>2, Zenon DEF ExactIn, r

-----------------------------------------------------------------------------
(* Links *)

Pairs == {e \in TxIds \X TxIds : e[1] < e[2]}

\* LinksClassified of a ledger, with the order in which links are stored.
LinksIn(t, lk, s) == lk \subseteq Pairs /\ \A e \in lk : IsCardWithdrawal(t, s, e[1], e[2])

SameAccounts(t, u) == \A k \in TxIds : t[k].account = u[k].account

\* Settings hold sets of accounts.
LEMMA ListsHoldAccounts ==
    ASSUME NEW s \in Setting
    PROVE  Cards(s) \subseteq Accounts /\ Banks(s) \subseteq Accounts
BY DEF Setting, Cards, Banks, Items

\* The ends of a classified link exist: a missing row has no account.
LEMMA LinkEndsExist ==
    ASSUME NEW t, NEW lk, NEW s \in Setting, LinksIn(t, lk, s), NEW e \in lk
    PROVE  e \in Pairs /\ e[1] \in Existing(t) /\ e[2] \in Existing(t)
<1>1. e \in Pairs /\ e[1] \in TxIds /\ e[2] \in TxIds
  BY DEF LinksIn, Pairs
<1>2. t[e[1]].account \in Accounts /\ t[e[2]].account \in Accounts
  BY ListsHoldAccounts DEF LinksIn, IsCardWithdrawal
<1>3. QED
  BY <1>1, <1>2, Bounds DEF Existing

\* A stored link is ordered by id.
LEMMA EdgeOrdered ==
    ASSUME NEW a \in TxIds, NEW b \in TxIds
    PROVE  /\ a # b => Edge(a, b) \in Pairs
           /\ Edge(a, b) = <<a, b>> \/ Edge(a, b) = <<b, a>>
BY Bounds DEF Edge, Pairs, TxIds

\* An edge determines its ends.
LEMMA EdgeEnds ==
    ASSUME NEW a \in TxIds, NEW b \in TxIds, NEW c \in TxIds, NEW d \in TxIds, Edge(a, b) = Edge(c, d)
    PROVE  (a = c /\ b = d) \/ (a = d /\ b = c)
BY Bounds DEF Edge, TxIds

\* What links mean depends on the accounts of their ends.
LEMMA LinksFrame ==
    ASSUME NEW t, NEW u, SameAccounts(t, u), NEW lk, NEW s
    PROVE  /\ LinksIn(t, lk, s) => LinksIn(u, lk, s)
           /\ \A c \in TxIds : Assigned(t, lk, s, c) = Assigned(u, lk, s, c)
<1>1. \A e \in Pairs : IsCardWithdrawal(t, s, e[1], e[2]) => IsCardWithdrawal(u, s, e[1], e[2])
  BY DEF Pairs, IsCardWithdrawal, SameAccounts
<1>2. \A c, b \in TxIds : cardBankPair(t, s, c, b) <=> cardBankPair(u, s, c, b)
  BY DEF cardBankPair, SameAccounts
<1>3. LinksIn(t, lk, s) => LinksIn(u, lk, s)
  BY <1>1 DEF LinksIn
<1>4. \A c \in TxIds : Assigned(t, lk, s, c) = Assigned(u, lk, s, c)
  BY <1>2 DEF Assigned
<1>5. QED
  BY <1>3, <1>4

\* What pruneInvalidTransactionLinksIn leaves is classified.
LEMMA PrunedLinks ==
    ASSUME NEW t, NEW lk, lk \subseteq Pairs, NEW s
    PROVE  /\ LinksIn(t, pruneInvalidTransactionLinks(t, lk, s), s)
           /\ pruneInvalidTransactionLinks(t, lk, s) \subseteq lk
BY DEF pruneInvalidTransactionLinks, LinksIn

\* Fewer links, fewer banks.
LEMMA AssignedMonotone ==
    ASSUME NEW t, NEW lk, NEW more, lk \subseteq more, NEW s, NEW c
    PROVE  Assigned(t, lk, s, c) \subseteq Assigned(t, more, s, c)
BY DEF Assigned

\* A pair that may be linked is a card and a bank.
LEMMA MayLinkClassified ==
    ASSUME NEW t, NEW lk, NEW s, NEW a \in TxIds, NEW b \in TxIds, MayLink(t, lk, s, a, b)
    PROVE  /\ Edge(a, b) \in Pairs
           /\ IsCardWithdrawal(t, s, Edge(a, b)[1], Edge(a, b)[2])
<1>1. a # b /\ (cardBankPair(t, s, a, b) \/ cardBankPair(t, s, b, a))
  BY DEF MayLink
<1>2. Edge(a, b) \in Pairs
  BY <1>1, EdgeOrdered
<1>3. IsCardWithdrawal(t, s, a, b) /\ IsCardWithdrawal(t, s, b, a)
  BY <1>1 DEF cardBankPair, IsCardWithdrawal
<1>4. CASE Edge(a, b) = <<a, b>>
  BY <1>2, <1>3, <1>4
<1>5. CASE Edge(a, b) = <<b, a>>
  BY <1>2, <1>3, <1>5
<1>6. QED
  BY <1>4, <1>5, EdgeOrdered

\* The core of the one-bank rule: links added one after the other by
\* addCardBankLinkIn leave each card at most one bank, or the banks it had.
LEMMA LinkAdds ==
    ASSUME NEW t, NEW lk, NEW s, NEW id \in TxIds, NEW adds \in SUBSET TxIds,
           applyTransactionLinkChanges(t, lk, s, id, adds), NEW c \in TxIds
    PROVE  LET more == lk \cup {Edge(id, x) : x \in adds}
           IN AtMostOne(Assigned(t, more, s, c)) \/ Assigned(t, more, s, c) \subseteq Assigned(t, lk, s, c)
<1> DEFINE more == lk \cup {Edge(id, x) : x \in adds}
<1>1. SUFFICES ASSUME NEW b \in Assigned(t, more, s, c), b \notin Assigned(t, lk, s, c)
               PROVE  AtMostOne(Assigned(t, more, s, c))
  OBVIOUS
<1>2. b \in TxIds /\ cardBankPair(t, s, c, b) /\ Edge(c, b) \in more /\ Edge(c, b) \notin lk
  BY <1>1 DEF Assigned
<1>3. PICK x \in adds : Edge(c, b) = Edge(id, x)
  BY <1>2
<1> DEFINE others == lk \cup {Edge(id, y) : y \in adds \ {x}}
<1>4. x \in TxIds /\ MayLink(t, others, s, id, x)
  BY DEF applyTransactionLinkChanges
<1>5. (c = id /\ b = x) \/ (c = x /\ b = id)
  BY <1>2, <1>3, <1>4, EdgeEnds
<1>6. ~cardBankPair(t, s, b, c)
  BY <1>2 DEF cardBankPair
<1>7. Edge(c, b) \notin others
  <2>1. SUFFICES ASSUME Edge(c, b) \in {Edge(id, y) : y \in adds \ {x}}
                 PROVE  FALSE
    BY <1>2
  <2> PICK y \in adds \ {x} : Edge(c, b) = Edge(id, y)
    BY <2>1
  <2>2. y \in TxIds /\ x # y /\ Edge(id, x) = Edge(id, y)
    BY <1>3
  <2>3. x = y
    BY <1>4, <2>2, EdgeEnds
  <2>4. QED
    BY <2>2, <2>3
<1>8. \A e \in TxIds \ {b} : Edge(c, e) \in others => t[e].account \notin Banks(s)
  <2>1. PICK f \in {id, x} : \E d \in {id, x} \ {f} :
            /\ cardBankPair(t, s, f, d)
            /\ \/ Edge(f, d) \in others
               \/ \A e \in TxIds \ {d} : Edge(f, e) \in others => t[e].account \notin Banks(s)
    BY <1>4 DEF MayLink
  <2>2. PICK d \in {id, x} \ {f} :
            /\ cardBankPair(t, s, f, d)
            /\ \/ Edge(f, d) \in others
               \/ \A e \in TxIds \ {d} : Edge(f, e) \in others => t[e].account \notin Banks(s)
    BY <2>1
  <2> HIDE DEF others
  <2>3. f = c /\ d = b
    BY <1>5, <1>6, <2>2
  <2>4. QED
    BY <1>7, <2>2, <2>3
<1>9. ASSUME NEW g \in Assigned(t, more, s, c)
      PROVE  g = b
  <2>1. g \in TxIds /\ Edge(c, g) \in more /\ t[g].account \in Banks(s)
    BY DEF Assigned, cardBankPair
  <2>2. ASSUME g # b
        PROVE  Edge(c, g) # Edge(c, b)
    BY <1>2, <2>1, <2>2, EdgeEnds
  <2>3. ASSUME g # b
        PROVE  Edge(c, g) \in others
    BY <1>3, <2>1, <2>2, <2>3
  <2> HIDE DEF others
  <2>4. QED
    BY <1>8, <2>1, <2>3
<1>10. QED
  BY <1>9 DEF AtMostOne

-----------------------------------------------------------------------------
(* The inductive invariant, and operations that only add rows *)

IInv ==
    /\ tx \in [TxIds -> TxRow]
    /\ setting \in Setting
    /\ seq = [tx |-> seq.tx, tag |-> seq.tag, image |-> seq.image] /\ seq.tx \in Nat
    /\ \A i \in Existing(tx) : i <= seq.tx
    /\ LinksIn(tx, links, setting)
    /\ ExactIn(tx)

\* OneBankPerCard as a relation of two states.
OneBankStep ==
    \A c \in TxIds :
        LET after == Assigned(tx', links', setting', c)
        IN AtMostOne(after) \/ after \subseteq Assigned(tx, links, setting, c)

\* Links whose ends keep their accounts keep their meaning.
LEMMA LinksKept ==
    ASSUME NEW t, NEW u, NEW lk, NEW s \in Setting, LinksIn(t, lk, s),
           \A k \in Existing(t) : u[k].account = t[k].account
    PROVE  /\ LinksIn(u, lk, s)
           /\ \A c \in TxIds : Assigned(u, lk, s, c) \subseteq Assigned(t, lk, s, c)
<1>1. \A e \in lk : e \in Pairs /\ e[1] \in Existing(t) /\ e[2] \in Existing(t)
  BY LinkEndsExist
<1>2. LinksIn(u, lk, s)
  BY <1>1 DEF LinksIn, IsCardWithdrawal
<1>3. ASSUME NEW c \in TxIds, NEW b \in Assigned(u, lk, s, c)
      PROVE  b \in Assigned(t, lk, s, c)
  <2>1. b \in TxIds /\ Edge(c, b) \in lk /\ cardBankPair(u, s, c, b)
    BY DEF Assigned
  <2>2. c \in Existing(t) /\ b \in Existing(t)
    <3>1. CASE Edge(c, b) = <<c, b>>
      BY <1>1, <2>1, <3>1
    <3>2. CASE Edge(c, b) = <<b, c>>
      BY <1>1, <2>1, <3>2
    <3>3. QED
      BY <2>1, <3>1, <3>2, EdgeOrdered
  <2>3. cardBankPair(t, s, c, b)
    BY <2>1, <2>2 DEF cardBankPair
  <2>4. QED
    BY <2>1, <2>3 DEF Assigned
<1>4. QED
  BY <1>2, <1>3

\* Rows added beyond the last id, and their accounts recalculated.
LEMMA Grown ==
    ASSUME NEW t \in [TxIds -> TxRow], NEW u \in [TxIds -> TxRow], NEW as, NEW last \in Nat,
           NEW lk, NEW s \in Setting, ExactIn(t), LinksIn(t, lk, s), Representable(u, as),
           \A i \in Existing(t) : i <= last,
           \A k \in TxIds : u[k] # t[k] => k > last /\ u[k].account \in as \cup {None}
    PROVE  /\ recalculateBalance(u, as) \in [TxIds -> TxRow]
           /\ SameAccounts(recalculateBalance(u, as), u)
           /\ ExactIn(recalculateBalance(u, as))
           /\ LinksIn(recalculateBalance(u, as), lk, s)
           /\ \A c \in TxIds : Assigned(recalculateBalance(u, as), lk, s, c) \subseteq Assigned(t, lk, s, c)
<1> DEFINE r == recalculateBalance(u, as)
<1>1. r \in [TxIds -> TxRow] /\ SameAccounts(r, u)
  BY RecalculateKeeps, ZenonT(60) DEF SameAccounts
<1>2. \A k \in TxIds : u[k] # t[k] => {u[k].account, t[k].account} \subseteq as \cup {None}
  <2>1. \A k \in TxIds : k > last => t[k].account = None
    BY Bounds DEF Existing, TxIds
  <2>2. QED
    BY <2>1, Zenon
<1>3. ExactIn(r)
  BY <1>2, EditExact, Zenon
<1> HIDE DEF r
<1>4. \A k \in Existing(t) : r[k].account = t[k].account
  <2>1. ASSUME NEW k \in Existing(t)
        PROVE  k \in TxIds /\ u[k] = t[k]
    <3>1. k \in TxIds /\ k <= last
      BY DEF Existing
    <3>2. ~(k > last)
      BY <3>1, Bounds DEF TxIds
    <3>3. QED
      BY <3>1, <3>2, Zenon
  <2>2. QED
    BY <1>1, <2>1 DEF SameAccounts
<1>5. LinksIn(r, lk, s) /\ \A c \in TxIds : Assigned(r, lk, s, c) \subseteq Assigned(t, lk, s, c)
  BY <1>4, LinksKept, Zenon
<1>6. QED
  BY <1>1, <1>3, <1>5, Zenon DEF r

-----------------------------------------------------------------------------
(* New transactions *)

\* AddTransaction inserts one row beyond the last id.
LEMMA AddTransactionKeeps ==
    ASSUME IInv, NEW a \in Accounts, NEW d \in Dates, NEW m \in Amounts, NEW tags, NEW path, NEW imgs,
           AddTransaction(a, d, m, tags, path, imgs)
    PROVE  IInv' /\ OneBankStep
<1> DEFINE id == seq.tx + 1
           t == [tx EXCEPT ![id] = [account |-> a, date |-> Bound(d), amount |-> m, balance |-> 0]]
<1>1. /\ id \in TxIds /\ Representable(t, {a})
      /\ tx' = recalculateBalance(t, {a})
      /\ links' = links /\ setting' = setting
  BY DEF AddTransaction
<1>2. seq' = [tx |-> seq'.tx, tag |-> seq'.tag, image |-> seq'.image] /\ seq'.tx = id
  BY DEF AddTransaction
<1>3. t \in [TxIds -> TxRow] /\ \A k \in TxIds : t[k] # tx[k] => k > seq.tx /\ t[k].account = a
  <2>1. Bound(d) \in Text /\ m \in Int
    BY Bounds, DateTexts
  <2>2. QED
    BY <1>1, <2>1, Bounds DEF IInv, TxRow, TxIds
<1>4. /\ tx' \in [TxIds -> TxRow] /\ SameAccounts(tx', t) /\ ExactIn(tx') /\ LinksIn(tx', links, setting)
      /\ \A c \in TxIds : Assigned(tx', links, setting, c) \subseteq Assigned(tx, links, setting, c)
  <2> HIDE DEF t
  <2>1. /\ tx \in [TxIds -> TxRow] /\ seq.tx \in Nat /\ setting \in Setting /\ ExactIn(tx)
        /\ LinksIn(tx, links, setting) /\ \A i \in Existing(tx) : i <= seq.tx
    BY DEF IInv
  <2>2. QED
    BY <1>1, <1>3, <2>1, Grown, Zenon
<1>5. \A i \in Existing(tx') : i <= seq'.tx
  <2>1. ASSUME NEW i \in Existing(tx')
        PROVE  i <= id
    <3>1. i \in TxIds /\ t[i].account # None
      BY <1>4 DEF Existing, SameAccounts
    <3>2. i = id \/ i \in Existing(tx)
      BY <3>1 DEF Existing, IInv
    <3>3. QED
      BY <3>1, <3>2 DEF IInv, TxIds
  <2>2. QED
    BY <1>2, <2>1
<1>6. setting \in Setting /\ seq'.tx \in Nat
  BY <1>2 DEF IInv
<1> HIDE DEF id, t
<1>7. IInv' /\ OneBankStep
  BY <1>1, <1>2, <1>4, <1>5, <1>6, Zenon DEF IInv, OneBankStep
<1>8. QED
  BY <1>7

-----------------------------------------------------------------------------
(* Edits and deletions *)

\* The last transaction id is kept by an operation that inserts tags and images only.
SeqKept == seq' = [tx |-> seq'.tx, tag |-> seq'.tag, image |-> seq'.image] /\ seq'.tx = seq.tx

\* UpdateTransaction: the one-bank rule is checked per link when the account stays,
\* and for all cards when it changes.
LEMMA UpdateTransactionKeeps ==
    ASSUME IInv, NEW id \in Existing(tx), NEW a \in Accounts, NEW d \in Dates, NEW m \in Amounts, NEW tags, NEW path,
           NEW gone, NEW imgs, NEW adds \in SUBSET (Existing(tx) \ {id}), NEW removes,
           UpdateTransaction(id, a, d, m, tags, path, gone, imgs, adds, removes)
    PROVE  IInv' /\ OneBankStep
<1> DEFINE old  == tx[id].account
           t    == [tx EXCEPT ![id] = [account |-> a, date |-> Bound(d), amount |-> m, balance |-> tx[id].balance]]
           less == links \ {Edge(id, x) : x \in removes}
           more == less \cup {Edge(id, x) : x \in adds}
           lk   == pruneInvalidTransactionLinks(t, more, setting)
<1>1. /\ applyTransactionLinkChanges(t, less, setting, id, adds)
      /\ Representable(t, {old, a})
      /\ old # a => validateCardBankAssignmentChanges(t, lk, setting, [c \in TxIds |-> Assigned(tx, links, setting, c)])
      /\ tx' = recalculateBalance(t, {old, a})
      /\ links' = lk /\ setting' = setting
  BY DEF UpdateTransaction, Touched
<1>2. SeqKept
  BY Zenon DEF UpdateTransaction, IInv, SeqKept
<1>3. /\ tx \in [TxIds -> TxRow] /\ setting \in Setting /\ ExactIn(tx) /\ seq.tx \in Nat
      /\ links \subseteq Pairs /\ id \in TxIds /\ adds \in SUBSET TxIds /\ \A i \in Existing(tx) : i <= seq.tx
  BY DEF IInv, LinksIn, Existing
<1>4. /\ t \in [TxIds -> TxRow] /\ t[id].account = a
      /\ \A k \in TxIds : k # id => t[k] = tx[k]
  <2>1. Bound(d) \in Text /\ m \in Int
    BY Bounds, DateTexts
  <2>2. QED
    BY <1>3, <2>1 DEF TxRow
<1>5. more \subseteq Pairs
  <2>1. ASSUME NEW x \in adds
        PROVE  Edge(id, x) \in Pairs
    <3>1. x \in TxIds /\ MayLink(t, less \cup {Edge(id, y) : y \in adds \ {x}}, setting, id, x)
      BY <1>1, <1>3, Zenon DEF applyTransactionLinkChanges
    <3>2. QED
      BY <1>3, <3>1, MayLinkClassified
  <2>2. QED
    BY <1>3, <2>1
<1>6. old = a => SameAccounts(tx, t)
  BY <1>3, <1>4 DEF SameAccounts
<1>7. less \subseteq links
  OBVIOUS
<1> HIDE DEF t, less
<1>8. /\ tx' \in [TxIds -> TxRow] /\ SameAccounts(t, tx')
  <2>1. \A k \in TxIds : recalculateBalance(t, {old, a})[k].account = t[k].account
    BY <1>1, <1>4, RecalculateKeeps
  <2>2. recalculateBalance(t, {old, a}) \in [TxIds -> TxRow]
    BY <1>1, <1>4, RecalculateKeeps, Zenon
  <2>3. QED
    BY <1>1, <2>1, <2>2, Zenon DEF SameAccounts
<1>9. ExactIn(tx')
  <2>1. \A k \in TxIds : t[k] # tx[k] => {t[k].account, tx[k].account} \subseteq {old, a} \cup {None}
    BY <1>4
  <2>2. QED
    BY <1>1, <1>3, <1>4, <2>1, EditExact
<1>10. /\ LinksIn(t, lk, setting) /\ lk \subseteq more
  BY <1>5, PrunedLinks
<1> HIDE DEF more, lk
<1>11. LinksIn(tx', lk, setting) /\ \A c \in TxIds : Assigned(t, lk, setting, c) = Assigned(tx', lk, setting, c)
  BY <1>8, <1>10, LinksFrame
<1>12. \A i \in Existing(tx') : i \in Existing(tx)
  <2>1. ASSUME NEW i \in Existing(tx')
        PROVE  i \in Existing(tx)
    <3>1. i \in TxIds /\ t[i].account # None
      BY <1>8 DEF Existing, SameAccounts
    <3>2. QED
      BY <1>4, <3>1 DEF Existing
  <2>2. QED
    BY <2>1
<1>13. IInv'
  BY <1>1, <1>2, <1>3, <1>8, <1>9, <1>11, <1>12, Zenon DEF IInv, SeqKept
<1>14. ASSUME NEW c \in TxIds
       PROVE  \/ AtMostOne(Assigned(t, lk, setting, c))
              \/ Assigned(t, lk, setting, c) \subseteq Assigned(tx, links, setting, c)
  <2>1. CASE old # a
    BY <1>1, <2>1 DEF validateCardBankAssignmentChanges
  <2>2. CASE old = a
    <3>1. \/ AtMostOne(Assigned(t, more, setting, c))
          \/ Assigned(t, more, setting, c) \subseteq Assigned(t, less, setting, c)
      BY <1>1, <1>3, LinkAdds DEF more
    <3>2. Assigned(t, lk, setting, c) \subseteq Assigned(t, more, setting, c)
      BY <1>10, AssignedMonotone
    <3>3. Assigned(t, less, setting, c) \subseteq Assigned(t, links, setting, c)
      BY <1>7, AssignedMonotone
    <3>4. Assigned(tx, links, setting, c) = Assigned(t, links, setting, c)
      BY <1>6, <2>2, LinksFrame
    <3>5. QED
      BY <3>1, <3>2, <3>3, <3>4 DEF AtMostOne
  <2>3. QED
    BY <2>1, <2>2
<1>15. OneBankStep
  BY <1>1, <1>11, <1>14, Zenon DEF OneBankStep, Existing
<1>16. QED
  BY <1>13, <1>15

\* DeleteTransaction: the links of the row go with it.
LEMMA DeleteTransactionKeeps ==
    ASSUME IInv, NEW id, DeleteTransaction(id)
    PROVE  IInv' /\ OneBankStep
<1> DEFINE a == tx[id].account
           t == [tx EXCEPT ![id] = NoTx]
           lk == {e \in links : id \notin {e[1], e[2]}}
<1>1. /\ id \in Existing(tx) /\ Representable(t, {a}) /\ tx' = recalculateBalance(t, {a})
      /\ links' = lk /\ setting' = setting /\ seq' = seq
  BY DEF DeleteTransaction
<1>2. /\ tx \in [TxIds -> TxRow] /\ setting \in Setting /\ ExactIn(tx) /\ seq.tx \in Nat
      /\ LinksIn(tx, links, setting) /\ id \in TxIds /\ \A i \in Existing(tx) : i <= seq.tx
  BY <1>1 DEF IInv, Existing
<1>3. /\ t \in [TxIds -> TxRow] /\ t[id].account = None /\ \A k \in TxIds : k # id => t[k] = tx[k]
  BY <1>2, NoTxRow
<1> HIDE DEF t
<1>4. tx' \in [TxIds -> TxRow] /\ SameAccounts(t, tx')
  <2>1. \A k \in TxIds : recalculateBalance(t, {a})[k].account = t[k].account
    BY <1>1, <1>3, RecalculateKeeps
  <2>2. recalculateBalance(t, {a}) \in [TxIds -> TxRow]
    BY <1>1, <1>3, RecalculateKeeps, Zenon
  <2>3. QED
    BY <1>1, <2>1, <2>2, Zenon DEF SameAccounts
<1>5. ExactIn(tx')
  <2>1. \A k \in TxIds : t[k] # tx[k] => {t[k].account, tx[k].account} \subseteq {a} \cup {None}
    BY <1>3
  <2>2. QED
    BY <1>1, <1>2, <1>3, <2>1, EditExact
<1>6. \A i \in Existing(tx') : i \in Existing(tx) /\ tx'[i].account = tx[i].account
  BY <1>3, <1>4 DEF Existing, SameAccounts
<1>7. LinksIn(tx', lk, setting)
  BY <1>2, <1>3, <1>4 DEF LinksIn, Pairs, IsCardWithdrawal, SameAccounts
<1>8. ASSUME NEW c \in TxIds
      PROVE  Assigned(tx', lk, setting, c) \subseteq Assigned(tx, links, setting, c)
  <2>1. ASSUME NEW b \in Assigned(tx', lk, setting, c)
        PROVE  b \in Assigned(tx, links, setting, c)
    <3>1. b \in TxIds /\ Edge(c, b) \in links /\ cardBankPair(tx', setting, c, b)
      BY DEF Assigned
    <3>2. c \in Existing(tx') /\ b \in Existing(tx')
      BY <1>2, <3>1, ListsHoldAccounts, Bounds DEF cardBankPair, Existing
    <3>3. QED
      BY <1>6, <3>1, <3>2 DEF Assigned, cardBankPair
  <2>2. QED
    BY <2>1
<1> HIDE DEF lk
<1>9. IInv'
  BY <1>1, <1>2, <1>4, <1>5, <1>6, <1>7, Zenon DEF IInv
<1>10. OneBankStep
  BY <1>1, <1>8 DEF OneBankStep
<1>11. QED
  BY <1>9, <1>10

-----------------------------------------------------------------------------
(* Settings, links, tags and images *)

\* saveStringSliceSetting checks the rule against the links that survive.
LEMMA SettingKeeps ==
    ASSUME IInv, NEW key \in DOMAIN setting, NEW items \in ItemLists, saveStringSliceSetting(key, items)
    PROVE  IInv' /\ OneBankStep
<1> DEFINE s == [setting EXCEPT ![key] = items]
           lk == pruneInvalidTransactionLinks(tx, links, s)
<1>1. /\ validateCardBankAssignmentChanges(tx, lk, s, [c \in TxIds |-> Assigned(tx, links, setting, c)])
      /\ setting' = s /\ links' = lk /\ tx' = tx /\ seq' = seq
  BY DEF saveStringSliceSetting
<1>2. s \in Setting
  BY Bounds DEF IInv, Setting
<1> HIDE DEF s
<1>3. LinksIn(tx, lk, s)
  BY PrunedLinks DEF IInv, LinksIn
<1> HIDE DEF lk
<1>4. \A c \in TxIds : \/ AtMostOne(Assigned(tx, lk, s, c))
                       \/ Assigned(tx, lk, s, c) \subseteq Assigned(tx, links, setting, c)
  BY <1>1 DEF validateCardBankAssignmentChanges
<1>5. IInv'
  BY <1>1, <1>2, <1>3 DEF IInv
<1>6. OneBankStep
  BY <1>1, <1>4 DEF OneBankStep, Existing
<1>7. QED
  BY <1>5, <1>6

\* AddTransactionLink is the list of one link.
LEMMA AddTransactionLinkKeeps ==
    ASSUME IInv, NEW a, NEW b, AddTransactionLink(a, b)
    PROVE  IInv' /\ OneBankStep
<1>1. /\ a \in TxIds /\ b \in TxIds /\ MayLink(tx, links, setting, a, b)
      /\ links' = links \cup {Edge(a, b)} /\ tx' = tx /\ setting' = setting /\ seq' = seq
  BY DEF AddTransactionLink, Existing
<1>2. Edge(a, b) \in Pairs /\ IsCardWithdrawal(tx, setting, Edge(a, b)[1], Edge(a, b)[2])
  BY <1>1, MayLinkClassified
<1>3. LinksIn(tx, links', setting)
  BY <1>1, <1>2 DEF IInv, LinksIn
<1>4. applyTransactionLinkChanges(tx, links, setting, a, {b})
  <2>1. links \cup {Edge(a, y) : y \in {b} \ {b}} = links
    OBVIOUS
  <2>2. QED
    BY <1>1, <2>1 DEF applyTransactionLinkChanges
<1>5. links' = links \cup {Edge(a, x) : x \in {b}}
  BY <1>1
<1>6. \A c \in TxIds : \/ AtMostOne(Assigned(tx, links', setting, c))
                       \/ Assigned(tx, links', setting, c) \subseteq Assigned(tx, links, setting, c)
  BY <1>1, <1>4, <1>5, LinkAdds, SMTT(60)
<1>7. IInv'
  BY <1>1, <1>3 DEF IInv
<1>8. OneBankStep
  BY <1>1, <1>6 DEF OneBankStep, Existing
<1>9. QED
  BY <1>7, <1>8

\* RemoveTransactionLink only takes links away.
LEMMA RemoveTransactionLinkKeeps ==
    ASSUME IInv, NEW a, NEW b, RemoveTransactionLink(a, b)
    PROVE  IInv' /\ OneBankStep
<1>1. links' \subseteq links /\ tx' = tx /\ setting' = setting /\ seq' = seq
  BY DEF RemoveTransactionLink
<1>2. IInv'
  BY <1>1 DEF IInv, LinksIn
<1>3. \A c : Assigned(tx, links', setting, c) \subseteq Assigned(tx, links, setting, c)
  BY <1>1 DEF Assigned
<1>4. QED
  BY <1>1, <1>2, <1>3 DEF OneBankStep

\* The operations on tags and images leave transactions, links and settings alone.
LEMMA OthersKeep ==
    ASSUME IInv, tx' = tx, links' = links, setting' = setting, SeqKept
    PROVE  IInv' /\ OneBankStep
<1>1. IInv'
  BY DEF IInv, SeqKept
<1>2. OneBankStep
  BY DEF OneBankStep
<1>3. QED
  BY <1>1, <1>2

\* The operations on tags and images, and steps that change nothing.
LEMMA TagsAndImagesKeep ==
    ASSUME IInv,
           \/ \E n, p : CreateTag(n, p)
           \/ \E path : CreateTagByPath(path)
           \/ \E g, n : UpdateTag(g, n)
           \/ \E g : DeleteTag(g) \/ DeleteTransactionImage(g)
           \/ \E id, tags : AddTransactionTags(id, tags)
           \/ \E id, g : RemoveTransactionTag(id, g)
           \/ \E id, list : AddTransactionImage(id, list)
           \/ UNCHANGED vars
    PROVE  IInv' /\ OneBankStep
<1>0. seq = [tx |-> seq.tx, tag |-> seq.tag, image |-> seq.image]
  BY DEF IInv
<1> DEFINE Rest == tx' = tx /\ links' = links /\ setting' = setting /\ SeqKept
<1>1. ASSUME NEW n, NEW p, CreateTag(n, p)
      PROVE  Rest
  BY <1>0, <1>1, Zenon DEF CreateTag, SeqKept
<1>2. ASSUME NEW path, CreateTagByPath(path)
      PROVE  Rest
  BY <1>0, <1>2 DEF CreateTagByPath, SeqKept
<1>3. ASSUME NEW id, NEW list, AddTransactionImage(id, list)
      PROVE  Rest
  BY <1>0, <1>3 DEF AddTransactionImage, SeqKept
<1>4. ASSUME NEW g, NEW n, UpdateTag(g, n)
      PROVE  Rest
  BY <1>0, <1>4 DEF UpdateTag, SeqKept
<1>5. ASSUME NEW g, DeleteTag(g) \/ DeleteTransactionImage(g)
      PROVE  Rest
  BY <1>0, <1>5 DEF DeleteTag, DeleteTransactionImage, SeqKept
<1>6. ASSUME NEW id, NEW x, AddTransactionTags(id, x) \/ RemoveTransactionTag(id, x)
      PROVE  Rest
  BY <1>0, <1>6 DEF AddTransactionTags, RemoveTransactionTag, SeqKept
<1>7. ASSUME UNCHANGED vars
      PROVE  Rest
  BY <1>0, <1>7 DEF vars, SeqKept
<1>8. Rest
  BY <1>1, <1>2, <1>3, <1>4, <1>5, <1>6, <1>7
<1>9. QED
  BY <1>8, OthersKeep

-----------------------------------------------------------------------------
(* Rows that an import places *)

\* The ids that an import gives to the members of S follow the last id.
After(ids, S, last) ==
    /\ DOMAIN ids = S
    /\ \A x \in S : ids[x] \in Nat /\ ids[x] > last /\ ids[x] <= last + Cardinality(S)

\* Sets of rows can be counted, since an id is at most MaxTx.  LedgerProofs shows it:
\* here it is a hypothesis, so that these proofs do without the theory of finite sets.
RowsCount ==
    \A S \in SUBSET TxIds :
        /\ Cardinality(S) \in Nat
        /\ \A F \in SUBSET S : F # {} => Cardinality(F) >= 1 /\ Cardinality(F) <= Cardinality(S)

\* An export numbers the places of its rows from 1, in the order of the query.
LEMMA ExportPlaces ==
    ASSUME RowsCount, NEW t
    PROVE  After(NewIds(InFileOrder(t), 0), Existing(t), 0)
<1> DEFINE S == Existing(t)
           F(x) == {y \in S : FileOrder(t, y, x)}
<1>1. S \in SUBSET TxIds
  BY DEF Existing
<1>2. ASSUME NEW x \in S
      PROVE  F(x) \in SUBSET S /\ F(x) # {}
  <2>1. x \in TxIds /\ x <= x
    BY <1>1, Bounds DEF TxIds
  <2>2. x \in F(x)
    BY <2>1 DEF FileOrder, UpTo
  <2>3. QED
    BY <2>2
<1> HIDE DEF F, S
<1>3. ASSUME NEW x \in S
      PROVE  /\ 0 + Cardinality(F(x)) \in Nat
             /\ 0 + Cardinality(F(x)) > 0
             /\ 0 + Cardinality(F(x)) <= 0 + Cardinality(S)
  <2>1. /\ Cardinality(S) \in Nat /\ Cardinality(F(x)) \in Nat
        /\ Cardinality(F(x)) >= 1 /\ Cardinality(F(x)) <= Cardinality(S)
    BY <1>1, <1>2 DEF RowsCount
  <2>2. QED
    BY <2>1
<1>4. NewIds(InFileOrder(t), 0) = [x \in S |-> 0 + Cardinality(F(x))]
  BY DEF NewIds, InFileOrder, F, S
<1>5. After([x \in S |-> 0 + Cardinality(F(x))], S, 0)
  BY <1>3 DEF After
<1>6. QED
  BY <1>4, <1>5, Zenon DEF S

\* Both imports number their rows after the last id, in the order of the file.
LEMMA FileIdsFollow ==
    ASSUME RowsCount, NEW A, After(A.place, Existing(A.tx), 0), NEW last \in Nat
    PROVE  After(FileIds(A, last), Existing(A.tx), last)
<1>1. Cardinality(Existing(A.tx)) \in Nat
  BY DEF RowsCount, Existing
<1>2. QED
  BY <1>1 DEF After, FileIds

\* Placing rows under new ids changes no row that was there.
LEMMA PlacedRows ==
    ASSUME RowsCount, NEW f \in [TxIds -> TxRow], NEW old \in [TxIds -> TxRow], NEW last \in Nat, NEW ids,
           After(ids, Existing(f), last), \A i \in Existing(old) : i <= last
    PROVE  LET u == Placed(f, ids, old)
           IN /\ u \in [TxIds -> TxRow]
              /\ \A k \in TxIds : u[k] # old[k] =>
                    k > last /\ \E x \in DOMAIN ids : ids[x] = k /\ u[k].account = f[x].account
              /\ \A k \in Existing(u) : k <= last + Cardinality(Existing(f))
<1> DEFINE u == Placed(f, ids, old)
           new(k) == \E x \in DOMAIN ids : ids[x] = k
           from(k) == CHOOSE x \in DOMAIN ids : ids[x] = k
<1>1. u = [k \in TxIds |-> IF new(k) THEN f[from(k)] ELSE old[k]]
  BY DEF Placed
<1>2. \A k : new(k) => from(k) \in DOMAIN ids /\ ids[from(k)] = k
  OBVIOUS
<1>3. DOMAIN ids = Existing(f) /\ \A x \in Existing(f) : x \in TxIds
  BY DEF After, Existing
<1> HIDE DEF u, from
<1>4. ASSUME NEW k \in TxIds, new(k)
      PROVE  /\ u[k] = f[from(k)] /\ u[k] \in TxRow
             /\ k > last /\ k <= last + Cardinality(Existing(f))
             /\ from(k) \in DOMAIN ids /\ ids[from(k)] = k
  <2>1. from(k) \in DOMAIN ids /\ ids[from(k)] = k
    BY <1>2, <1>4
  <2>2. u[k] = f[from(k)]
    BY <1>1, <1>4
  <2>3. QED
    BY <1>3, <2>1, <2>2 DEF After
<1>5. ASSUME NEW k \in TxIds, ~new(k)
      PROVE  u[k] = old[k]
  BY <1>1, <1>5
<1> HIDE DEF new
<1>6. u \in [TxIds -> TxRow]
  <2>1. \A k \in TxIds : u[k] \in TxRow
    BY <1>4, <1>5
  <2>2. QED
    BY <1>1, <2>1
<1>7. \A k \in TxIds : u[k] # old[k] =>
          k > last /\ \E x \in DOMAIN ids : ids[x] = k /\ u[k].account = f[x].account
  BY <1>4, <1>5
<1>8. ASSUME NEW k \in Existing(u)
      PROVE  k <= last + Cardinality(Existing(f))
  <2>1. k \in TxIds
    BY DEF Existing
  <2>2. CASE new(k)
    BY <1>4, <2>1, <2>2
  <2>3. CASE ~new(k)
    <3>1. k <= last
      BY <1>5, <2>1, <2>3 DEF Existing
    <3>2. Cardinality(Existing(f)) \in Nat
      BY DEF RowsCount, Existing
    <3>3. QED
      BY <2>1, <3>1, <3>2, Bounds DEF TxIds
  <2>4. QED
    BY <2>2, <2>3
<1>9. QED
  BY <1>6, <1>7, <1>8 DEF u
=============================================================================
