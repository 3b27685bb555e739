---------------------------- MODULE LedgerProofs ----------------------------
(***************************************************************************)
(* Proofs about Ledger, for every number of transactions, tags and images, *)
(* every account and amount, every archive and every legacy ledger: the    *)
(* balances are exact, links join a card and a bank, no card gains a       *)
(* second bank, and none is reconciled twice unnoticed.  What the tag and  *)
(* image tables hold is left to TLC: it is computed by folds, and these    *)
(* properties do not depend on it.                                         *)
(***************************************************************************)
EXTENDS LedgerEditProofs, FiniteSetTheorems

(* The import of the older format *)

\* What the proof needs to know of an archive, whether it comes from elsewhere or
\* is an export of this ledger.
Source(A) ==
    /\ A.tx \in [TxIds -> TxRow] /\ A.setting \in Setting
    /\ A.links \subseteq Pairs /\ \A e \in A.links : e[1] \in Existing(A.tx) /\ e[2] \in Existing(A.tx)
    /\ After(A.place, Existing(A.tx), 0)

\* Writing the dates of the rows in another form changes dates only.
LEMMA DatesRewritten ==
    ASSUME NEW t \in [TxIds -> TxRow], NEW u, u = [i \in TxIds |-> u[i]],
           \A i \in TxIds : u[i] = t[i] \/ \E date \in Text : u[i] = [t[i] EXCEPT !.date = date]
    PROVE  u \in [TxIds -> TxRow] /\ SameAccounts(t, u) /\ Existing(u) = Existing(t)
<1>1. ASSUME NEW i \in TxIds
      PROVE  u[i] \in TxRow /\ u[i].account = t[i].account
  BY DEF TxRow
<1>2. QED
  BY <1>1 DEF SameAccounts, Existing

\* Archives and exports of this ledger are well formed.
LEMMA AvailableSources ==
    ASSUME RowsCount, IInv, NEW A \in Available
    PROVE  Source(A)
<1>1. CASE A \in Archives
  <2>1. /\ IsLedger(A) /\ \A e \in A.links : {e[1], e[2]} \subseteq Existing(A.tx)
        /\ A.place \in [Existing(A.tx) -> 1..Cardinality(Existing(A.tx))]
    BY <1>1, ArchivesAssumption
  <2>2. Cardinality(Existing(A.tx)) \in Nat
    BY DEF RowsCount, Existing
  <2>3. After(A.place, Existing(A.tx), 0)
    BY <2>1, <2>2 DEF After
  <2>4. QED
    BY <2>1, <2>3 DEF Source, IsLedger, Pairs
<1>2. CASE A = backupToCSVV3(ledger)
  <2>1. /\ A.tx = [i \in TxIds |-> AsExported(tx[i])] /\ A.links = links /\ A.setting = setting
        /\ A.place = NewIds(InFileOrder(tx), 0)
    BY <1>2 DEF backupToCSVV3, ledger
  <2>2. tx \in [TxIds -> TxRow] /\ setting \in Setting /\ LinksIn(tx, links, setting)
    BY DEF IInv
  <2>3. links \subseteq Pairs /\ \A e \in links : e[1] \in Existing(tx) /\ e[2] \in Existing(tx)
    BY <2>2, LinkEndsExist
  <2>4. ASSUME NEW i \in TxIds
        PROVE  A.tx[i] = tx[i] \/ \E date \in Text : A.tx[i] = [tx[i] EXCEPT !.date = date]
    <3>1. tx[i].date \in Text
      BY <2>2 DEF TxRow
    <3>2. Rfc3339(Moment(tx[i].date)) \in Text
      BY <3>1, DateTexts
    <3>3. QED
      BY <2>1, <3>2 DEF AsExported
  <2>5. A.tx = [i \in TxIds |-> A.tx[i]]
    BY <2>1
  <2>6. A.tx \in [TxIds -> TxRow] /\ Existing(A.tx) = Existing(tx)
    BY <2>2, <2>4, <2>5, DatesRewritten, Zenon
  <2>7. After(A.place, Existing(A.tx), 0)
    BY <2>1, <2>6, ExportPlaces
  <2>8. QED
    BY <2>1, <2>2, <2>3, <2>6, <2>7 DEF Source
<1>3. QED
  BY <1>1, <1>2 DEF Available

\* importCSVLegacyRows adds rows and no links.
LEMMA ImportLegacyCSVKeeps ==
    ASSUME RowsCount, IInv, NEW A \in Available, ImportLegacyCSV(A)
    PROVE  IInv' /\ OneBankStep
<1> DEFINE ids == FileIds(A, seq.tx)
           f   == [i \in TxIds |-> [A.tx[i] EXCEPT !.date = Bound(Moment(@))]]
           t   == Placed(f, ids, tx)
           as  == {A.tx[i].account : i \in DOMAIN ids}
<1>1. /\ Representable(t, as) /\ tx' = recalculateBalance(t, as)
      /\ seq' = [seq EXCEPT !.tx = seq.tx + Cardinality(DOMAIN ids)]
      /\ links' = links /\ setting' = setting
  BY Zenon DEF ImportLegacyCSV
<1>2. /\ tx \in [TxIds -> TxRow] /\ setting \in Setting /\ ExactIn(tx) /\ seq.tx \in Nat
      /\ LinksIn(tx, links, setting) /\ \A i \in Existing(tx) : i <= seq.tx
      /\ seq = [tx |-> seq.tx, tag |-> seq.tag, image |-> seq.image]
  BY DEF IInv
<1>3. A.tx \in [TxIds -> TxRow] /\ After(A.place, Existing(A.tx), 0)
  BY AvailableSources DEF Source
<1>4. After(ids, Existing(A.tx), seq.tx)
  BY <1>2, <1>3, FileIdsFollow, Zenon
<1>5. f \in [TxIds -> TxRow] /\ SameAccounts(A.tx, f) /\ Existing(f) = Existing(A.tx)
  <2>1. ASSUME NEW i \in TxIds
        PROVE  \E date \in Text : f[i] = [A.tx[i] EXCEPT !.date = date]
    <3>1. A.tx[i].date \in Text
      BY <1>3 DEF TxRow
    <3>2. Bound(Moment(A.tx[i].date)) \in Text
      BY <3>1, DateTexts
    <3>3. f[i] = [A.tx[i] EXCEPT !.date = Bound(Moment(A.tx[i].date))]
      OBVIOUS
    <3>4. QED
      BY <3>2, <3>3
  <2>2. f = [i \in TxIds |-> f[i]]
    OBVIOUS
  <2> HIDE DEF f
  <2>3. QED
    BY <1>3, <2>1, <2>2, DatesRewritten, Zenon
<1> HIDE DEF ids, f
<1>6. /\ t \in [TxIds -> TxRow]
      /\ \A k \in TxIds : t[k] # tx[k] =>
            k > seq.tx /\ \E x \in DOMAIN ids : ids[x] = k /\ t[k].account = A.tx[x].account
      /\ \A k \in Existing(t) : k <= seq.tx + Cardinality(Existing(A.tx))
  <2>1. /\ t \in [TxIds -> TxRow]
        /\ \A k \in TxIds : t[k] # tx[k] =>
              k > seq.tx /\ \E x \in DOMAIN ids : ids[x] = k /\ t[k].account = f[x].account
        /\ \A k \in Existing(t) : k <= seq.tx + Cardinality(Existing(f))
    BY <1>2, <1>4, <1>5, PlacedRows
  <2>2. \A x \in DOMAIN ids : f[x].account = A.tx[x].account
    BY <1>4, <1>5 DEF After, Existing, SameAccounts
  <2>3. QED
    BY <1>5, <2>1, <2>2
<1> HIDE DEF t
<1>7. \A k \in TxIds : t[k] # tx[k] => k > seq.tx /\ t[k].account \in as \cup {None}
  BY <1>6
<1> HIDE DEF as
<1>8. /\ tx' \in [TxIds -> TxRow] /\ SameAccounts(tx', t) /\ ExactIn(tx') /\ LinksIn(tx', links, setting)
      /\ \A c \in TxIds : Assigned(tx', links, setting, c) \subseteq Assigned(tx, links, setting, c)
  BY <1>1, <1>2, <1>6, <1>7, Grown, Zenon
<1>9. DOMAIN ids = Existing(A.tx) /\ Cardinality(Existing(A.tx)) \in Nat
  BY <1>4 DEF After, RowsCount, Existing
<1>10. /\ seq' = [tx |-> seq'.tx, tag |-> seq'.tag, image |-> seq'.image]
      /\ seq'.tx = seq.tx + Cardinality(Existing(A.tx)) /\ seq'.tx \in Nat
  BY <1>1, <1>2, <1>9
<1>11. \A i \in Existing(tx') : i <= seq'.tx
  BY <1>6, <1>8, <1>10 DEF Existing, SameAccounts
<1>12. IInv'
  BY <1>1, <1>2, <1>8, <1>10, <1>11, Zenon DEF IInv
<1>13. OneBankStep
  BY <1>1, <1>8, Zenon DEF OneBankStep
<1>14. QED
  BY <1>12, <1>13

-----------------------------------------------------------------------------
(* The import of version 3 *)

\* A version 3 import into ledger L: either this ledger or the empty one.
Base(L) ==
    /\ L.tx \in [TxIds -> TxRow] /\ L.setting \in Setting
    /\ LinksIn(L.tx, L.links, L.setting) /\ ExactIn(L.tx)
    /\ \A i \in Existing(L.tx) : i <= seq.tx

\* The merged settings keep every list that was set: Accepted refuses a different one.
LEMMA MergedSettings ==
    ASSUME NEW old \in Setting, NEW more \in Setting, NEW new,
           new = [k \in DOMAIN old |-> IF more[k] # None THEN more[k] ELSE old[k]],
           \A k \in DOMAIN old : old[k] # None /\ more[k] # None => old[k] = more[k]
    PROVE  new \in Setting /\ Cards(old) \subseteq Cards(new) /\ Banks(old) \subseteq Banks(new)
<1>1. DOMAIN old = {"credit_card_items", "bank_account_items"}
  BY DEF Setting
<1>2. new \in Setting
  BY <1>1 DEF Setting
<1>3. \A k \in DOMAIN old : Items(old[k]) \subseteq Items(new[k])
  BY <1>1 DEF Items
<1>4. QED
  BY <1>1, <1>2, <1>3 DEF Cards, Banks

\* The links, settings and new ids of a merged ledger.
LinksOf(A, ids) == {Edge(ids[e[1]], ids[e[2]]) : e \in A.links}
SettingOf(L, A) == [k \in DOMAIN L.setting |-> IF A.setting[k] # None THEN A.setting[k] ELSE L.setting[k]]
FreshOf(ids) == {ids[i] : i \in DOMAIN ids}

\* The parts of Merged the proof uses.
LEMMA MergedFields ==
    ASSUME NEW L, NEW A
    PROVE  /\ Merged(L, A, seq).tx = Placed(A.tx, FileIds(A, seq.tx), L.tx)
           /\ Merged(L, A, seq).added = LinksOf(A, FileIds(A, seq.tx))
           /\ Merged(L, A, seq).links = L.links \cup LinksOf(A, FileIds(A, seq.tx))
           /\ Merged(L, A, seq).setting = SettingOf(L, A)
           /\ Merged(L, A, seq).fresh = FreshOf(FileIds(A, seq.tx))
           /\ Merged(L, A, seq).last = [tx    |-> Merged(L, A, seq).last.tx,
                                        tag   |-> Merged(L, A, seq).last.tag,
                                        image |-> Merged(L, A, seq).last.image]
           /\ Merged(L, A, seq).last.tx = seq.tx + Cardinality(DOMAIN FileIds(A, seq.tx))
BY Zenon DEF Merged, LinksOf, SettingOf, FreshOf

\* The links that an accepted import adds are ordered and join a card and a bank.
LEMMA AddedLinks ==
    ASSUME NEW t, NEW s, NEW ids, NEW S, \A x \in S : ids[x] \in TxIds, NEW lk,
           \A e \in lk : e[1] \in S /\ e[2] \in S,
           NEW added, added = {Edge(ids[e[1]], ids[e[2]]) : e \in lk},
           \A e \in added : IsPair(t, s, e[1], e[2])
    PROVE  LinksIn(t, added, s)
<1>1. ASSUME NEW e \in added
      PROVE  e \in Pairs /\ IsCardWithdrawal(t, s, e[1], e[2])
  <2>1. PICK f \in lk : e = Edge(ids[f[1]], ids[f[2]])
    OBVIOUS
  <2> DEFINE a == ids[f[1]]
             b == ids[f[2]]
  <2>2. a \in TxIds /\ b \in TxIds
    OBVIOUS
  <2>3. e = Edge(a, b)
    BY <2>1
  <2> HIDE DEF a, b
  <2>4. e = <<a, b>> \/ e = <<b, a>>
    BY <2>2, <2>3, EdgeOrdered
  <2>5. IsPair(t, s, a, b)
    <3>1. IsPair(t, s, e[1], e[2])
      OBVIOUS
    <3>2. CASE e = <<a, b>>
      BY <3>1, <3>2
    <3>3. CASE e = <<b, a>>
      BY <3>1, <3>3 DEF IsPair
    <3>4. QED
      BY <2>4, <3>2, <3>3
  <2>6. a # b
    BY <2>5 DEF IsPair, cardBankPair
  <2>7. e \in Pairs
    BY <2>2, <2>3, <2>6, EdgeOrdered
  <2>8. IsCardWithdrawal(t, s, e[1], e[2])
    BY DEF IsPair, cardBankPair, IsCardWithdrawal
  <2>9. QED
    BY <2>7, <2>8
<1>2. QED
  BY <1>1 DEF LinksIn

\* The assignments of a ledger, and the accounts that an import recalculates.
BanksOf(L) == [c \in TxIds |-> Assigned(L.tx, L.links, L.setting, c)]
FreshAccounts(M) == {M.tx[i].account : i \in M.fresh}

\* An accepted import leaves exact balances and classified links, and the cards of L
\* obey the one-bank rule with respect to L.
LEMMA MergedKeeps ==
    ASSUME RowsCount, NEW L, NEW A, NEW M, NEW r, seq.tx \in Nat, Base(L), Source(A),
           M = Merged(L, A, seq), M.last.tx <= MaxTx,
           Accepted(L, A, M, BanksOf(L)), r = recalculateBalance(M.tx, FreshAccounts(M))
    PROVE  /\ r \in [TxIds -> TxRow] /\ ExactIn(r) /\ SameAccounts(M.tx, r)
           /\ M.setting \in Setting /\ LinksIn(M.tx, M.links, M.setting)
           /\ M.last.tx \in Nat /\ \A i \in Existing(r) : i <= M.last.tx
           /\ \A c \in TxIds : \/ AtMostOne(Assigned(M.tx, M.links, M.setting, c))
                               \/ Assigned(M.tx, M.links, M.setting, c) \subseteq Assigned(L.tx, L.links, L.setting, c)
<1> DEFINE ids == FileIds(A, seq.tx)
           as  == FreshAccounts(M)
<1>1. /\ M.tx = Placed(A.tx, ids, L.tx)
      /\ M.added = LinksOf(A, ids)
      /\ M.links = L.links \cup M.added
      /\ M.setting = SettingOf(L, A)
      /\ M.fresh = FreshOf(ids)
      /\ M.last.tx = seq.tx + Cardinality(DOMAIN ids)
  <2>1. M.tx = Placed(A.tx, ids, L.tx)
    BY MergedFields, Zenon
  <2>2. M.added = LinksOf(A, ids)
    BY MergedFields, Zenon
  <2>3. M.links = L.links \cup LinksOf(A, ids)
    BY MergedFields, Zenon
  <2>4. M.setting = SettingOf(L, A)
    BY MergedFields, Zenon
  <2>5. M.fresh = FreshOf(ids)
    BY MergedFields, Zenon
  <2>6. M.last.tx = seq.tx + Cardinality(DOMAIN ids)
    BY MergedFields, Zenon
  <2>7. QED
    BY <2>1, <2>2, <2>3, <2>4, <2>5, <2>6
<1>2. /\ L.tx \in [TxIds -> TxRow] /\ L.setting \in Setting /\ LinksIn(L.tx, L.links, L.setting)
      /\ ExactIn(L.tx) /\ \A i \in Existing(L.tx) : i <= seq.tx
  BY DEF Base
<1>3. /\ A.tx \in [TxIds -> TxRow] /\ A.setting \in Setting
      /\ \A e \in A.links : e[1] \in Existing(A.tx) /\ e[2] \in Existing(A.tx)
      /\ After(A.place, Existing(A.tx), 0)
  BY DEF Source
<1>4. /\ \A k \in DOMAIN L.setting : L.setting[k] # None /\ A.setting[k] # None => L.setting[k] = A.setting[k]
      /\ \A e \in M.added : IsPair(M.tx, M.setting, e[1], e[2])
      /\ validateCardBankAssignmentChanges(M.tx, M.links, M.setting, BanksOf(L))
      /\ Representable(M.tx, as)
  BY DEF Accepted, FreshAccounts
<1>5. After(ids, Existing(A.tx), seq.tx)
  BY <1>3, FileIdsFollow, Zenon
<1> HIDE DEF ids
<1>6. /\ M.tx \in [TxIds -> TxRow]
      /\ \A k \in TxIds : M.tx[k] # L.tx[k] =>
            k > seq.tx /\ \E x \in DOMAIN ids : ids[x] = k /\ M.tx[k].account = A.tx[x].account
      /\ \A k \in Existing(M.tx) : k <= seq.tx + Cardinality(Existing(A.tx))
  BY <1>1, <1>2, <1>3, <1>5, PlacedRows
<1>7. \A k \in TxIds : M.tx[k] # L.tx[k] => k > seq.tx /\ M.tx[k].account \in as \cup {None}
  BY <1>1, <1>6, SMTT(60) DEF FreshOf, FreshAccounts
<1> HIDE DEF as
<1>8. /\ r \in [TxIds -> TxRow] /\ SameAccounts(r, M.tx) /\ ExactIn(r) /\ LinksIn(r, L.links, L.setting)
  BY <1>2, <1>4, <1>6, <1>7, Grown, ZenonT(60) DEF as
<1>9. SameAccounts(M.tx, r)
  BY <1>8 DEF SameAccounts
<1>10. /\ M.setting \in Setting
       /\ Cards(L.setting) \subseteq Cards(M.setting) /\ Banks(L.setting) \subseteq Banks(M.setting)
  <2>1. M.setting = [k \in DOMAIN L.setting |-> IF A.setting[k] # None THEN A.setting[k] ELSE L.setting[k]]
    BY <1>1 DEF SettingOf
  <2>2. QED
    BY <1>2, <1>3, <1>4, <2>1, MergedSettings
<1>11. DOMAIN ids = Existing(A.tx) /\ Cardinality(Existing(A.tx)) \in Nat
  BY <1>5 DEF After, RowsCount, Existing
<1>12. LinksIn(M.tx, L.links, M.setting)
  <2>1. LinksIn(M.tx, L.links, L.setting)
    BY <1>8, LinksFrame
  <2>2. QED
    BY <1>10, <2>1 DEF LinksIn, IsCardWithdrawal
<1>13. LinksIn(M.tx, M.added, M.setting)
  <2>1. \A x \in Existing(A.tx) : ids[x] \in TxIds
    BY <1>1, <1>5, <1>11, Bounds DEF After, TxIds
  <2>2. \A e \in M.added : IsPair(M.tx, M.setting, e[1], e[2])
    BY <1>4
  <2>3. M.added = {Edge(ids[e[1]], ids[e[2]]) : e \in A.links}
    BY <1>1 DEF LinksOf
  <2>4. QED
    BY <1>3, <2>1, <2>2, <2>3, AddedLinks, ZenonT(60)
<1>14. LinksIn(M.tx, M.links, M.setting)
  BY <1>1, <1>12, <1>13 DEF LinksIn
<1>15. M.last.tx \in Nat /\ \A i \in Existing(r) : i <= M.last.tx
  <2>1. M.last.tx = seq.tx + Cardinality(Existing(A.tx))
    BY <1>1, <1>11
  <2>2. Existing(r) = Existing(M.tx)
    BY <1>8 DEF Existing, SameAccounts
  <2>3. \A k \in Existing(M.tx) : k <= M.last.tx
    BY <1>6, <2>1
  <2>4. M.last.tx \in Nat
    BY <1>11, <2>1
  <2>5. QED
    BY <2>2, <2>3, <2>4
<1>16. \A c \in TxIds : \/ AtMostOne(Assigned(M.tx, M.links, M.setting, c))
                        \/ Assigned(M.tx, M.links, M.setting, c) \subseteq Assigned(L.tx, L.links, L.setting, c)
  BY <1>4 DEF validateCardBankAssignmentChanges, BanksOf
<1>17. QED
  BY <1>8, <1>9, <1>10, <1>14, <1>15, <1>16

\* The ledger a replace import starts from.
LEMMA EmptyBase ==
    ASSUME seq.tx \in Nat
    PROVE  Base(EmptyLedger) /\ \A c : Assigned(EmptyLedger.tx, EmptyLedger.links, EmptyLedger.setting, c) = {}
<1>1. /\ EmptyLedger.tx = [i \in TxIds |-> NoTx] /\ EmptyLedger.links = {}
      /\ EmptyLedger.setting = [credit_card_items |-> None, bank_account_items |-> None]
  BY DEF EmptyLedger
<1>2. EmptyLedger.tx \in [TxIds -> TxRow] /\ Existing(EmptyLedger.tx) = {}
  BY <1>1, NoTxRow DEF Existing
<1>3. EmptyLedger.setting \in Setting
  BY <1>1 DEF Setting
<1>4. QED
  BY <1>1, <1>2, <1>3 DEF Base, LinksIn, ExactIn, Assigned

\* Writing an accepted import.  L is the ledger it starts from, whose cards have no
\* bank that they do not have now; a replace prunes the merged links.
LEMMA WriteKeeps ==
    ASSUME NEW L, NEW M, NEW lk, IInv,
           tx' \in [TxIds -> TxRow], ExactIn(tx'), SameAccounts(M.tx, tx'),
           M.setting \in Setting, LinksIn(M.tx, M.links, M.setting),
           M.last.tx \in Nat, \A i \in Existing(tx') : i <= M.last.tx,
           M.last = [tx |-> M.last.tx, tag |-> M.last.tag, image |-> M.last.image],
           \A c \in TxIds : \/ AtMostOne(Assigned(M.tx, M.links, M.setting, c))
                            \/ Assigned(M.tx, M.links, M.setting, c) \subseteq Assigned(L.tx, L.links, L.setting, c),
           \A c : Assigned(L.tx, L.links, L.setting, c) \subseteq Assigned(tx, links, setting, c),
           lk \subseteq M.links, links' = lk, setting' = M.setting, seq' = M.last
    PROVE  IInv' /\ OneBankStep
<1>1. LinksIn(M.tx, lk, M.setting)
  BY DEF LinksIn
<1>2. /\ LinksIn(tx', lk, M.setting)
      /\ \A c \in TxIds : Assigned(M.tx, lk, M.setting, c) = Assigned(tx', lk, M.setting, c)
  BY <1>1, LinksFrame, SMTT(60)
<1>3. IInv'
  <2>1. LinksIn(tx', links', setting')
    BY <1>2
  <2>2. seq' = [tx |-> seq'.tx, tag |-> seq'.tag, image |-> seq'.image] /\ seq'.tx \in Nat
    OBVIOUS
  <2>3. setting' \in Setting /\ \A i \in Existing(tx') : i <= seq'.tx
    OBVIOUS
  <2>4. QED
    BY <2>1, <2>2, <2>3 DEF IInv
<1>4. ASSUME NEW c \in TxIds
      PROVE  \/ AtMostOne(Assigned(tx', links', setting', c))
             \/ Assigned(tx', links', setting', c) \subseteq Assigned(tx, links, setting, c)
  <2>1. Assigned(M.tx, lk, M.setting, c) \subseteq Assigned(M.tx, M.links, M.setting, c)
    BY AssignedMonotone
  <2>2. Assigned(tx', links', setting', c) \subseteq Assigned(M.tx, M.links, M.setting, c)
    BY <1>2, <2>1
  <2>3. QED
    BY <2>2 DEF AtMostOne
<1>5. OneBankStep
  BY <1>4 DEF OneBankStep, Existing
<1>6. QED
  BY <1>3, <1>5

\* importCSVV3Parsed, from the ledger L that its mode starts from.
LEMMA ImportFromKeeps ==
    ASSUME RowsCount, IInv, NEW A, Source(A), NEW L, Base(L), NEW M, NEW lk,
           M = Merged(L, A, seq), M.last.tx <= MaxTx, Accepted(L, A, M, BanksOf(L)),
           \A c : Assigned(L.tx, L.links, L.setting, c) \subseteq Assigned(tx, links, setting, c),
           lk \subseteq M.links,
           tx' = recalculateBalance(M.tx, FreshAccounts(M)), links' = lk, setting' = M.setting, seq' = M.last
    PROVE  IInv' /\ OneBankStep
<1>1. seq.tx \in Nat
  BY DEF IInv
<1>2. /\ tx' \in [TxIds -> TxRow] /\ ExactIn(tx') /\ SameAccounts(M.tx, tx')
      /\ M.setting \in Setting /\ LinksIn(M.tx, M.links, M.setting)
      /\ M.last.tx \in Nat /\ \A i \in Existing(tx') : i <= M.last.tx
      /\ \A c \in TxIds : \/ AtMostOne(Assigned(M.tx, M.links, M.setting, c))
                          \/ Assigned(M.tx, M.links, M.setting, c) \subseteq Assigned(L.tx, L.links, L.setting, c)
  BY <1>1, MergedKeeps, Zenon
<1>3. M.last = [tx |-> M.last.tx, tag |-> M.last.tag, image |-> M.last.image]
  BY MergedFields, Zenon
<1>4. QED
  BY <1>2, <1>3, WriteKeeps, Zenon

\* importCSVV3Parsed, in both modes.
LEMMA ImportCSVKeeps ==
    ASSUME RowsCount, IInv, NEW A \in Available, NEW mode, ImportCSV(A, mode)
    PROVE  IInv' /\ OneBankStep
<1> DEFINE L == IF mode = "replace" THEN EmptyLedger ELSE ledger
           M == Merged(L, A, seq)
           lk == IF mode = "replace" THEN pruneInvalidTransactionLinks(M.tx, M.links, M.setting) ELSE M.links
<1>1. /\ M.last.tx <= MaxTx
      /\ Accepted(L, A, M, BanksOf(L))
      /\ tx' = recalculateBalance(M.tx, FreshAccounts(M))
      /\ links' = lk /\ setting' = M.setting /\ seq' = M.last
  BY Zenon DEF ImportCSV, Enough, BanksOf, FreshAccounts
<1>2. seq.tx \in Nat /\ Source(A)
  BY AvailableSources DEF IInv
<1>3. /\ Base(L)
      /\ \A c : Assigned(L.tx, L.links, L.setting, c) \subseteq Assigned(tx, links, setting, c)
  <2>1. CASE mode = "replace"
    <3>1. L = EmptyLedger
      BY <2>1
    <3> HIDE DEF L
    <3>2. QED
      BY <1>2, <3>1, EmptyBase
  <2>2. CASE mode # "replace"
    <3>1. L = ledger
      BY <2>2
    <3> HIDE DEF L
    <3>2. L.tx = tx /\ L.links = links /\ L.setting = setting
      BY <3>1 DEF ledger
    <3>3. QED
      BY <3>2 DEF Base, IInv
  <2>3. QED
    BY <2>1, <2>2
<1> HIDE DEF L
<1>4. M = Merged(L, A, seq)
  OBVIOUS
<1> HIDE DEF M
<1>5. lk \subseteq M.links
  BY DEF pruneInvalidTransactionLinks
<1> HIDE DEF lk
<1>6. QED
  BY <1>1, <1>2, <1>3, <1>4, <1>5, ImportFromKeeps, Zenon

-----------------------------------------------------------------------------
(* All operations *)

\* The legacy ledgers satisfy the invariant.
LEMMA InitIInv == Init => IInv
<1> SUFFICES ASSUME Init
             PROVE  IInv
  OBVIOUS
<1>1. PICK L \in Legacy : tx = L.tx /\ links = L.links /\ setting = L.setting /\ seq = L.seq
  BY DEF Init
<1>2. /\ L.tx \in [TxIds -> TxRow] /\ L.links \subseteq Pairs /\ L.setting \in Setting
      /\ L.seq \in [tx : 0..MaxTx, tag : 0..MaxTags, image : 0..MaxImages]
      /\ \A i \in Existing(L.tx) : i <= L.seq.tx /\ L.tx[i].balance = Balance(L.tx, i)
      /\ Representable(L.tx, Accounts)
      /\ \A e \in L.links : IsCardWithdrawal(L.tx, L.setting, e[1], e[2])
  BY LegacyAssumption DEF IsLedger, Pairs
<1>3. seq = [tx |-> seq.tx, tag |-> seq.tag, image |-> seq.image] /\ seq.tx \in Nat
  BY <1>1, <1>2
<1>4. ASSUME NEW i \in Existing(L.tx)
      PROVE  L.tx[i].balance = Balance(L.tx, i) /\ L.tx[i].balance \in (-MaxBalance - 1)..MaxBalance
  <2>1. i \in TxIds /\ L.tx[i].account \in Accounts
    BY <1>2 DEF Existing, TxRow
  <2>2. QED
    BY <1>2, <2>1 DEF Representable
<1>5. ExactIn(tx)
  BY <1>1, <1>4 DEF ExactIn
<1>6. LinksIn(tx, links, setting)
  BY <1>1, <1>2 DEF LinksIn
<1>7. QED
  BY <1>1, <1>2, <1>3, <1>5, <1>6 DEF IInv

\* Every operation keeps the invariant and obeys the one-bank rule.
LEMMA StepKeeps ==
    ASSUME RowsCount, IInv, [Next]_vars
    PROVE  IInv' /\ OneBankStep
<1>1. CASE \E a \in Accounts, d \in Dates, m \in Amounts, tags \in SUBSET Tags(tag), path \in Paths, imgs \in ImageLists :
              AddTransaction(a, d, m, tags, path, imgs)
  BY <1>1, AddTransactionKeeps
<1>2. CASE \E id \in Existing(tx), a \in Accounts, d \in Dates, m \in Amounts, tags \in SUBSET Tags(tag), path \in Paths :
              \E gone \in SUBSET ImagesOf(image, {id}), imgs \in ImageLists,
                 adds \in SUBSET (Linkable \ {id}), removes \in SUBSET LinkedTo(links, id) :
                 UpdateTransaction(id, a, d, m, tags, path, gone, imgs, adds, removes)
  <2>1. \A id : SUBSET (Linkable \ {id}) \subseteq SUBSET (Existing(tx) \ {id})
    BY DEF Linkable
  <2>2. QED
    BY <1>2, <2>1, UpdateTransactionKeeps, ZenonT(60)
<1>3. CASE \E id \in TxIds : DeleteTransaction(id)
  BY <1>3, DeleteTransactionKeeps
<1>4. CASE \E key \in DOMAIN setting, items \in ItemLists : saveStringSliceSetting(key, items)
  BY <1>4, SettingKeeps
<1>5. CASE \E a, b \in TxIds : AddTransactionLink(a, b) \/ RemoveTransactionLink(a, b)
  BY <1>5, AddTransactionLinkKeeps, RemoveTransactionLinkKeeps
<1>6. CASE \/ \E n \in Names, p \in 0..MaxTags : CreateTag(n, p)
           \/ \E path \in Paths : CreateTagByPath(path)
           \/ \E g \in TagIds : DeleteTag(g) \/ \E n \in Names : UpdateTag(g, n)
           \/ \E id \in TxIds, tags \in SUBSET Tags(tag) : AddTransactionTags(id, tags)
           \/ \E id \in TxIds, g \in TagIds : RemoveTransactionTag(id, g)
           \/ \E id \in TxIds, imgs \in ImageLists : AddTransactionImage(id, imgs)
           \/ \E g \in ImageIds : DeleteTransactionImage(g)
           \/ UNCHANGED vars
  BY <1>6, TagsAndImagesKeep
<1>7. CASE \E A \in Available, mode \in {"append", "replace"} : ImportCSV(A, mode)
  BY <1>7, ImportCSVKeeps
<1>8. CASE \E A \in Available : ImportLegacyCSV(A)
  BY <1>8, ImportLegacyCSVKeeps
<1>9. QED
  BY <1>1, <1>2, <1>3, <1>4, <1>5, <1>6, <1>7, <1>8, Zenon DEF Next

-----------------------------------------------------------------------------
(* The invariant holds throughout, and what follows from it *)

\* The ids of rows are an interval, so every set of rows is finite.
LEMMA RowsCountable == RowsCount
<1> SUFFICES ASSUME NEW S \in SUBSET TxIds
             PROVE  /\ Cardinality(S) \in Nat
                    /\ \A F \in SUBSET S : F # {} => Cardinality(F) >= 1 /\ Cardinality(F) <= Cardinality(S)
  BY DEF RowsCount
<1>1. IsFiniteSet(TxIds)
  BY Bounds, FS_Interval DEF TxIds
<1>2. IsFiniteSet(S) /\ Cardinality(S) \in Nat
  BY <1>1, FS_Subset, FS_CardinalityType
<1>3. ASSUME NEW F \in SUBSET S, F # {}
      PROVE  Cardinality(F) >= 1 /\ Cardinality(F) <= Cardinality(S)
  <2>1. IsFiniteSet(F) /\ Cardinality(F) <= Cardinality(S) /\ Cardinality(F) \in Nat
    BY <1>2, FS_Subset, FS_CardinalityType
  <2>2. Cardinality(F) # 0
    BY <1>3, <2>1, FS_EmptySet
  <2>3. QED
    BY <2>1, <2>2
<1>4. QED
  BY <1>2, <1>3

\* Every operation keeps the invariant and obeys the one-bank rule.
LEMMA NextIInv == IInv /\ [Next]_vars => IInv' /\ OneBankStep
BY RowsCountable, StepKeeps

\* Every stored balance is exact and fits 64 bits, after any sequence of writes to
\* any ledger (recalculateBalanceIn).
THEOREM BalancesAlwaysExact == Spec => []BalancesExact
<1>1. IInv => BalancesExact
  BY DEF IInv, ExactIn, BalancesExact
<1>2. QED
  BY <1>1, InitIInv, NextIInv, PTL DEF Spec

\* Every link joins a card and a bank of the current settings
\* (pruneInvalidTransactionLinksIn, addCardBankLinkIn).
THEOREM LinksAlwaysClassified == Spec => []LinksClassified
<1>1. IInv => LinksClassified
  BY DEF IInv, LinksIn, LinksClassified
<1>2. QED
  BY <1>1, InitIInv, NextIInv, PTL DEF Spec

\* No operation gives a card a second bank; a card that a legacy ledger gave several
\* keeps a subset of them (validateCardBankAssignmentChanges, addCardBankLinkIn).
THEOREM OneBankAlways == Spec => OneBankPerCard
<1>1. IInv /\ [Next]_vars => [\A c \in TxIds :
                                LET after == Assigned(tx', links', setting', c)
                                IN AtMostOne(after) \/ after \subseteq Assigned(tx, links, setting, c)]_vars
  BY NextIInv DEF OneBankStep
<1>2. QED
  BY <1>1, InitIInv, NextIInv, PTL DEF Spec, OneBankPerCard

\* A link is read from both of its ends.
LEMMA LinkedBothWays ==
    ASSUME links \subseteq Pairs, NEW b \in TxIds, NEW c \in TxIds
    PROVE  c \in LinkedTo(links, b) <=> Edge(c, b) \in links
<1>1. <<b, c>> \in links => b < c
  BY DEF Pairs
<1>2. <<c, b>> \in links => c < b
  BY DEF Pairs
<1>3. b \in Int /\ c \in Int
  BY DEF TxIds
<1>4. QED
  BY <1>1, <1>2, <1>3 DEF LinkedTo, Edge

\* The reconciliations follow from the types: of a bank alone in its list, the cards are those
\* assigned to it, and what the restricted query reads is enough to see a second bank.
LEMMA Reconciles ==
    ASSUME setting \in Setting, links \subseteq Pairs
    PROVE  CountedOnce
<1> DEFINE R == [b \in Existing(tx) |-> GetCardReconciliation(tx, links, setting, b)]
           Near(b) == {e \in links : e[1] \in LinkedTo(links, b) \/ e[2] \in LinkedTo(links, b)}
<1> SUFFICES ASSUME NEW b \in Existing(tx), R[b].applicable
             PROVE  /\ R[b].cards = {c \in Existing(tx) : b \in Assigned(tx, links, setting, c)}
                    /\ ~R[b].conflicts =>
                          \A o \in Existing(tx) \ {b} : R[o].applicable => R[o].cards \cap R[b].cards = {}
  BY Zenon DEF CountedOnce
<1>1. ASSUME NEW o \in Existing(tx), R[o].applicable
      PROVE  /\ R[o].cards = {c \in LinkedTo(links, o) : IsPair(tx, setting, c, o)}
             /\ tx[o].account \in Banks(setting) \ Cards(setting)
  BY <1>1, Zenon DEF GetCardReconciliation
<1>2. ASSUME NEW o \in Existing(tx), R[o].applicable
      PROVE  R[o].cards = {c \in Existing(tx) : o \in Assigned(tx, links, setting, c)}
  <2> DEFINE C == R[o].cards
  <2>1. \A c \in TxIds : IsPair(tx, setting, c, o) <=> cardBankPair(tx, setting, c, o)
    BY <1>1, <1>2, Zenon DEF IsPair, cardBankPair
  <2>2. o \in TxIds /\ \A c \in TxIds : cardBankPair(tx, setting, c, o) => c \in Existing(tx)
    BY ListsHoldAccounts, LedgerConstants, Zenon DEF cardBankPair, Existing
  <2>3. C = {c \in LinkedTo(links, o) : IsPair(tx, setting, c, o)}
    BY <1>1, <1>2
  <2> HIDE DEF R, C
  <2>4. ASSUME NEW c \in TxIds
        PROVE  c \in C <=> c \in Existing(tx) /\ o \in Assigned(tx, links, setting, c)
    BY <2>1, <2>2, <2>3, LinkedBothWays DEF Assigned
  <2>5. C \subseteq TxIds /\ Existing(tx) \subseteq TxIds
    BY <2>3 DEF LinkedTo, Existing
  <2>6. C = {c \in Existing(tx) : o \in Assigned(tx, links, setting, c)}
    BY <2>4, <2>5
  <2>7. QED
    BY <2>6 DEF C
<1>3. ~R[b].conflicts => \A c \in R[b].cards : AtMostOne(Assigned(tx, Near(b), setting, c))
  BY Zenon DEF GetCardReconciliation
<1>4. ASSUME NEW o \in Existing(tx), R[o].applicable, NEW c \in R[o].cards, c \in R[b].cards
      PROVE  o \in Assigned(tx, Near(b), setting, c)
  <2>1. c \in Existing(tx) /\ o \in Assigned(tx, links, setting, c)
    BY <1>2, <1>4
  <2>2. c \in LinkedTo(links, b) /\ c \in TxIds /\ o \in TxIds
    BY <1>1, <1>4, Zenon DEF Existing, LinkedTo
  <2>3. Edge(c, o)[1] = c \/ Edge(c, o)[2] = c
    BY DEF Edge
  <2>4. QED
    BY <2>1, <2>2, <2>3 DEF Assigned
<1>5. b \in Existing(tx) /\ R[b].applicable
  OBVIOUS
<1> HIDE DEF R, Near
<1>6. ASSUME ~R[b].conflicts, NEW o \in Existing(tx) \ {b}, R[o].applicable, NEW c \in R[o].cards \cap R[b].cards
      PROVE  FALSE
  <2>1. o \in Assigned(tx, Near(b), setting, c) /\ b \in Assigned(tx, Near(b), setting, c)
    BY <1>4, <1>5, <1>6
  <2>2. AtMostOne(Assigned(tx, Near(b), setting, c))
    BY <1>3, <1>6
  <2>3. QED
    BY <2>1, <2>2 DEF AtMostOne
<1>7. QED
  BY <1>2, <1>5, <1>6

\* Whatever was linked, edited or imported, a card is reconciled with one bank at most unless a
\* conflict is reported (GetCardReconciliation, readCardBankAssignments).
THEOREM AlwaysCountedOnce == Spec => []CountedOnce
<1>1. IInv => CountedOnce
  BY Reconciles DEF IInv, LinksIn
<1>2. QED
  BY <1>1, InitIInv, NextIInv, PTL DEF Spec
=============================================================================
