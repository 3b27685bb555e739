------------------------------- MODULE Ledger -------------------------------
(***************************************************************************)
(* The write operations of one ledger: core/service.go, card_reconciliation*)
(* .go and the CSV import of service_csv_full.go.  Every operation is one  *)
(* transaction of a database with one writer (write_transaction.go), so it *)
(* is one action; an operation that answers an error changes nothing and   *)
(* is not a step.                                                          *)
(*                                                                         *)
(* What makes it hard is that five tables and two settings hold one        *)
(* invariant together, and each operation has to restore all of it: a      *)
(* changed account moves a transaction between two running balances,       *)
(* changes what its links mean and which image quota it counts against.    *)
(***************************************************************************)
EXTENDS LedgerTables

CONSTANTS
    Dates,       \* days, each with a time of day
    Amounts, Names,
    Paths,       \* tag paths of at most three names, and <<>> for no new tag
    ImageLists,  \* sizes of the images one request adds, and <<>>
    ItemLists,   \* the lists of accounts a user may save under a setting
    Archives,    \* archives from elsewhere
    Legacy       \* the ledgers that earlier versions of the program left

ASSUME LedgerConstants ==
    /\ None \notin Accounts /\ None \notin Names
    /\ {MaxTx, MaxTags, MaxImages, MaxBalance} \subseteq Nat
    /\ Dates \subseteq Int \X Int /\ Amounts \subseteq Int
    /\ ItemLists \subseteq SUBSET Accounts
    /\ \A path \in Paths : path \in Seq(Names) /\ Len(path) <= 3
    /\ \A list \in ImageLists : list \in Seq(Nat)

VARIABLES tx, links, setting, tag, tagged, image, seq
vars == <<tx, links, setting, tag, tagged, image, seq>>

ledger == [tx |-> tx, links |-> links, setting |-> setting, tag |-> tag, tagged |-> tagged, image |-> image]

Text     == Int \X Int \X Int \X Int
TxRow    == [account : Accounts \cup {None}, date : Text, amount : Int, balance : Int]
TagRow   == [name : Names \cup {None}, parent : 0..MaxTags, level : 1..3, dup : BOOLEAN]
ImageRow == [of : 0..MaxTx, bytes : Nat, archive : BOOLEAN]
Setting  == [{"credit_card_items", "bank_account_items"} -> (SUBSET Accounts) \cup {None}]

IsLedger(L) ==
    /\ L.tx \in [TxIds -> TxRow]
    /\ L.links \subseteq {e \in TxIds \X TxIds : e[1] < e[2]}
    /\ L.setting \in Setting
    /\ L.tag \in [TagIds -> TagRow]
    /\ L.tagged \in [TxIds -> SUBSET TagIds]
    /\ L.image \in [ImageIds -> ImageRow]

\* The tables are well typed and every reference leads to a row: links are stored
\* in the order of their ids, and deletes cascade (database.go 560-720).
TypeOK ==
    /\ IsLedger(ledger)
    /\ seq \in [tx : 0..MaxTx, tag : 0..MaxTags, image : 0..MaxImages]
    /\ \A i \in Existing(tx) : i <= seq.tx
    /\ \A e \in links : {e[1], e[2]} \subseteq Existing(tx)
    /\ \A i \in TxIds : tagged[i] \subseteq Tags(tag) /\ (tagged[i] # {} => i \in Existing(tx))
    /\ \A g \in Tags(tag) : tag[g].parent # 0 => tag[g].parent \in Tags(tag) /\ tag[g].level = tag[tag[g].parent].level + 1
    /\ \A g \in Images(image) : image[g].of \in Existing(tx)

\* A v3 archive has passed parseCSVV3Reader: its references lead to its own rows,
\* which may be in any order.
ASSUME ArchivesAssumption ==
    \A A \in Archives :
        /\ IsLedger(A)
        /\ \A e \in A.links : {e[1], e[2]} \subseteq Existing(A.tx)
        /\ A.place \in [Existing(A.tx) -> 1..Cardinality(Existing(A.tx))]
        /\ \A i, j \in Existing(A.tx) : A.place[i] = A.place[j] => i = j

\* A legacy ledger may hold cards of several banks, several roots of one name and
\* images beyond the quotas, as the code expects of older versions; its balances are
\* taken to be exact and its links to join cards and banks.
ASSUME LegacyAssumption ==
    \A L \in Legacy :
        /\ IsLedger(L)
        /\ L.seq \in [tx : 0..MaxTx, tag : 0..MaxTags, image : 0..MaxImages]
        /\ \A i \in Existing(L.tx) : i <= L.seq.tx /\ L.tx[i].balance = Balance(L.tx, i)
        /\ Representable(L.tx, Accounts)
        /\ \A e \in L.links : {e[1], e[2]} \subseteq Existing(L.tx) /\ IsCardWithdrawal(L.tx, L.setting, e[1], e[2])

Init ==
    \E L \in Legacy :
        /\ tx = L.tx /\ links = L.links /\ setting = L.setting
        /\ tag = L.tag /\ tagged = L.tagged /\ image = L.image
        /\ seq = L.seq

-----------------------------------------------------------------------------
(* Transactions *)

\* resolveTransactionTagIDsIn: existing tags and at most one new path.
Resolved(tags, r, path) == IF path = <<>> THEN tags ELSE tags \cup {r.at}

AddTransaction(a, d, m, tags, path, imgs) ==
    LET id == seq.tx + 1
        r  == createTagPath(tag, seq.tag, path)
        t  == [tx EXCEPT ![id] = [account |-> a, date |-> Bound(d), amount |-> m, balance |-> 0]]
    IN /\ id \in TxIds
       /\ seq.image + Len(imgs) <= MaxImages
       /\ tags \subseteq Tags(tag)
       /\ r.ok
       /\ imgs # <<>> => checkImageStorageQuota(t, image, id, imgs)
       /\ Representable(t, {a})
       /\ tx' = recalculateBalance(t, {a})
       /\ tag' = r.tags
       /\ tagged' = [tagged EXCEPT ![id] = Resolved(tags, r, path)]
       /\ image' = insertImages(image, seq.image, id, imgs)
       /\ seq' = [tx |-> id, tag |-> r.last, image |-> seq.image + Len(imgs)]
       /\ UNCHANGED <<links, setting>>

\* The accounts whose balances an edit recalculates.
NewAccountOnly(old, new) == {new}
Touched(old, new) == {old, new}

\* addCardBankLinkIn for each of adds in turn: the order of adds does not matter.
applyTransactionLinkChanges(t, lk, s, id, adds) ==
    \A x \in adds : MayLink(t, lk \cup {Edge(id, y) : y \in adds \ {x}}, s, id, x)

UpdateTransaction(id, a, d, m, tags, path, gone, imgs, adds, removes) ==
    LET old   == tx[id].account
        r     == createTagPath(tag, seq.tag, path)
        t     == [tx EXCEPT ![id] = [account |-> a, date |-> Bound(d), amount |-> m, balance |-> tx[id].balance]]
        kept  == deleteImages(image, gone)
        im    == insertImages(kept, seq.image, id, imgs)
        less  == links \ {Edge(id, x) : x \in removes}
        lk    == pruneInvalidTransactionLinks(t, less \cup {Edge(id, x) : x \in adds}, setting)
    IN /\ seq.image + Len(imgs) <= MaxImages
       /\ tags \subseteq Tags(tag)
       /\ r.ok
       /\ id \in Existing(tx)
       /\ gone \subseteq ImagesOf(image, {id})
       /\ \A x \in removes : Edge(id, x) \in links
       /\ applyTransactionLinkChanges(t, less, setting, id, adds)
       /\ imgs # <<>> => checkImageStorageQuota(t, kept, id, imgs)
       /\ old # a /\ imgs = <<>> => checkImageAccountMoveQuota(t, im, id, old)
       /\ Representable(t, Touched(old, a))
       /\ old # a => validateCardBankAssignmentChanges(t, lk, setting,
                         [c \in TxIds |-> Assigned(tx, links, setting, c)])
       /\ tx' = recalculateBalance(t, Touched(old, a))
       /\ links' = lk
       /\ tag' = r.tags
       /\ tagged' = [tagged EXCEPT ![id] = Resolved(tags, r, path)]
       /\ image' = im
       /\ seq' = [seq EXCEPT !.tag = r.last, !.image = @ + Len(imgs)]
       /\ UNCHANGED setting

DeleteTransaction(id) ==
    LET a == tx[id].account
        t == [tx EXCEPT ![id] = NoTx]
    IN /\ id \in Existing(tx)
       /\ Representable(t, {a})
       /\ tx' = recalculateBalance(t, {a})
       /\ links' = {e \in links : id \notin {e[1], e[2]}}
       /\ tagged' = [tagged EXCEPT ![id] = {}]
       /\ image' = deleteImages(image, ImagesOf(image, {id}))
       /\ UNCHANGED <<setting, tag, seq>>

-----------------------------------------------------------------------------
(* Settings and links *)

saveStringSliceSetting(key, items) ==
    LET s  == [setting EXCEPT ![key] = items]
        lk == pruneInvalidTransactionLinks(tx, links, s)
    IN /\ validateCardBankAssignmentChanges(tx, lk, s, [c \in TxIds |-> Assigned(tx, links, setting, c)])
       /\ setting' = s
       /\ links' = lk
       /\ UNCHANGED <<tx, tag, tagged, image, seq>>

AddTransactionLink(a, b) ==
    /\ {a, b} \subseteq Existing(tx)
    /\ MayLink(tx, links, setting, a, b)
    /\ links' = links \cup {Edge(a, b)}
    /\ UNCHANGED <<tx, setting, tag, tagged, image, seq>>

RemoveTransactionLink(a, b) ==
    /\ Edge(a, b) \in links
    /\ links' = links \ {Edge(a, b)}
    /\ UNCHANGED <<tx, setting, tag, tagged, image, seq>>

-----------------------------------------------------------------------------
(* Tags *)

CreateTag(n, p) ==
    LET r == InsertTag(AtRoot(tag, seq.tag), n, p, IF p = 0 THEN 1 ELSE tag[p].level + 1, FALSE)
    IN /\ p # 0 => p \in Tags(tag) /\ tag[p].level < 3
       /\ Children(tag, p, n) = {}
       /\ r.ok
       /\ tag' = r.tags
       /\ seq' = [seq EXCEPT !.tag = r.last]
       /\ UNCHANGED <<tx, links, setting, tagged, image>>

CreateTagByPath(path) ==
    LET r == createTagPath(tag, seq.tag, path)
    IN /\ path # <<>> /\ r.ok
       /\ tag' = r.tags
       /\ seq' = [seq EXCEPT !.tag = r.last]
       /\ UNCHANGED <<tx, links, setting, tagged, image>>

UpdateTag(g, n) ==
    LET T == [tag EXCEPT ![g].name = n]
    IN /\ g \in Tags(tag)
       /\ Children(tag, tag[g].parent, n) \subseteq {g}
       /\ tag' = IF tag[g].parent # 0 THEN T
                 ELSE normalizeLegacyRootTagMarkers(normalizeLegacyRootTagMarkers(T, tag[g].name), n)
       /\ UNCHANGED <<tx, links, setting, tagged, image, seq>>

DeleteTag(g) ==
    LET T == [h \in TagIds |-> IF h \in Subtree(tag, g) THEN NoTag ELSE tag[h]]
    IN /\ g \in Tags(tag)
       /\ tag' = IF tag[g].parent # 0 THEN T ELSE normalizeLegacyRootTagMarkers(T, tag[g].name)
       /\ tagged' = [i \in TxIds |-> tagged[i] \ Subtree(tag, g)]
       /\ UNCHANGED <<tx, links, setting, image, seq>>

AddTransactionTags(id, tags) ==
    /\ id \in Existing(tx) /\ tags \subseteq Tags(tag)
    /\ tagged' = [tagged EXCEPT ![id] = @ \cup tags]
    /\ UNCHANGED <<tx, links, setting, tag, image, seq>>

RemoveTransactionTag(id, g) ==
    /\ tagged' = [tagged EXCEPT ![id] = @ \ {g}]
    /\ UNCHANGED <<tx, links, setting, tag, image, seq>>

-----------------------------------------------------------------------------
(* Images *)

AddTransactionImage(id, list) ==
    /\ id \in Existing(tx) /\ Len(list) = 1
    /\ checkImageStorageQuota(tx, image, id, list)
    /\ seq.image < MaxImages
    /\ image' = insertImages(image, seq.image, id, list)
    /\ seq' = [seq EXCEPT !.image = @ + 1]
    /\ UNCHANGED <<tx, links, setting, tag, tagged>>

DeleteTransactionImage(g) ==
    /\ g \in Images(image)
    /\ image' = deleteImages(image, {g})
    /\ UNCHANGED <<tx, links, setting, tag, tagged, seq>>

-----------------------------------------------------------------------------
(* CSV *)

Enough(last) == last.tx <= MaxTx /\ last.tag <= MaxTags /\ last.image <= MaxImages

\* importCSVV3Parsed: replace deletes every table first, but ids are never reused;
\* append keeps the links that are there, replace prunes.
ImportCSV(A, mode) ==
    LET L == IF mode = "replace" THEN EmptyLedger ELSE ledger
        M == Merged(L, A, seq)
    IN /\ M.ok /\ Enough(M.last)
       /\ Accepted(L, A, M, [c \in TxIds |-> Assigned(L.tx, L.links, L.setting, c)])
       /\ tx' = recalculateBalance(M.tx, {M.tx[i].account : i \in M.fresh})
       /\ links' = IF mode = "replace" THEN pruneInvalidTransactionLinks(M.tx, M.links, M.setting) ELSE M.links
       /\ setting' = M.setting
       /\ tag' = M.tag
       /\ tagged' = M.tagged
       /\ image' = M.image
       /\ seq' = M.last

\* importCSVLegacyRows: transactions only, in the order of the file, whose dates are
\* parsed and bound.
ImportLegacyCSV(A) ==
    LET ids == FileIds(A, seq.tx)
        t   == Placed([i \in TxIds |-> [A.tx[i] EXCEPT !.date = Bound(Moment(@))]], ids, tx)
        as  == {A.tx[i].account : i \in DOMAIN ids}
    IN /\ seq.tx + Cardinality(DOMAIN ids) <= MaxTx
       /\ Representable(t, as)
       /\ tx' = recalculateBalance(t, as)
       /\ seq' = [seq EXCEPT !.tx = @ + Cardinality(DOMAIN ids)]
       /\ UNCHANGED <<links, setting, tag, tagged, image>>

\* Only transactions of listed accounts can be linked: addCardBankLinkIn refuses others.
Linkable == {x \in Existing(tx) : tx[x].account \in Cards(setting) \cup Banks(setting)}

\* A backup of this ledger is imported as well as archives from elsewhere.
Available == Archives \cup {A \in {backupToCSVV3(ledger)} : validateCSVV3ExportImageRestoreBounds(ledger)}
-----------------------------------------------------------------------------
Next ==
    \/ \E a \in Accounts, d \in Dates, m \in Amounts, tags \in SUBSET Tags(tag), path \in Paths, imgs \in ImageLists :
          AddTransaction(a, d, m, tags, path, imgs)
    \/ \E id \in Existing(tx), a \in Accounts, d \in Dates, m \in Amounts, tags \in SUBSET Tags(tag), path \in Paths :
          \E gone \in SUBSET ImagesOf(image, {id}), imgs \in ImageLists,
             adds \in SUBSET (Linkable \ {id}), removes \in SUBSET LinkedTo(links, id) :
             UpdateTransaction(id, a, d, m, tags, path, gone, imgs, adds, removes)
    \/ \E id \in TxIds : DeleteTransaction(id)
    \/ \E key \in DOMAIN setting, items \in ItemLists : saveStringSliceSetting(key, items)
    \/ \E a, b \in TxIds : AddTransactionLink(a, b) \/ RemoveTransactionLink(a, b)
    \/ \E n \in Names, p \in 0..MaxTags : CreateTag(n, p)
    \/ \E path \in Paths : CreateTagByPath(path)
    \/ \E g \in TagIds : DeleteTag(g) \/ \E n \in Names : UpdateTag(g, n)
    \/ \E id \in TxIds, tags \in SUBSET Tags(tag) : AddTransactionTags(id, tags)
    \/ \E id \in TxIds, g \in TagIds : RemoveTransactionTag(id, g)
    \/ \E id \in TxIds, imgs \in ImageLists : AddTransactionImage(id, imgs)
    \/ \E g \in ImageIds : DeleteTransactionImage(g)
    \/ \E A \in Available, mode \in {"append", "replace"} : ImportCSV(A, mode)
    \/ \E A \in Available : ImportLegacyCSV(A)

Spec == Init /\ [][Next]_vars

-----------------------------------------------------------------------------
(* Properties *)

\* Every stored balance is the sum of its account up to that transaction in the
\* order of the stored dates and ids (text order, see InTimeOrder), and fits 64 bits, whatever moved between accounts or dates, was deleted
\* or imported (recalculateBalanceIn, service.go 1471-1588).
BalancesExact ==
    \A i \in Existing(tx) : tx[i].balance = Balance(tx, i) /\ tx[i].balance \in (-MaxBalance - 1)..MaxBalance

\* Every link joins a card and a bank of the current settings, after any edit,
\* save of the settings or import (pruneInvalidTransactionLinksIn).
LinksClassified == \A e \in links : IsCardWithdrawal(tx, setting, e[1], e[2])

\* No step gives a card transaction a second bank transaction, and none brings one in
\* that has two; those that a legacy ledger has may only be reduced
\* (card_reconciliation.go 81-99, service_csv_full.go 3213).
OneBankPerCard ==
    [][\A c \in TxIds :
          LET after == Assigned(tx', links', setting', c)
          IN AtMostOne(after) \/ after \subseteq Assigned(tx, links, setting, c)]_vars

\* Of the roots with one name exactly one is the ordinary root
\* (service.go 2521-2541 and the index idx_tags_root_name_unique).
OneOrdinaryRoot ==
    \A n \in Names : Children(tag, 0, n) # {} => Cardinality({g \in Children(tag, 0, n) : ~tag[g].dup}) = 1

\* No step increases the bytes that the accounts hold beyond their quota: a legacy
\* ledger above it can only shrink (checkImageAccountMoveQuota, service.go 2074-2127).
TotalOverage(t, im) == SumFunction([a \in Accounts |-> Overage(Bytes(im, Held(t, a)))])
OverageNeverGrows == [][TotalOverage(tx', image') <= TotalOverage(tx, image)]_vars

\* When the reconciliations of the banks of one card report no conflict, its amount
\* is counted by at most one of them, and by that one if the card is assigned to it
\* (GetCardReconciliation and the restricted query of readCardBankAssignments).
CountedOnce ==
    LET R == [b \in Existing(tx) |-> GetCardReconciliation(tx, links, setting, b)]
    IN \A b \in Existing(tx) : R[b].applicable =>
          /\ R[b].cards = {c \in Existing(tx) : b \in Assigned(tx, links, setting, c)}
          /\ ~R[b].conflicts =>
                \A o \in Existing(tx) \ {b} : R[o].applicable => R[o].cards \cap R[b].cards = {}

Restored == Merged(EmptyLedger, backupToCSVV3(ledger), [tx |-> 0, tag |-> 0, image |-> 0])
NoBanks  == [c \in TxIds |-> {}]

\* In no account the text of the dates puts a later transaction first, as 15:00 after
\* a blank comes before 10:00 of the same day after a T.
InTimeOrder(t) ==
    \A i, j \in Existing(t) :
        t[i].account = t[j].account /\ UpTo(t, i, j) => ~Before(Moment(t[j].date), Moment(t[i].date), 2)

\* A ledger without an account in both lists, without a card of two banks and with its
\* accounts in the order of time can be exported and restored, and every transaction
\* has its balance again, although the restored dates have another form.
CleanBackupRestores ==
    /\ InTimeOrder(tx)
    /\ Cards(setting) \cap Banks(setting) = {}
    /\ \A c \in TxIds : AtMostOne(Assigned(tx, links, setting, c))
    /\ validateCSVV3ExportImageRestoreBounds(ledger)
    => /\ Accepted(EmptyLedger, backupToCSVV3(ledger), Restored, NoBanks)
       /\ LET ids == FileIds(backupToCSVV3(ledger), 0)
          IN \A i \in Existing(tx) : Balance(Restored.tx, ids[i]) = tx[i].balance
=============================================================================
