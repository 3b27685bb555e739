---------------------------- MODULE LedgerTables ----------------------------
(***************************************************************************)
(* The tables of one ledger (database.go, createTablesOnContext) and what  *)
(* core/service.go and core/card_reconciliation.go compute from them:      *)
(* balances, card and bank links, tag trees and image quotas.  A table is  *)
(* a function on its ids; a row that does not exist has account None, name *)
(* None or belongs to transaction 0.                                       *)
(*                                                                         *)
(* The amount of a transaction is its effective amount (the archived one,  *)
(* when there is one) with the sign of its type.  Item, memo, file names   *)
(* and pictures decide nothing and are left out.                           *)
(*                                                                         *)
(* The database orders dates as text, and the program stores them in       *)
(* several forms.  A stored date is the tuple of what text order compares  *)
(* in turn: the day, the separator (0 none, 1 a blank, 2 the letter T), the*)
(* time of day, and what follows it (after a blank: 0 nothing, 1 seconds,  *)
(* 2 seconds and +00:00; after a T: 0 nothing, 1 the letter Z).  Fractions *)
(* of a second are left out.                                               *)
(***************************************************************************)
EXTENDS Integers, Sequences, FiniteSetsExt

CONSTANTS
    None,
    Accounts,
    MaxTx, MaxTags, MaxImages,       \* bounds on the ids the database gives out
    MaxBalance,                      \* the largest int64
    MaxImagesPerTransaction, MaxImageBytesPerTransaction,
    MaxImageBytesPerAccount, MaxImageBytesDatabase,
    MaxArchivedImagesPerTransaction, MaxArchivedImagesDatabase

TxIds    == 1..MaxTx
TagIds   == 1..MaxTags
ImageIds == 1..MaxImages

NoTx    == [account |-> None, date |-> <<0, 0, 0, 0>>, amount |-> 0, balance |-> 0]
NoTag   == [name |-> None, parent |-> 0, level |-> 1, dup |-> FALSE]
NoImage == [of |-> 0, bytes |-> 0, archive |-> FALSE]

Existing(t) == {i \in TxIds : t[i].account # None}
Tags(T)     == {g \in TagIds : T[g].name # None}
Images(im)  == {g \in ImageIds : im[g].of # 0}

\* The text of a time.Time that the SQLite driver binds, and the one that a query
\* returns when it reads a DATETIME column into a string; d is <<day, time>>.
Bound(d)     == <<d[1], 1, d[2], 2>>
Rfc3339(d)   == <<d[1], 2, d[2], 1>>
Moment(date) == <<date[1], date[3]>>

\* The order of tuples of n numbers.
Before(x, y, n) == \E k \in 1..n : x[k] < y[k] /\ \A l \in 1..(k - 1) : x[l] = y[l]

\* ORDER BY date, id.
UpTo(t, j, i) == Before(t[j].date, t[i].date, 4) \/ (t[j].date = t[i].date /\ j <= i)

\* The order in which an export writes the transactions.
NewestFirst(t, j, i) == UpTo(t, i, j)
FileOrder(t, j, i) == UpTo(t, j, i)

\* The ids AUTOINCREMENT gives to rows after the last id given out, when upTo[x] are
\* the rows inserted up to x.
NewIds(upTo, last) == [x \in DOMAIN upTo |-> last + Cardinality(upTo[x])]

InFileOrder(t) == [i \in Existing(t) |-> {j \in Existing(t) : FileOrder(t, j, i)}]

\* op applied to base and the members of S, in the order upTo.
InOrder(op(_, _), base, S, upTo(_, _)) ==
    MapThenFoldSet(LAMBDA x, r : op(r, x), base, LAMBDA x : x, LAMBDA Q : CHOOSE x \in Q : \A y \in Q : upTo(y, x), S)

-----------------------------------------------------------------------------
(* Balances *)

\* The running balance of recalculateBalanceIn when it reaches transaction i.
Balance(t, i) ==
    SumFunction([j \in {k \in TxIds : t[k].account = t[i].account /\ UpTo(t, k, i)} |-> t[j].amount])

\* CheckedAddInt64 and CheckedSubInt64 never fail on the accounts as.
Representable(t, as) ==
    \A i \in TxIds : t[i].account \in as => Balance(t, i) \in (-MaxBalance - 1)..MaxBalance

recalculateBalance(t, as) ==
    [i \in TxIds |-> IF t[i].account \in as THEN [t[i] EXCEPT !.balance = Balance(t, i)] ELSE t[i]]

-----------------------------------------------------------------------------
(* Card and bank links *)

Items(value) == IF value = None THEN {} ELSE value
Cards(s)     == Items(s.credit_card_items)
Banks(s)     == Items(s.bank_account_items)

\* Stored links are ordered by id.
Edge(a, b) == IF a < b THEN <<a, b>> ELSE <<b, a>>

\* cardBankPair answers (c, b): an account in both lists is refused.
cardBankPair(t, s, c, b) ==
    /\ t[c].account \in Cards(s) \ Banks(s)
    /\ t[b].account \in Banks(s) \ Cards(s)

PairAsStored(t, s, a, b) == cardBankPair(t, s, a, b)
IsPair(t, s, a, b) == cardBankPair(t, s, a, b) \/ cardBankPair(t, s, b, a)

\* readCardBankAssignments: the banks of card transaction c.
Assigned(t, lk, s, c) == {b \in TxIds : Edge(c, b) \in lk /\ cardBankPair(t, s, c, b)}

AtMostOne(S) == \A x, y \in S : x = y

AssignmentsUnchecked(t, lk, s, before) == TRUE
validateCardBankAssignmentChanges(t, lk, s, before) ==
    \A c \in TxIds : AtMostOne(Assigned(t, lk, s, c)) \/ Assigned(t, lk, s, c) \subseteq before[c]

\* addCardBankLinkIn: the edge exists, or the card has no other bank.
MayLink(t, lk, s, a, b) ==
    /\ a # b
    /\ \E c \in {a, b} : \E d \in {a, b} \ {c} :
          /\ cardBankPair(t, s, c, d)
          /\ \/ Edge(c, d) \in lk
             \/ \A e \in TxIds \ {d} : Edge(c, e) \in lk => t[e].account \notin Banks(s)

\* isCardWithdrawalLinkAccountsWithSettings: an account in both lists is accepted.
IsCardWithdrawal(t, s, a, b) ==
    \/ t[a].account \in Cards(s) /\ t[b].account \in Banks(s)
    \/ t[a].account \in Banks(s) /\ t[b].account \in Cards(s)

PruneNothing(t, lk, s) == lk
pruneInvalidTransactionLinks(t, lk, s) == {e \in lk : IsCardWithdrawal(t, s, e[1], e[2])}

\* GetCardReconciliation of bank transaction b.  Its assignments come from a query
\* that reads only the links of the transactions linked to b.
LinkedAsParent(lk, b) == {x \in TxIds : <<b, x>> \in lk}
LinkedTo(lk, b) == {x \in TxIds : <<b, x>> \in lk \/ <<x, b>> \in lk}
GetCardReconciliation(t, lk, s, b) ==
    LET cards == {c \in LinkedTo(lk, b) : IsPair(t, s, c, b)}
        near  == {e \in lk : e[1] \in LinkedTo(lk, b) \/ e[2] \in LinkedTo(lk, b)}
    IN [applicable |-> t[b].account \in Banks(s) \ Cards(s),
        cards      |-> cards,
        total      |-> SumFunction([c \in cards |-> -t[c].amount]),
        conflicts  |-> cards # LinkedTo(lk, b) \/ \E c \in cards : ~AtMostOne(Assigned(t, near, s, c))]

-----------------------------------------------------------------------------
(* Tags: parent 0 is a root; dup is legacy_duplicate *)

Children(T, p, n) == {g \in TagIds : T[g].name = n /\ T[g].parent = p}

\* ON DELETE CASCADE; a tree has three levels.
Subtree(T, g) ==
    {h \in Tags(T) : \/ h = g \/ T[h].parent = g
                     \/ T[h].parent # 0 /\ T[T[h].parent].parent = g}

MarkersKept(T, n) == T
normalizeLegacyRootTagMarkers(T, n) ==
    [g \in TagIds |-> IF g \in Children(T, 0, n)
                      THEN [T[g] EXCEPT !.dup = \E h \in Children(T, 0, n) : h < g] ELSE T[g]]

\* A tag being looked up or inserted: the table, its last id, the tag reached.
AtRoot(T, last) == [tags |-> T, last |-> last, at |-> 0, level |-> 0, ok |-> TRUE]

InsertTag(r, n, p, level, dup) ==
    IF r.last = MaxTags THEN [r EXCEPT !.ok = FALSE]
    ELSE [r EXCEPT !.last = @ + 1, !.at = r.last + 1, !.level = level,
                   !.tags[r.last + 1] = [name |-> n, parent |-> p, level |-> level, dup |-> dup]]

\* One segment of createTagPathWithinTx.  A lone root is promoted before reuse.
EnsureTag(r, n) ==
    LET same == Children(r.tags, r.at, n)
    IN IF ~r.ok \/ (r.at = 0 /\ Cardinality(same) > 1) THEN [r EXCEPT !.ok = FALSE]
       ELSE IF same = {} THEN InsertTag(r, n, r.at, r.level + 1, FALSE)
       ELSE LET g == CHOOSE g \in same : TRUE
            IN [r EXCEPT !.at = g, !.level = @ + 1, !.tags[g].dup = @ /\ r.at # 0]

createTagPath(T, last, path) ==
    InOrder(LAMBDA r, i : EnsureTag(r, path[i]), AtRoot(T, last), DOMAIN path, <=)

\* Import of the tags of an archive, by level and id; ids maps its tags to those of
\* the ledger.  Of several roots with one name in the archive all but the first are
\* distinct historical rows, never merged; other rows reuse a tag that is there.
ImportTags(T, last, A) ==
    LET UpToLevel(h, g) == A[h].level < A[g].level \/ (A[h].level = A[g].level /\ h <= g)
        Extra(g) == A[g].parent = 0 /\ \E h \in Children(A, 0, A[g].name) : h < g
        Import(r, g) ==
            LET p    == IF A[g].parent = 0 THEN 0 ELSE r.ids[A[g].parent]
                same == {h \in Children(r.tags, p, A[g].name) : p = 0 => ~r.tags[h].dup}
                q    == InsertTag(r, A[g].name, p, A[g].level, Extra(g))
            IN IF ~r.ok THEN r
               ELSE IF same # {} /\ ~Extra(g) THEN [r EXCEPT !.ids[g] = CHOOSE h \in same : TRUE]
               ELSE [q EXCEPT !.ids[g] = q.at]
        start == [tags |-> T, last |-> last, at |-> 0, level |-> 0, ok |-> TRUE,
                  ids |-> [g \in TagIds |-> 0]]
    IN InOrder(Import, start, Tags(A), UpToLevel)

-----------------------------------------------------------------------------
(* Images: ordinary, or archive-only (older than the quotas) *)

ImagesOf(im, S) == {g \in ImageIds : im[g].of \in S}
Bytes(im, S)    == SumFunction([g \in ImagesOf(im, S) |-> im[g].bytes])
Held(t, a)      == {i \in TxIds : t[i].account = a}

\* list holds the sizes of the images that a request adds to transaction i.
PerTransactionOnly(t, im, i, list) ==
    /\ Cardinality(ImagesOf(im, {i})) + Len(list) <= MaxImagesPerTransaction
    /\ Bytes(im, {i}) + SumFunction(list) <= MaxImageBytesPerTransaction
checkImageStorageQuota(t, im, i, list) ==
    /\ PerTransactionOnly(t, im, i, list)
    /\ Bytes(im, Held(t, t[i].account)) + SumFunction(list) <= MaxImageBytesPerAccount
    /\ Bytes(im, TxIds) + SumFunction(list) <= MaxImageBytesDatabase

Overage(bytes) == IF bytes > MaxImageBytesPerAccount THEN bytes - MaxImageBytesPerAccount ELSE 0

\* t and im are the tables after transaction i has left account old.
MoveUnchecked(t, im, i, old) == TRUE
checkImageAccountMoveQuota(t, im, i, old) ==
    LET moved    == Bytes(im, {i})
        oldAfter == Bytes(im, Held(t, old))
        newAfter == Bytes(im, Held(t, t[i].account))
    IN Overage(oldAfter) + Overage(newAfter) <= Overage(oldAfter + moved) + Overage(newAfter - moved)

insertImages(im, last, i, list) ==
    [g \in ImageIds |-> IF g - last \in 1..Len(list)
                        THEN [of |-> i, bytes |-> list[g - last], archive |-> FALSE] ELSE im[g]]

deleteImages(im, S) == [g \in ImageIds |-> IF g \in S THEN NoImage ELSE im[g]]

-----------------------------------------------------------------------------
(* CSV version 3: an archive is a ledger, with the ids of its source, and the place of
   each transaction in the file *)

EmptyLedger ==
    [tx |-> [i \in TxIds |-> NoTx], links |-> {},
     setting |-> [credit_card_items |-> None, bank_account_items |-> None],
     tag |-> [g \in TagIds |-> NoTag], tagged |-> [i \in TxIds |-> {}],
     image |-> [g \in ImageIds |-> NoImage]]

\* All images of a transaction that is over the limits are exported archive-only.
ExportedKind(im, g) ==
    \/ im[g].archive
    \/ Cardinality(ImagesOf(im, {im[g].of})) > MaxImagesPerTransaction
    \/ Bytes(im, {im[g].of}) > MaxImageBytesPerTransaction

\* The query that reads the transactions orders them by what is stored and answers
\* their dates as RFC 3339.
AsExported(row) == IF row.account = None THEN row ELSE [row EXCEPT !.date = Rfc3339(Moment(@))]

backupToCSVV3(L) ==
    [tx      |-> [i \in TxIds |-> AsExported(L.tx[i])],
     place   |-> NewIds(InFileOrder(L.tx), 0),
     links   |-> L.links, setting |-> L.setting, tag |-> L.tag, tagged |-> L.tagged,
     image   |-> [g \in ImageIds |-> [L.image[g] EXCEPT !.archive = g \in Images(L.image) /\ ExportedKind(L.image, g)]]]

Archived(im, S) == {g \in ImagesOf(im, S) : im[g].archive}

validateCSVV3ExportImageRestoreBounds(L) ==
    LET im == backupToCSVV3(L).image
    IN /\ \A i \in TxIds : Cardinality(Archived(im, {i})) <= MaxArchivedImagesPerTransaction
       /\ Cardinality(Archived(im, TxIds)) <= MaxArchivedImagesDatabase
       /\ \A a \in Accounts : Bytes(im, Held(L.tx, a)) <= MaxImageBytesPerAccount
       /\ Bytes(im, TxIds) <= MaxImageBytesDatabase

\* The rows of f under their new ids, which the others of old do not use.
Placed(f, ids, old) ==
    [k \in DOMAIN old |-> IF \E x \in DOMAIN ids : ids[x] = k
                          THEN f[CHOOSE x \in DOMAIN ids : ids[x] = k] ELSE old[k]]

\* Ordinary images are inserted first.
ImageOrder(im, h, g) ==
    IF im[h].archive # im[g].archive THEN im[g].archive
    ELSE im[h].of < im[g].of \/ (im[h].of = im[g].of /\ h <= g)
InImageOrder(im) == [g \in Images(im) |-> {h \in Images(im) : ImageOrder(im, h, g)}]

\* The ids of the transactions of archive A, inserted in the order of the file.
FileIds(A, last) == [i \in Existing(A.tx) |-> last + A.place[i]]

\* The rows that importCSVV3Parsed adds to ledger L when it has given out the ids
\* in last; the dates keep the text of the file.
Merged(L, A, last) ==
    LET ids   == FileIds(A, last.tx)
        imgs  == NewIds(InImageOrder(A.image), last.image)
        tags  == ImportTags(L.tag, last.tag, A.tag)
        image == [g \in ImageIds |-> IF g \in Images(A.image)
                                     THEN [A.image[g] EXCEPT !.of = ids[@]] ELSE NoImage]
    IN [tx      |-> Placed(A.tx, ids, L.tx),
        links   |-> L.links \cup {Edge(ids[e[1]], ids[e[2]]) : e \in A.links},
        added   |-> {Edge(ids[e[1]], ids[e[2]]) : e \in A.links},
        setting |-> [k \in DOMAIN L.setting |-> IF A.setting[k] # None THEN A.setting[k] ELSE L.setting[k]],
        tag     |-> tags.tags,
        tagged  |-> Placed([i \in TxIds |-> {tags.ids[g] : g \in A.tagged[i]}], ids, L.tagged),
        image   |-> Placed(image, imgs, L.image),
        fresh   |-> {ids[i] : i \in DOMAIN ids},
        ok      |-> tags.ok,
        last    |-> [tx |-> last.tx + Cardinality(DOMAIN ids), tag |-> tags.last,
                     image |-> last.image + Cardinality(DOMAIN imgs)]]

\* M is the merged ledger.
ArchivedCountsOnly(M) ==
    /\ \A i \in M.fresh : Archived(M.image, {i}) # {} => Cardinality(ImagesOf(M.image, {i})) <= MaxArchivedImagesPerTransaction
    /\ Cardinality(Archived(M.image, TxIds)) <= MaxArchivedImagesDatabase
validateCSVV3ImageQuota(M) ==
    LET ordinary == [g \in ImageIds |-> IF M.image[g].archive THEN NoImage ELSE M.image[g]]
    IN /\ ArchivedCountsOnly(M)
       /\ \A i \in M.fresh : PerTransactionOnly(M.tx, ordinary, i, <<>>)
       /\ \A i \in M.fresh : ImagesOf(M.image, {i}) # {} =>
             Bytes(M.image, Held(M.tx, M.tx[i].account)) <= MaxImageBytesPerAccount
       /\ Bytes(M.image, TxIds) <= MaxImageBytesDatabase

\* What importCSVV3Parsed requires of the rows it adds; before holds the
\* assignments that it may leave in conflict.
Accepted(L, A, M, before) ==
    /\ \A k \in DOMAIN L.setting : L.setting[k] # None /\ A.setting[k] # None => L.setting[k] = A.setting[k]
    /\ validateCSVV3ImageQuota(M)
    /\ \A e \in M.added : IsPair(M.tx, M.setting, e[1], e[2])
    /\ validateCardBankAssignmentChanges(M.tx, M.links, M.setting, before)
    /\ Representable(M.tx, {M.tx[i].account : i \in M.fresh})
=============================================================================
