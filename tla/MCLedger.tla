------------------------------ MODULE MCLedger ------------------------------
(***************************************************************************)
(* Instances of Ledger for TLC: the ledgers that earlier versions left and *)
(* the archives that are imported.                                         *)
(***************************************************************************)
EXTENDS Ledger, TLC
CONSTANTS card, bank, food, rent

\* A row that the program wrote, at a time of the first day.
Row(a, d, m)  == [account |-> a, date |-> Bound(<<1, d>>), amount |-> m, balance |-> m]
Morning       == {<<1, 1>>}
OneDay        == {<<1, 1>>, <<1, 2>>}
Fresh         == EmptyLedger @@ [seq |-> [tx |-> 0, tag |-> 0, image |-> 0]]
Over(rows, f) == [x \in DOMAIN f |-> IF x \in DOMAIN rows THEN rows[x] ELSE f[x]]

CardAndBank == [credit_card_items |-> {card}, bank_account_items |-> {bank}]

\* One card transaction with two banks, which today's checks refuse.
TwoBanks ==
    [Fresh EXCEPT !.tx = Over(<<Row(card, 1, 1), Row(bank, 1, 1), [Row(bank, 1, 1) EXCEPT !.balance = 2]>>, @),
                  !.links = {<<1, 2>>, <<1, 3>>}, !.setting = CardAndBank, !.seq.tx = MaxTx]

\* The export of a linked pair whose ids are in the order opposite to its dates.
LinkedPair ==
    backupToCSVV3([EmptyLedger EXCEPT !.tx = Over(<<Row(bank, 2, 1), Row(card, 1, 1)>>, @),
                                      !.links = {<<1, 2>>}, !.setting = CardAndBank])

\* The largest balance twice, and its opposite: refused or accepted by date.
LargeAmounts ==
    backupToCSVV3([EmptyLedger EXCEPT !.tx = Over(<<Row(bank, 1, MaxBalance), Row(bank, 2, -MaxBalance)>>, @)])

\* A file with dates of several forms, the later one first.
ByHand ==
    [backupToCSVV3(EmptyLedger) EXCEPT
        !.tx = Over(<<[Row(bank, 2, 1) EXCEPT !.date = <<1, 1, 2, 1>>], [Row(bank, 0, 1) EXCEPT !.date = <<1, 0, 0, 0>>]>>, @),
        !.place = <<1, 2>>]

\* Two roots of one name, each with a child.
Root(n, dup)  == [name |-> n, parent |-> 0, level |-> 1, dup |-> dup]
Child(n, p)   == [name |-> n, parent |-> p, level |-> 2, dup |-> FALSE]
TwinTags      == Over(<<Root(food, FALSE), Root(food, TRUE), Child(rent, 2)>>, [g \in TagIds |-> NoTag])
Twins         == [Fresh EXCEPT !.tag = TwinTags, !.seq.tag = 3]
TwinArchive   == backupToCSVV3([EmptyLedger EXCEPT !.tag = TwinTags])
Tagged ==
    backupToCSVV3([EmptyLedger EXCEPT !.tx = Over(<<Row(card, 1, 3)>>, @),
                                      !.tag = Over(<<Root(food, FALSE), Child(rent, 1)>>, @), !.tagged[1] = {2}])

\* An account over its quota and a transaction over the limits of one transaction.
Picture(i, n) == [of |-> i, bytes |-> n, archive |-> FALSE]
Hoard ==
    [Fresh EXCEPT !.tx = Over(<<Row(card, 1, 1), [Row(card, 1, 1) EXCEPT !.balance = 2]>>, @), !.seq.tx = 2,
                  !.image = Over(<<Picture(1, 3), Picture(2, 1)>>, @), !.seq.image = 2]

\* Three transactions can still be added.
ThreeLeft == [Fresh EXCEPT !.seq.tx = MaxTx - 3]

\* Ledgers in which only one kind of row is still created: the ids of the others are
\* used up, by rows that were deleted.
OnlyTransactions == [ThreeLeft EXCEPT !.seq.tag = MaxTags, !.seq.image = MaxImages]
OnlyTags         == [Twins EXCEPT !.seq.tx = MaxTx, !.seq.image = MaxImages]
OneTransaction   == [Fresh EXCEPT !.seq.tx = MaxTx - 1, !.seq.tag = MaxTags - 2, !.seq.image = MaxImages]
OnlyImages       == [Hoard EXCEPT !.seq.tx = MaxTx, !.seq.tag = MaxTags]

AllLists      == SUBSET Accounts
Signed        == {-2, 3}
NoLists       == {<<>>}
Lists         == {<<>>, <<1>>, <<2>>}
FoodAndRent   == {<<>>, <<food>>, <<food, rent>>}
LegacyLinks   == {ThreeLeft, TwoBanks}
LegacyRows    == {OnlyTransactions, OnlyTags, OneTransaction, OnlyImages}
ArchivesLinks == {LinkedPair}
ArchivesRows  == {LargeAmounts, ByHand, TwinArchive, Tagged}
=============================================================================
