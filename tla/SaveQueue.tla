------------------------------ MODULE SaveQueue ------------------------------
(***************************************************************************)
(* What the save API promises its client (docs/api-errors.md, "server      *)
(* transaction save receipts"): a request is accepted once, with one       *)
(* content; accepted requests are settled one at a time in the order of    *)
(* their receipts; settling one either adds its mutation to the ledger or  *)
(* rejects it for good; and a restore takes receipts and ledger back       *)
(* together.  Workers, wake-ups, retries and crashes are not visible here. *)
(***************************************************************************)
EXTENDS Naturals, Sequences

CONSTANTS Ids, Contents, None,
          Numbers  \* the receipt numbers

VARIABLES
    receipts,  \* by request: its outcome so far, its content, its receipt number
    ledger,    \* the mutations made, oldest first
    past       \* states that were saved

queueVars == <<receipts, ledger, past>>

NoReceipt == [outcome |-> "none", content |-> None, number |-> 0]

Init ==
    /\ receipts = [i \in Ids |-> NoReceipt]
    /\ ledger = <<>>
    /\ past = {}

Accept(id, c) ==
    /\ receipts[id].outcome = "none"
    /\ \E n \in Numbers :
          /\ \A j \in Ids : receipts[j].number < n
          /\ receipts' = [receipts EXCEPT ![id] =
                            [outcome |-> "pending", content |-> c, number |-> n]]
    /\ UNCHANGED <<ledger, past>>

IsNext(id) ==
    /\ receipts[id].outcome = "pending"
    /\ \A j \in Ids : receipts[j].outcome = "pending" =>
                         receipts[id].number <= receipts[j].number

Apply(id) ==
    /\ IsNext(id)
    /\ ledger' = Append(ledger, [id |-> id, content |-> receipts[id].content])
    /\ receipts' = [receipts EXCEPT ![id].outcome = "completed"]
    /\ UNCHANGED past

Reject(id) ==
    /\ IsNext(id)
    /\ receipts' = [receipts EXCEPT ![id].outcome = "failed"]
    /\ UNCHANGED <<ledger, past>>

Save ==
    /\ past' = past \cup {[receipts |-> receipts, ledger |-> ledger]}
    /\ UNCHANGED <<receipts, ledger>>

Rollback ==
    /\ [receipts |-> receipts', ledger |-> ledger'] \in past
    /\ UNCHANGED past

Next ==
    \/ \E id \in Ids :
          (\E c \in Contents : Accept(id, c)) \/ Apply(id) \/ Reject(id)
    \/ Save \/ Rollback

QueueSpec == Init /\ [][Next]_queueVars
=============================================================================
