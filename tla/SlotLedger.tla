----------------------------- MODULE SlotLedger -----------------------------
(***************************************************************************)
(* What the message pipeline promises about slot messages, without the     *)
(* cache, the counter and the flush loop: a message that arrives is        *)
(* pending until it is stored or lost, both of which are final; messages   *)
(* are stored in batches of one slot; and a stored message carries a tally *)
(* that never changes, counts it at least once and counts no more copies   *)
(* than had arrived.                                                       *)
(***************************************************************************)
EXTENDS Integers

CONSTANTS
  Ids,     \* message IDs
  SlotOf   \* [Ids -> Nat]

VARIABLES
  copies,  \* [Ids -> Nat]: copies that arrived
  status,  \* [Ids -> Statuses]
  tally    \* [Ids -> Nat]: the count stored with the message

Statuses == {"new", "pending", "stored", "lost"}

ledgerVars == <<copies, status, tally>>

LedgerInit ==
  /\ copies = [m \in Ids |-> 0]
  /\ status = [m \in Ids |-> "new"]
  /\ tally = [m \in Ids |-> 0]

\* A copy arrives; the first one makes the message pending, or is lost.
Arrive(m) ==
  /\ copies' = [copies EXCEPT ![m] = @ + 1]
  /\ \E st \in IF status[m] = "new" THEN {"pending", "lost"} ELSE {status[m]} :
       status' = [status EXCEPT ![m] = st]
  /\ UNCHANGED tally

\* The pending messages of a slot that make up a batch.
IsBatch(B) ==
  /\ B # {}
  /\ \A m \in B : status[m] = "pending"
  /\ \A m, n \in B : SlotOf[m] = SlotOf[n]

Settle(B, st) == status' = [m \in Ids |-> IF m \in B THEN st ELSE status[m]]

Store(B) ==
  /\ IsBatch(B)
  /\ Settle(B, "stored")
  /\ \A m \in B : tally'[m] \in 1..copies[m]
  /\ tally' = [m \in Ids |-> IF m \in B THEN tally'[m] ELSE tally[m]]
  /\ UNCHANGED copies

Lose(B) ==
  /\ IsBatch(B)
  /\ Settle(B, "lost")
  /\ UNCHANGED <<copies, tally>>

LedgerNext ==
  \/ \E m \in Ids : Arrive(m)
  \/ \E B \in SUBSET Ids : Store(B) \/ Lose(B)

LedgerSpec == LedgerInit /\ [][LedgerNext]_ledgerVars
=============================================================================
