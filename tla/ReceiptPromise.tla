--------------------------- MODULE ReceiptPromise ---------------------------
(***************************************************************************)
(* What the receipt writer promises about each receipt, with no loops,     *)
(* transactions, retries or locks in sight: it is grouped once and for     *)
(* good; what is on the chain stays there; a group is called CONFIRMED     *)
(* only if it is on the chain, and neither SUBMITTED nor CONFIRMED while   *)
(* a receipt in it is withheld; and only what was given up is re-driven.   *)
(***************************************************************************)
CONSTANTS
  Receipts,
  Groups,
  NoGroup

VARIABLES
  known,      \* the receipts accepted
  groupOf,    \* the group of each
  withheld,   \* those that must not be recorded as anchored
  status,     \* what is recorded of each group
  anchored    \* the groups the chain logs for good

vars == <<known, groupOf, withheld, status, anchored>>

Statuses == {"none", "PENDING", "SUBMITTED", "CONFIRMED", "DEGRADED_UNANCHORED"}

TypeOK ==
  /\ known \subseteq Receipts /\ withheld \subseteq known
  /\ groupOf \in [Receipts -> Groups \cup {NoGroup}]
  /\ status \in [Groups -> Statuses]
  /\ anchored \subseteq Groups

Init ==
  /\ known = {} /\ withheld = {} /\ anchored = {}
  /\ groupOf = [r \in Receipts |-> NoGroup]
  /\ status = [g \in Groups |-> "none"]

Exists(g) == status[g] # "none"
Clean(g)  == \A r \in withheld : groupOf[r] # g
Records(g, word) ==
  /\ status' = [status EXCEPT ![g] = word]
  /\ UNCHANGED <<known, withheld, anchored>>

Accept(r) ==
  /\ r \notin known /\ known' = known \cup {r}
  /\ UNCHANGED <<groupOf, withheld, status, anchored>>

Withhold(r) ==
  /\ r \in known /\ withheld' = withheld \cup {r}
  /\ UNCHANGED <<known, groupOf, status, anchored>>

Gather(g, rows) ==
  /\ rows # {} /\ \A r \in rows : r \in known /\ groupOf[r] = NoGroup
  /\ ~Exists(g)
  /\ groupOf' = [r \in Receipts |-> IF r \in rows THEN g ELSE groupOf[r]]
  /\ Records(g, "PENDING")

Submit(g)  == Exists(g) /\ Clean(g) /\ Records(g, "SUBMITTED") /\ UNCHANGED groupOf
GiveUp(g)  == Exists(g) /\ Records(g, "DEGRADED_UNANCHORED") /\ UNCHANGED groupOf
Confirm(g) == g \in anchored /\ Clean(g) /\ Records(g, "CONFIRMED") /\ UNCHANGED groupOf
Redrive(g) == /\ status[g] = "DEGRADED_UNANCHORED"
              /\ Records(g, "PENDING") /\ UNCHANGED groupOf

Anchor(g) ==
  /\ Exists(g) /\ anchored' = anchored \cup {g}
  /\ UNCHANGED <<known, groupOf, withheld, status>>

Next ==
  \/ \E r \in Receipts : Accept(r) \/ Withhold(r)
  \/ \E g \in Groups :
       \/ \E rows \in SUBSET Receipts : Gather(g, rows)
       \/ Submit(g) \/ GiveUp(g) \/ Confirm(g) \/ Redrive(g) \/ Anchor(g)

Spec == Init /\ [][Next]_vars
=============================================================================
