--------------------------- MODULE EscrowContract ---------------------------
(***************************************************************************)
(* What the escrow of a sell order promises, without its handlers, its     *)
(* wallet or its statuses.  The goods (the order's KRC20 tokens) are held  *)
(* while the order is on the market.  When the order leaves the market it  *)
(* is executed once: the goods go to a buyer or back to the seller, and    *)
(* the seller is paid, once, only after the goods were sold.  An order     *)
(* that was executed or closed never comes back to the market.             *)
(***************************************************************************)
VARIABLES
    phase,    \* "market", "executing" or "closed"
    goods,    \* "out" (not deposited), "held", "sold" or "back"
    settled   \* the seller has been paid

vars == <<phase, goods, settled>>

Init == phase = "market" /\ goods = "out" /\ settled = FALSE

Deposit ==
    /\ goods = "out" /\ goods' = "held"
    /\ UNCHANGED <<phase, settled>>

Execute ==
    /\ phase = "market" /\ goods = "held"
    /\ phase' = "executing"
    /\ UNCHANGED <<goods, settled>>

Close ==
    /\ phase # "closed" /\ phase' = "closed"
    /\ UNCHANGED <<goods, settled>>

HandOver ==
    /\ phase # "market" /\ goods = "held"
    /\ goods' \in {"sold", "back"}
    /\ UNCHANGED <<phase, settled>>

Settle ==
    /\ phase # "market" /\ goods = "sold" /\ ~settled
    /\ settled' = TRUE
    /\ UNCHANGED <<phase, goods>>

Next == Deposit \/ Execute \/ Close \/ HandOver \/ Settle

Spec == Init /\ [][Next]_vars
=============================================================================
