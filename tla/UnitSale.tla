------------------------------ MODULE UnitSale ------------------------------
(***************************************************************************)
(* What a lunchpad promises its buyers, order by order: an order is        *)
(* reserved, and then either released or sold against a payment no other   *)
(* order is sold against; its tokens are delivered at most once, and only  *)
(* after it was sold.  What is sold is never released.                     *)
(***************************************************************************)
CONSTANTS OrderIds, Payments, NoPayment

VARIABLES stage,     \* how far every order is
          claim,     \* the payment an order is sold against
          delivered  \* the orders whose tokens were sent

vars == <<stage, claim, delivered>>

Init ==
    /\ stage = [o \in OrderIds |-> "none"]
    /\ claim = [o \in OrderIds |-> NoPayment]
    /\ delivered = {}

Move(o, from, to) == stage[o] = from /\ stage' = [stage EXCEPT ![o] = to]

Reserve(o) == Move(o, "none", "reserved") /\ UNCHANGED <<claim, delivered>>

Release(o) == Move(o, "reserved", "released") /\ UNCHANGED <<claim, delivered>>

\* No other order is sold against the payment.
Claim(o, t) ==
    /\ \A q \in OrderIds \ {o} : claim[q] # t
    /\ claim' = [claim EXCEPT ![o] = t]

Sell(o, t) == Move(o, "reserved", "sold") /\ Claim(o, t) /\ UNCHANGED delivered

\* A sold order may come to hold another payment of its buyer.
Reclaim(o, t) == stage[o] = "sold" /\ Claim(o, t) /\ UNCHANGED <<stage, delivered>>

Deliver(o) ==
    /\ stage[o] = "sold" /\ o \notin delivered
    /\ delivered' = delivered \cup {o}
    /\ UNCHANGED <<stage, claim>>

Next ==
    \E o \in OrderIds :
        \/ Reserve(o) \/ Release(o) \/ Deliver(o)
        \/ \E t \in Payments : Sell(o, t) \/ Reclaim(o, t)

Spec == Init /\ [][Next]_vars
=============================================================================
