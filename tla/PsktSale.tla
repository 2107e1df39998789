------------------------------ MODULE PsktSale ------------------------------
(***************************************************************************)
(* What an order book of PSKT orders promises about one listing: the       *)
(* listing's output is spent once, and an order is closed only afterwards, *)
(* as sold if the transaction paid the seller the order's price and came   *)
(* from one other wallet, as withdrawn if nobody else took part.  A closed *)
(* order stays as it is.                                                   *)
(***************************************************************************)
EXTENDS Naturals

CONSTANTS Pskts,      \* the orders made from the listing
          PriceOf,    \* the price of each
          Wallets, NoWallet,
          Spends,     \* the transactions that may spend the listing
          Unspent     \* the listing's output is still there

VARIABLES taken,      \* the transaction that spent the listing, or Unspent
          outcome,    \* "open", "sold" or "withdrawn", per order
          soldTo      \* the buyer of a sold order

Buys(s, o) == s.toSeller > 0 /\ s.toSeller >= PriceOf[o] /\ \E w \in Wallets : s.senders = {w}
Withdraws(s) == s.toSeller > 0 /\ s.senders = {}

SaleInit ==
    /\ taken = Unspent
    /\ outcome = [o \in Pskts |-> "open"]
    /\ soldTo = [o \in Pskts |-> NoWallet]

Take ==
    /\ taken = Unspent
    /\ taken' \in Spends
    /\ UNCHANGED <<outcome, soldTo>>

Sold(o) ==
    /\ outcome[o] = "open" /\ taken # Unspent /\ Buys(taken, o)
    /\ outcome' = [outcome EXCEPT ![o] = "sold"]
    /\ \E w \in taken.senders : soldTo' = [soldTo EXCEPT ![o] = w]
    /\ UNCHANGED taken

Withdrawn(o) ==
    /\ outcome[o] = "open" /\ taken # Unspent /\ Withdraws(taken)
    /\ outcome' = [outcome EXCEPT ![o] = "withdrawn"]
    /\ UNCHANGED <<taken, soldTo>>

SaleNext == Take \/ \E o \in Pskts : Sold(o) \/ Withdrawn(o)

SaleSpec == SaleInit /\ [][SaleNext]_<<taken, outcome, soldTo>>
=============================================================================
