----------------------------- MODULE MCServices -----------------------------
(***************************************************************************)
(* The parts beside the order book, the lunchpad and the batch mint's      *)
(* jobs: PSKT orders, the graceful shutdown, withdrawals, the network      *)
(* connection with its watchers, and a batch's budget.  They share no      *)
(* state, so one behaviour explores one of them, chosen in the initial     *)
(* state, and the others stay in theirs.                                   *)
(***************************************************************************)
EXTENDS P2pOrderV2, Shutdown, Withdrawal, TransactionWatch, MintBudget, TLC

CONSTANTS o1, o2, q1, q2, q3, i1, i2, w1, w2, c1, c2, d1, x, sweeper

\* Two PSKTs of one listing, for different prices.
MCPriceOf == (o1 :> 1) @@ (o2 :> 2)

\* Two runs in one instance and one in another.
MCHome == (q1 :> i1) @@ (q2 :> i1) @@ (q3 :> i2)

\* The first withdrawal needs two outputs; the second needs the deposit, mature or pending
\* when it is asked for, or is refused.
MCAmountOf == (w1 :> 3) @@ (w2 :> 5)
MCFundAmount == (c1 :> 2) @@ (c2 :> 2) @@ (d1 :> 4)

\* All callers send from one wallet.
MCAddressOf == [d \in Callers |-> x]

VARIABLE part

Init ==
    /\ part \in {"pskt", "shutdown", "withdrawal", "network", "budget"}
    /\ PsktInit /\ ShutdownInit /\ WithdrawalInit /\ NetworkInit /\ BudgetInit

Next ==
    /\ \/ /\ part = "pskt" /\ PsktNext
          /\ UNCHANGED <<shutdownVars, withdrawalVars, networkVars, budgetVars>>
       \/ /\ part = "shutdown" /\ ShutdownNext
          /\ UNCHANGED <<psktVars, withdrawalVars, networkVars, budgetVars>>
       \/ /\ part = "withdrawal" /\ WithdrawalNext
          /\ UNCHANGED <<psktVars, shutdownVars, networkVars, budgetVars>>
       \/ /\ part = "network" /\ NetworkNext
          /\ UNCHANGED <<psktVars, shutdownVars, withdrawalVars, budgetVars>>
       \/ /\ part = "budget" /\ BudgetNext
          /\ UNCHANGED <<psktVars, shutdownVars, withdrawalVars, networkVars>>
    /\ UNCHANGED part

\* Of a part that is not explored no action is ever enabled that its fairness names.
Spec ==
    /\ Init /\ [][Next]_<<part, psktVars, shutdownVars, withdrawalVars, networkVars, budgetVars>>
    /\ PsktFairness /\ ShutdownFairness /\ WithdrawalFairness

\* Every variable of every part has its type.
ServicesTypeOK ==
    PsktTypeOK /\ ShutdownTypeOK /\ WithdrawalTypeOK /\ NetworkTypeOK /\ BudgetTypeOK
=============================================================================
