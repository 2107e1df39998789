-------------------------- MODULE P2pOrder_proofs --------------------------
(***************************************************************************)
(* Theorems about the sell order, for every set of handlers, buyers,       *)
(* prices and payments.  The inductive invariant IInv has three layers:    *)
(*   TypeInv   the types, and what a handler that writes a transaction id  *)
(*             to the document has just sent;                              *)
(*   LockInv   the status transitions work as a lock on the execution;     *)
(*   SendInv   a transaction still to be sent was never sent: SentOnce.    *)
(* Every layer is shown to be kept by a step under the layers before it.   *)
(* Shapes sorts the steps of the system by what they change, so that the   *)
(* layers above the types deal with a dozen kinds of step instead of with  *)
(* every action.                                                           *)
(*                                                                         *)
(* That tokens go to the order's buyer against the order's price, and that *)
(* the order implements the escrow contract, need more about the money and *)
(* the tokens:                                                             *)
(*   Undeposited   before the deposit nobody works on the order;           *)
(*   Outcome       what the tokens did is what the chain and isDelist say; *)
(*   Held          the wallet holds payments and the commit's change;      *)
(*   Bought        a locked or executed order has a buyer, a committed     *)
(*                 swap was paid for, a delivery went to the buyer.        *)
(***************************************************************************)
EXTENDS P2pOrder, TLAPS

-----------------------------------------------------------------------------
(* The inductive invariant *)

\* A handler about to record a transaction has just sent the next one due.
Sending ==
    \A p \in Procs : At(p, "notify") =>
        proc[p].todo # {} /\ proc[p].sent = NextTx(proc[p].todo)

TypeInv == TypeOK /\ Sending

\* While somebody executes the order, its status admits nobody else.
Locked ==
    \A p \in Procs : Executing(p) =>
        order.status \notin InMarket \cup {"WAITING_FOR_LOW_FEE"}

LockInv == Locked /\ SwapExclusion

Working(p) == proc[p].pc \in {"exec", "notify", "lowFee"}
Unsent(todo) == \A f \in todo : chain[f] = 0
KindOf(o) == IF o.isDelist THEN "delist" ELSE "swap"

\* Nothing was sent for an order on the market.
Untouched ==
    order.status \in InMarket =>
        Unsent(Fields) /\ order.txs = {} /\ ~order.isDelist

\* Whoever executes the order works from the transactions the document records,
\* and nothing it still has to send was sent.
Fresh ==
    \A p \in Procs : Working(p) =>
        /\ proc[p].snap.txs = order.txs
        /\ proc[p].kind = KindOf(order)
        /\ proc[p].todo # {} => proc[p].todo = Todo(proc[p].kind, proc[p].snap)
        /\ Unsent(IF At(p, "notify") THEN proc[p].todo \ {proc[p].sent} ELSE proc[p].todo)
        /\ At(p, "lowFee") => proc[p].todo # {}

\* What an order waiting for a lower fee still needs was not sent.
Waiting ==
    order.status = "WAITING_FOR_LOW_FEE" => Unsent(Todo(KindOf(order), order))

\* The document the cron job resumes from is not stale when its transition succeeds.
Resumable ==
    At(Cron, "feeCas") =>
        /\ order.status \in {"WAITING_FOR_LOW_FEE"} \cup Closed
        /\ order.status = "WAITING_FOR_LOW_FEE" => proc[Cron].snap = order

SendInv == Untouched /\ Fresh /\ Waiting /\ Resumable /\ SentOnce

IInv == TypeInv /\ LockInv /\ SendInv

-----------------------------------------------------------------------------
(* Types *)

\* The idle handler is a well-typed local state.
LEMMA IdleType == Idle \in Jobs
  BY ConstantsAssumption, SMTT(30)
     DEF Idle, Jobs, BlankOrder, Orders, Utxos, NoPayment, Amounts, Labels, Statuses, Fields

\* The change of the commit is an output like any other.
LEMMA ChangeType == Change \in Utxos
  BY DEF Change, Utxos, Amounts

\* Every payment a wallet may make is an output of the escrow wallet.
LEMMA PaymentType == Payments \subseteq Utxos
  BY ConstantsAssumption DEF Utxos, Amounts

\* The types of a local state's fields.
LEMMA JobFields ==
  ASSUME NEW j \in Jobs
  PROVE  /\ j.pc \in Labels /\ j.snap \in Orders /\ j.tx \in Utxos
         /\ j.who \in Wallets \cup {NoOne} /\ j.kind \in {"swap", "delist"}
         /\ j.todo \in SUBSET Fields /\ j.sent \in Fields \cup {"none"}
  BY DEF Jobs

\* notifyUpdate leaves a well-typed local state.
LEMMA NotifiedJob ==
  ASSUME NEW j \in Jobs, NEW fs \in SUBSET Fields, NEW gs \in SUBSET Fields
  PROVE  [j EXCEPT !.pc = "exec", !.snap.txs = fs, !.todo = gs, !.sent = "none"] \in Jobs
<1>1. [j.snap EXCEPT !.txs = fs] \in Orders
  BY JobFields DEF Orders
<1>2. [j EXCEPT !.pc = "exec", !.snap.txs = fs, !.todo = gs, !.sent = "none"]
        = [j EXCEPT !.pc = "exec", !.snap = [j.snap EXCEPT !.txs = fs], !.todo = gs, !.sent = "none"]
  BY DEF Jobs
<1> QED
  BY <1>1, <1>2 DEF Jobs, Labels

\* What is to be sent are transactions of SwapTransactionsResult.
LEMMA TodoType == \A k, o : Todo(k, o) \in SUBSET Fields
  BY DEF Todo, Fields

\* The next transaction is one of those still to be sent.
LEMMA NextTxType ==
  ASSUME NEW todo \in SUBSET Fields, todo # {}
  PROVE  NextTx(todo) \in todo
  BY DEF NextTx, Fields

\* Every step keeps the types.
LEMMA TypeStep == TypeInv /\ Next => TypeOK'
<1> SUFFICES ASSUME TypeOK, Sending, Next PROVE TypeOK'
  BY DEF TypeInv
<1> USE IdleType, ChangeType, ConstantsAssumption
    DEF TypeOK, store, world, Procs, At, End, Goto, Begin, Forget, Transition, Rejected
<1>1. ASSUME NEW p \in Procs, NEW w \in Buyers, Buy(p, w) PROVE TypeOK'
  <2>1. [Idle EXCEPT !.pc = "buyBalance", !.snap = order, !.who = w] \in Jobs
    BY DEF Labels, Wallets, Jobs
  <2> QED BY <1>1, <2>1 DEF Buy
<1>2. ASSUME NEW p \in Procs, NEW t \in Payments, ConfirmBuy(p, t) PROVE TypeOK'
  <2>1. [Idle EXCEPT !.pc = "cbVerify", !.snap = order, !.tx = t] \in Jobs
    BY PaymentType DEF Labels, Jobs
  <2> QED BY <1>2, <2>1 DEF ConfirmBuy
<1>3. ASSUME NEW p \in Procs, RemoveFromMarketplace(p) PROVE TypeOK'
  <2>1. [Idle EXCEPT !.pc = "remBalance", !.snap = order] \in Jobs
    BY DEF Labels, Jobs
  <2> QED BY <1>3, <2>1 DEF RemoveFromMarketplace
<1>4. ASSUME NEW p \in Procs, UpdateSellOrder(p) PROVE TypeOK'
  <2>1. [Idle EXCEPT !.pc = "updBalance", !.snap = order] \in Jobs
    BY DEF Labels, Jobs
  <2> QED BY <1>4, <2>1 DEF UpdateSellOrder
<1>5. ASSUME FeeOrders PROVE TypeOK'
  <2>1. [Idle EXCEPT !.pc = "feeCas", !.snap = order] \in Jobs
    BY DEF Labels, Jobs
  <2> QED BY <1>5, <2>1 DEF FeeOrders
<1>6. ASSUME NEW p \in Procs, ConfirmDelist(p) PROVE TypeOK'
  <2>1. [Idle EXCEPT !.pc = "dlUtxos"] \in Jobs
    BY DEF Labels, Jobs
  <2>2. \A t \in paid : [Idle EXCEPT !.pc = "dlVerify", !.tx = t] \in Jobs
    BY PaymentType DEF Labels, Jobs
  <2> QED BY <1>6, <2>1, <2>2 DEF ConfirmDelist
<1>7. ASSUME NEW p \in Procs, ConfirmBuyCheckout(p) PROVE TypeOK'
  <2>1. CASE /\ Transition("WAITING_FOR_KAS", "CHECKOUT")
            /\ Execute(p, "swap", order') /\ UNCHANGED <<expired, world>>
    <3>1. order' \in Orders
      BY <2>1 DEF SetDelisting, Statuses, Orders, Jobs
    <3>2. [Idle EXCEPT !.pc = "exec", !.snap = order', !.kind = "swap",
                       !.todo = Todo("swap", order')] \in Jobs
      BY <3>1, TodoType DEF Labels, Jobs
    <3> QED BY <2>1, <3>1, <3>2 DEF Execute
  <2>2. CASE Rejected(p, "WAITING_FOR_KAS")
    BY <2>2
  <2> QED BY <1>7, <2>1, <2>2 DEF ConfirmBuyCheckout
<1>8. ASSUME NEW p \in Procs, DelistTransition(p) PROVE TypeOK'
  <2>1. CASE /\ SetDelisting("OFF_MARKETPLACE")
            /\ Execute(p, "delist", order') /\ UNCHANGED <<expired, world>>
    <3>1. order' \in Orders
      BY <2>1 DEF SetDelisting, Statuses, Orders, Jobs
    <3>2. [Idle EXCEPT !.pc = "exec", !.snap = order', !.kind = "delist",
                       !.todo = Todo("delist", order')] \in Jobs
      BY <3>1, TodoType DEF Labels, Jobs
    <3> QED BY <2>1, <3>1, <3>2 DEF Execute
  <2>2. CASE Rejected(p, "OFF_MARKETPLACE")
    BY <2>2
  <2> QED BY <1>8, <2>1, <2>2 DEF DelistTransition
<1>9. ASSUME ResumeLowFee PROVE TypeOK'
  <2>1. CASE /\ SetDelisting("WAITING_FOR_LOW_FEE")
            /\ Execute(Cron, "delist", proc[Cron].snap) /\ UNCHANGED <<expired, world>>
    <3>1. order' \in Orders /\ proc[Cron].snap \in Orders
      BY <2>1 DEF SetDelisting, Statuses, Orders, Jobs
    <3>2. [Idle EXCEPT !.pc = "exec", !.snap = proc[Cron].snap, !.kind = "delist",
                       !.todo = Todo("delist", proc[Cron].snap)] \in Jobs
      BY <3>1, TodoType DEF Labels, Jobs
    <3> QED BY <2>1, <3>1, <3>2 DEF Execute
  <2>2. CASE /\ Transition("WAITING_FOR_LOW_FEE", "CHECKOUT")
            /\ Execute(Cron, "swap", proc[Cron].snap) /\ UNCHANGED <<expired, world>>
    <3>1. order' \in Orders /\ proc[Cron].snap \in Orders
      BY <2>2 DEF SetDelisting, Statuses, Orders, Jobs
    <3>2. [Idle EXCEPT !.pc = "exec", !.snap = proc[Cron].snap, !.kind = "swap",
                       !.todo = Todo("swap", proc[Cron].snap)] \in Jobs
      BY <3>1, TodoType DEF Labels, Jobs
    <3> QED BY <2>2, <3>1, <3>2 DEF Execute
  <2>3. CASE Rejected(Cron, "WAITING_FOR_LOW_FEE")
    BY <2>3
  <2> QED BY <1>9, <2>1, <2>2, <2>3 DEF ResumeLowFee
<1>10. ASSUME NEW p \in Procs, Submit(p) PROVE TypeOK'
  <2>1. NextTx(proc[p].todo) \in Fields
    BY <1>10, JobFields, NextTxType DEF Submit
  <2>2. /\ chain' \in [Fields -> Nat] /\ UNCHANGED <<order, expired, paid>>
        /\ tokens' \in {"seller", "escrow", "delivered", "returned"}
    BY <1>10, <2>1 DEF Submit, ChainEffect
  <2>3. wallet' \subseteq Utxos
    BY <1>10 DEF Submit, ChainEffect
  <2>4. receiver' \in Wallets \cup {NoOne}
    BY <1>10, JobFields DEF Submit, ChainEffect, Orders, Wallets
  <2>5. proc' \in [Procs -> Jobs]
    BY <1>10, <2>1 DEF Submit, Jobs, Labels
  <2> QED BY <2>2, <2>3, <2>4, <2>5
<1>11. ASSUME NEW p \in Procs, NotifyUpdate(p) PROVE TypeOK'
  <2> DEFINE done == proc[p].snap.txs \cup {proc[p].sent}
  <2>1. proc[p].sent \in Fields
    BY <1>11, JobFields, NextTxType DEF NotifyUpdate, Sending
  <2>2. done \in SUBSET Fields
    BY <2>1, JobFields DEF Orders
  <2>3. [proc[p] EXCEPT !.pc = "exec", !.snap.txs = done,
                        !.todo = @ \ {proc[p].sent}, !.sent = "none"] \in Jobs
    BY <2>2, NotifiedJob, JobFields
  <2>4. order' \in Orders
    BY <1>11, <2>2 DEF NotifyUpdate, Orders
  <2> QED BY <1>11, <2>3, <2>4 DEF NotifyUpdate
<1>12. ASSUME NEW p \in Procs, NEW q \in Prices, UpdatePrices(p, q) PROVE TypeOK'
  BY <1>12 DEF UpdatePrices, Orders
<1>13. ASSUME SendTokens \/ LockExpires PROVE TypeOK'
  BY <1>13 DEF SendTokens, LockExpires
<1>14. ASSUME NEW u \in Payments, Pay(u) PROVE TypeOK'
  BY <1>14, PaymentType DEF Pay
<1> USE DEF Jobs, Orders, Utxos
<1>15. ASSUME NEW p \in Procs, BuyAssign(p) PROVE TypeOK'
  <2>1. order' \in Orders
    <3>1. CASE AssignBuyer(p)
      BY <3>1 DEF AssignBuyer, Statuses
    <3> QED BY <1>15, <3>1 DEF BuyAssign
  <2>2. proc' \in [Procs -> Jobs]
    BY <1>15 DEF BuyAssign, Release, Labels
  <2> QED BY <1>15, <2>1, <2>2 DEF BuyAssign, AssignBuyer, Release
<1>16. ASSUME NEW p \in Procs, MoneyAssign(p) PROVE TypeOK'
  <2>1. order' \in Orders
    <3>1. CASE AssignBuyer(p)
      BY <3>1 DEF AssignBuyer, Statuses
    <3> QED BY <1>16, <3>1 DEF MoneyAssign
  <2>2. proc' \in [Procs -> Jobs]
    BY <1>16 DEF MoneyAssign, Release, Labels
  <2> QED BY <1>16, <2>1, <2>2 DEF MoneyAssign, AssignBuyer, Release
<1>17. ASSUME NEW p \in Procs, ReleaseTransition(p) PROVE TypeOK'
  <2>1. order' \in Orders
    BY ZenonT(60), <1>17 DEF ReleaseTransition, Release, Statuses
  <2>2. proc' \in [Procs -> Jobs]
    BY <1>17 DEF ReleaseTransition, Release, Labels
  <2> QED BY <1>17, <2>1, <2>2 DEF ReleaseTransition, AssignBuyer, Release
<1>18. ASSUME ExpiredRelease PROVE TypeOK'
  <2>1. order' \in Orders
    BY ZenonT(60), <1>18 DEF ExpiredRelease, Release, Statuses
  <2>2. proc' \in [Procs -> Jobs]
    BY <1>18 DEF ExpiredRelease, Release, Labels
  <2> QED BY <1>18, <2>1, <2>2 DEF ExpiredRelease, Release
<1>19. ASSUME ExpiredWaiting PROVE TypeOK'
  <2>1. order' \in Orders
    BY <1>19 DEF ExpiredWaiting, Release, Statuses
  <2>2. proc' \in [Procs -> Jobs]
    BY <1>19 DEF ExpiredWaiting, Release, Labels
  <2> QED BY <1>19, <2>1, <2>2 DEF ExpiredWaiting, Release
<1>20. ASSUME NEW p \in Procs, ConfirmSell(p) PROVE TypeOK'
  BY <1>20 DEF ConfirmSell, Labels, Statuses
<1>21. ASSUME NEW p \in Procs, SetReadyForSale(p) PROVE TypeOK'
  BY <1>21 DEF SetReadyForSale, Labels, Statuses
<1>22. ASSUME NEW p \in Procs, BuyBalance(p) PROVE TypeOK'
  BY <1>22 DEF BuyBalance, Labels, Statuses
<1>23. ASSUME NEW p \in Procs, MoneyUtxos(p) PROVE TypeOK'
  BY <1>23 DEF MoneyUtxos, Labels, Statuses
<1>24. ASSUME NEW p \in Procs, MoneyAmount(p) PROVE TypeOK'
  BY <1>24 DEF MoneyAmount, Labels, Statuses
<1>25. ASSUME NEW p \in Procs, MoneyRelist(p) PROVE TypeOK'
  BY <1>25 DEF MoneyRelist, Labels, Statuses
<1>26. ASSUME NEW p \in Procs, SetUnknownMoney(p) PROVE TypeOK'
  BY <1>26 DEF SetUnknownMoney, Labels, Statuses
<1>27. ASSUME NEW p \in Procs, ConfirmBuyRead(p) PROVE TypeOK'
  BY <1>27 DEF ConfirmBuyRead, Labels, Statuses
<1>28. ASSUME NEW p \in Procs, ConfirmBuyVerify(p) PROVE TypeOK'
  BY <1>28 DEF ConfirmBuyVerify, Labels, Statuses
<1>29. ASSUME NEW p \in Procs, ReleaseBuyLock(p) PROVE TypeOK'
  BY <1>29 DEF ReleaseBuyLock, Labels, Statuses
<1>30. ASSUME NEW p \in Procs, ReleaseBalance(p) PROVE TypeOK'
  BY <1>30 DEF ReleaseBalance, Labels, Statuses
<1>31. ASSUME NEW p \in Procs, RemoveBalance(p) PROVE TypeOK'
  BY <1>31 DEF RemoveBalance, Labels, Statuses
<1>32. ASSUME NEW p \in Procs, RemoveTransition(p) PROVE TypeOK'
  BY <1>32 DEF RemoveTransition, Labels, Statuses
<1>33. ASSUME NEW p \in Procs, UpdateBalance(p) PROVE TypeOK'
  BY <1>33 DEF UpdateBalance, Labels, Statuses
<1>34. ASSUME NEW p \in Procs, RelistSellOrder(p) PROVE TypeOK'
  BY <1>34 DEF RelistSellOrder, Labels, Statuses
<1>35. ASSUME NEW p \in Procs, RelistTransition(p) PROVE TypeOK'
  BY <1>35 DEF RelistTransition, Labels, Statuses
<1>36. ASSUME NEW p \in Procs, DelistUtxos(p) PROVE TypeOK'
  BY <1>36 DEF DelistUtxos, Labels, Statuses
<1>37. ASSUME NEW p \in Procs, DelistVerify(p) PROVE TypeOK'
  BY <1>37 DEF DelistVerify, Labels, Statuses
<1>38. ASSUME NEW p \in Procs, ExecError(p) PROVE TypeOK'
  BY <1>38 DEF ExecError, Labels
<1>39. ASSUME NEW p \in Procs, FeeTooHigh(p) PROVE TypeOK'
  BY <1>39 DEF FeeTooHigh, Labels, Statuses
<1>40. ASSUME NEW p \in Procs, SetLowFeeStatus(p) PROVE TypeOK'
  BY <1>40 DEF SetLowFeeStatus, Labels, Statuses
<1>41. ASSUME NEW p \in Procs, SetSwapError(p) PROVE TypeOK'
  BY <1>41 DEF SetSwapError, Labels, Statuses
<1>42. ASSUME NEW p \in Procs, SetOrderCompleted(p) PROVE TypeOK'
  BY <1>42 DEF SetOrderCompleted, Labels, Statuses
<1>43. ASSUME NEW p \in Procs, Stop(p) PROVE TypeOK'
  BY <1>43 DEF Stop, Labels, Statuses
<1>44. ASSUME ExpiredOrders PROVE TypeOK'
  BY <1>44 DEF ExpiredOrders, Labels, Statuses
<1>45. ASSUME SetCheckingExpired PROVE TypeOK'
  BY <1>45 DEF SetCheckingExpired, Labels, Statuses
<1>46. ASSUME ExpiredUtxos PROVE TypeOK'
  BY <1>46 DEF ExpiredUtxos, Labels, Statuses
<1>47. ASSUME WaitingTokensOrders PROVE TypeOK'
  BY <1>47 DEF WaitingTokensOrders, Labels, Statuses
<1>48. ASSUME CheckTokens PROVE TypeOK'
  BY <1>48 DEF CheckTokens, Labels, Statuses
<1>49. ASSUME SetTokensNotSent PROVE TypeOK'
  BY <1>49 DEF SetTokensNotSent, Labels, Statuses
<1> HIDE DEF TypeOK, Jobs, Orders, Utxos
<1>50. ASSUME NEW p \in Procs, Requests(p) \/ Continue(p) \/ Stop(p) PROVE TypeOK'
  BY <1>50, <1>1, <1>2, <1>3, <1>4, <1>6, <1>7, <1>8, <1>10, <1>11, <1>12, <1>15, <1>16,
     <1>17, <1>20, <1>21, <1>22, <1>23, <1>24, <1>25, <1>26, <1>27, <1>28, <1>29, <1>30,
     <1>31, <1>32, <1>33, <1>34, <1>35, <1>36, <1>37, <1>38, <1>39, <1>40, <1>41, <1>42,
     <1>43
     DEF Requests, Continue, Execution
<1>51. ASSUME CronPhases \/ CronSteps \/ Environment PROVE TypeOK'
  BY <1>51, <1>5, <1>9, <1>13, <1>14, <1>18, <1>19, <1>44, <1>45, <1>46, <1>47, <1>48,
     <1>49
     DEF CronPhases, CronSteps, Environment
<1> QED
  BY <1>50, <1>51 DEF Next

-----------------------------------------------------------------------------
(* The kinds of steps *)

OthersKeep(p) == \A q \in Procs \ {p} : proc'[q] = proc[q]
Rests(p) == proc'[p].pc \notin {"exec", "notify", "lowFee", "swapError", "feeCas"}

Quiet(p) == UNCHANGED <<order, world>> /\ OthersKeep(p) /\ Rests(p)
\* The statuses of an order locked for a buyer.
Locks == {"WAITING_FOR_KAS", "CHECKING_EXPIRED"}
Listing(p) ==
    /\ order.status \in InMarket /\ order'.status \in InMarket \cup {"TOKENS_NOT_SENT"}
    /\ order'.status \in Locks =>
         \/ order.status \in Locks /\ order'.buyer = order.buyer
         \/ proc[p].pc \in {"buyAssign", "moneyAssign"} /\ order'.buyer = proc[p].who
    /\ order'.txs = order.txs /\ order'.isDelist = order.isDelist
    /\ UNCHANGED world /\ OthersKeep(p) /\ Rests(p)
Closing(p) ==
    /\ order'.status \in Closed
    /\ order' = [order EXCEPT !.status = order'.status]
    /\ UNCHANGED world /\ OthersKeep(p) /\ Rests(p)

Enters(p, o) ==
    /\ order'.status \in {"CHECKOUT", "DELISTING"} /\ order'.txs = order.txs
    /\ order'.buyer = order.buyer /\ order'.price = order.price
    /\ proc'[p].pc = "exec" /\ proc'[p].snap = o
    /\ proc'[p].todo = Todo(proc'[p].kind, o)
    /\ \/ proc'[p].kind = "delist" /\ order'.isDelist
       \/ proc'[p].kind = "swap" /\ order'.isDelist = order.isDelist
    /\ UNCHANGED world /\ OthersKeep(p)
Starting(p) ==
    /\ order.status \in InMarket /\ proc[p].pc \in {"cbCheckout", "dlCas"}
    /\ Enters(p, order')
    /\ proc'[p].kind = "swap" => order.status \in Locks
Resuming ==
    /\ At(Cron, "feeCas") /\ order.status = "WAITING_FOR_LOW_FEE"
    /\ Enters(Cron, proc[Cron].snap)
    /\ proc'[Cron].kind = KindOf(proc[Cron].snap)

\* What a handler that enters doSellSwap or cancelSellSwap starts with.
LEMMA ExecuteJob ==
  ASSUME TypeOK, NEW p \in Procs, NEW k, NEW o, Execute(p, k, o)
  PROVE  /\ OthersKeep(p)
         /\ proc'[p].pc = "exec" /\ proc'[p].snap = o /\ proc'[p].kind = k
         /\ proc'[p].todo = Todo(k, o)
  BY DEF TypeOK, Execute, OthersKeep, Idle

\* A transition that matches nothing changes nothing but the handler.
LEMMA RejectedQuiet ==
  ASSUME TypeOK, NEW p \in Procs, NEW st, Rejected(p, st)
  PROVE  Quiet(p)
  BY DEF TypeOK, Rejected, End, Quiet, Idle, OthersKeep, Rests, store

\* confirmBuy's transition is lost or starts the swap.
LEMMA CheckoutStarts ==
  ASSUME TypeOK, NEW p \in Procs, ConfirmBuyCheckout(p)
  PROVE  Quiet(p) \/ Starting(p)
<1>1. CASE Rejected(p, "WAITING_FOR_KAS")
  BY <1>1, RejectedQuiet
<1>2. CASE /\ Transition("WAITING_FOR_KAS", "CHECKOUT")
           /\ Execute(p, "swap", order') /\ UNCHANGED <<expired, world>>
  <2>1. /\ order'.status = "CHECKOUT" /\ order'.txs = order.txs
        /\ order'.isDelist = order.isDelist
        /\ order'.buyer = order.buyer /\ order'.price = order.price
    BY <1>2 DEF Transition, TypeOK, Orders
  <2> QED
    BY <1>2, <2>1, ExecuteJob
       DEF Starting, Enters, Transition, InMarket, Locks, ConfirmBuyCheckout, At
<1> QED
  BY <1>1, <1>2 DEF ConfirmBuyCheckout

\* confirmDelist's transition is lost or starts the delist.
LEMMA DelistStarts ==
  ASSUME TypeOK, NEW p \in Procs, DelistTransition(p)
  PROVE  Quiet(p) \/ Starting(p)
<1>1. CASE Rejected(p, "OFF_MARKETPLACE")
  BY <1>1, RejectedQuiet
<1>2. CASE /\ SetDelisting("OFF_MARKETPLACE")
           /\ Execute(p, "delist", order') /\ UNCHANGED <<expired, world>>
  <2>1. /\ order'.status = "DELISTING" /\ order'.txs = order.txs /\ order'.isDelist
        /\ order'.buyer = order.buyer /\ order'.price = order.price
    BY <1>2 DEF SetDelisting, TypeOK, Orders
  <2>2. Enters(p, order')
    BY <1>2, <2>1, ExecuteJob DEF Enters
  <2> QED
    BY <1>2, <2>2, ExecuteJob DEF Starting, SetDelisting, InMarket, DelistTransition, At
<1> QED
  BY <1>1, <1>2 DEF DelistTransition

\* The cron job's transition is lost or resumes what waited for a lower fee.
LEMMA LowFeeResumes ==
  ASSUME TypeOK, ResumeLowFee
  PROVE  Quiet(Cron) \/ Resuming
<1> Cron \in Procs
  BY DEF Procs
<1>1. CASE Rejected(Cron, "WAITING_FOR_LOW_FEE")
  BY <1>1, RejectedQuiet
<1>2. CASE /\ proc[Cron].snap.isDelist
           /\ SetDelisting("WAITING_FOR_LOW_FEE")
           /\ Execute(Cron, "delist", proc[Cron].snap) /\ UNCHANGED <<expired, world>>
  <2>1. /\ order'.status = "DELISTING" /\ order'.txs = order.txs /\ order'.isDelist
        /\ order'.buyer = order.buyer /\ order'.price = order.price
    BY <1>2 DEF SetDelisting, TypeOK, Orders
  <2> QED
    BY ZenonT(60), <1>2, <2>1, ExecuteJob DEF Resuming, Enters, SetDelisting, KindOf, ResumeLowFee
<1>3. CASE /\ ~proc[Cron].snap.isDelist
           /\ Transition("WAITING_FOR_LOW_FEE", "CHECKOUT")
           /\ Execute(Cron, "swap", proc[Cron].snap) /\ UNCHANGED <<expired, world>>
  <2>1. /\ order'.status = "CHECKOUT" /\ order'.txs = order.txs
        /\ order'.isDelist = order.isDelist
        /\ order'.buyer = order.buyer /\ order'.price = order.price
    BY <1>3 DEF Transition, TypeOK, Orders
  <2> QED
    BY <1>3, <2>1, ExecuteJob DEF Resuming, Enters, Transition, KindOf, ResumeLowFee
<1> QED
  BY <1>1, <1>2, <1>3 DEF ResumeLowFee

\* Every step of the system is of one of these kinds.
LEMMA Shapes ==
  ASSUME TypeOK, Next
  PROVE  \/ \E p \in Procs :
              \/ Quiet(p) \/ Listing(p) \/ Closing(p) \/ Starting(p)
              \/ Submit(p) \/ NotifyUpdate(p) \/ ExecError(p) \/ FeeTooHigh(p)
              \/ SetLowFeeStatus(p)
         \/ FeeOrders \/ Resuming \/ Environment
<1> USE DEF TypeOK, store, world, Idle, At, End, Goto, Begin, Forget, Transition, Rejected,
            OthersKeep, Rests, Locks
<1>1. ASSUME NEW p \in Procs, ConfirmSell(p) PROVE Quiet(p)
  BY <1>1 DEF ConfirmSell, Quiet
<1>2. ASSUME NEW p \in Procs, BuyBalance(p) PROVE Quiet(p)
  BY <1>2 DEF BuyBalance, Quiet
<1>3. ASSUME NEW p \in Procs, MoneyUtxos(p) PROVE Quiet(p)
  BY <1>3 DEF MoneyUtxos, Quiet, Jobs
<1>4. ASSUME NEW p \in Procs, MoneyAmount(p) PROVE Quiet(p)
  BY <1>4 DEF MoneyAmount, Quiet, Jobs
<1>5. ASSUME NEW p \in Procs, ConfirmBuyRead(p) PROVE Quiet(p)
  BY <1>5 DEF ConfirmBuyRead, Quiet
<1>6. ASSUME NEW p \in Procs, ConfirmBuyVerify(p) PROVE Quiet(p)
  BY <1>6 DEF ConfirmBuyVerify, Quiet
<1>7. ASSUME NEW p \in Procs, ReleaseBuyLock(p) PROVE Quiet(p)
  BY <1>7 DEF ReleaseBuyLock, Quiet
<1>8. ASSUME NEW p \in Procs, ReleaseBalance(p) PROVE Quiet(p)
  BY <1>8 DEF ReleaseBalance, Quiet
<1>9. ASSUME NEW p \in Procs, RemoveFromMarketplace(p) PROVE Quiet(p)
  BY <1>9 DEF RemoveFromMarketplace, Quiet
<1>10. ASSUME NEW p \in Procs, RemoveBalance(p) PROVE Quiet(p)
  BY <1>10 DEF RemoveBalance, Quiet, Jobs
<1>11. ASSUME NEW p \in Procs, UpdateSellOrder(p) PROVE Quiet(p)
  BY <1>11 DEF UpdateSellOrder, Quiet
<1>12. ASSUME NEW p \in Procs, UpdateBalance(p) PROVE Quiet(p)
  BY <1>12 DEF UpdateBalance, Quiet, Jobs
<1>13. ASSUME NEW p \in Procs, RelistSellOrder(p) PROVE Quiet(p)
  BY <1>13 DEF RelistSellOrder, Quiet
<1>14. ASSUME NEW p \in Procs, ConfirmDelist(p) PROVE Quiet(p)
  BY <1>14 DEF ConfirmDelist, Quiet
<1>15. ASSUME NEW p \in Procs, DelistUtxos(p) PROVE Quiet(p)
  BY <1>15 DEF DelistUtxos, Quiet, Jobs
<1>16. ASSUME NEW p \in Procs, DelistVerify(p) PROVE Quiet(p)
  BY <1>16 DEF DelistVerify, Quiet
<1>17. ASSUME NEW p \in Procs, Stop(p) PROVE Quiet(p)
  BY <1>17 DEF Stop, Quiet
<1>18. ASSUME NEW p \in Procs, NEW w \in Buyers, Buy(p, w) PROVE Quiet(p)
  BY <1>18 DEF Buy, Quiet
<1>19. ASSUME NEW p \in Procs, NEW t \in Payments, ConfirmBuy(p, t) PROVE Quiet(p)
  BY <1>19 DEF ConfirmBuy, Quiet
<1>20. ASSUME NEW p \in Procs, SetReadyForSale(p) PROVE Quiet(p) \/ Listing(p)
  BY <1>20 DEF SetReadyForSale, Quiet, Listing, AssignBuyer, Release, InMarket, Orders
<1>21. ASSUME NEW p \in Procs, BuyAssign(p) PROVE Quiet(p) \/ Listing(p)
  <2>1. CASE AssignBuyer(p) /\ End(p)
    <3>1. /\ order'.status \in InMarket /\ order.status \in InMarket
          /\ order'.txs = order.txs /\ order'.isDelist = order.isDelist
          /\ order'.buyer = proc[p].who /\ proc[p].pc = "buyAssign"
      BY <1>21, <2>1 DEF BuyAssign, AssignBuyer, InMarket, Orders
    <3> QED BY <1>21, <2>1, <3>1 DEF AssignBuyer, Listing
  <2>2. CASE Rejected(p, "LISTED_FOR_SALE")
    BY <2>2 DEF Quiet, Procs
  <2> QED BY <1>21, <2>1, <2>2 DEF BuyAssign, Release
<1>22. ASSUME NEW p \in Procs, MoneyRelist(p) PROVE Quiet(p) \/ Listing(p)
  <2>1. CASE /\ Transition("OFF_MARKETPLACE", "LISTED_FOR_SALE")
            /\ Goto(p, "moneyAssign") /\ UNCHANGED <<expired, world>>
    <3>1. /\ order'.status \in InMarket /\ order.status \in InMarket
          /\ order'.txs = order.txs /\ order'.isDelist = order.isDelist
      BY <1>22, <2>1 DEF Jobs, InMarket, Orders
    <3> QED BY <1>22, <2>1, <3>1 DEF Jobs, Listing
  <2>2. CASE Rejected(p, "OFF_MARKETPLACE")
    BY <2>2 DEF Quiet, Procs
  <2> QED BY <1>22, <2>1, <2>2 DEF MoneyRelist, Release
<1>23. ASSUME NEW p \in Procs, MoneyAssign(p) PROVE Quiet(p) \/ Listing(p)
  <2>1. CASE AssignBuyer(p) /\ Goto(p, "cbRead")
    <3>1. /\ order'.status \in InMarket /\ order.status \in InMarket
          /\ order'.txs = order.txs /\ order'.isDelist = order.isDelist
          /\ order'.buyer = proc[p].who /\ proc[p].pc = "moneyAssign"
      BY <1>23, <2>1 DEF MoneyAssign, AssignBuyer, Jobs, InMarket, Orders
    <3> QED BY <1>23, <2>1, <3>1 DEF AssignBuyer, Jobs, Listing
  <2>2. CASE Rejected(p, "LISTED_FOR_SALE")
    BY <2>2 DEF Quiet, Procs
  <2> QED BY <1>23, <2>1, <2>2 DEF MoneyAssign, Release
<1>24. ASSUME NEW p \in Procs, ReleaseTransition(p) PROVE Quiet(p) \/ Listing(p)
  <2>1. CASE order.status = "WAITING_FOR_KAS" /\ ~ Rejected(p, "WAITING_FOR_KAS")
    <3>1. /\ order'.status \in InMarket /\ order.status \in InMarket
          /\ order'.txs = order.txs /\ order'.isDelist = order.isDelist
          /\ order'.status = "LISTED_FOR_SALE"
      BY <1>24, <2>1 DEF ReleaseTransition, Release, InMarket, Orders
    <3> QED BY <1>24, <2>1, <3>1 DEF ReleaseTransition, Release, Listing
  <2>2. CASE Rejected(p, "WAITING_FOR_KAS")
    BY <2>2 DEF Quiet, Procs
  <2> QED BY <1>24, <2>1, <2>2 DEF ReleaseTransition, Release
<1>25. ASSUME NEW p \in Procs, RemoveTransition(p) PROVE Quiet(p) \/ Listing(p)
  BY <1>25 DEF RemoveTransition, Quiet, Listing, AssignBuyer, Release, InMarket, Orders
<1>26. ASSUME NEW p \in Procs, RelistTransition(p) PROVE Quiet(p) \/ Listing(p)
  BY <1>26 DEF RelistTransition, Quiet, Listing, AssignBuyer, Release, InMarket, Orders
<1>27. ASSUME NEW p \in Procs, NEW q \in Prices, UpdatePrices(p, q) PROVE Quiet(p) \/ Listing(p)
  BY <1>27 DEF UpdatePrices, Quiet, Listing, InMarket, Orders
<1>28. ASSUME NEW p \in Procs, SetUnknownMoney(p) PROVE Closing(p)
  BY <1>28 DEF SetUnknownMoney, Closing, Closed, InMarket, InExecution, Statuses, Orders
<1>29. ASSUME NEW p \in Procs, SetSwapError(p) PROVE Closing(p)
  BY <1>29 DEF SetSwapError, Closing, Closed, InMarket, InExecution, Statuses, Orders
<1>30. ASSUME NEW p \in Procs, SetOrderCompleted(p) PROVE Closing(p)
  BY <1>30 DEF SetOrderCompleted, Closing, Closed, InMarket, InExecution, Statuses, Orders
<1>31. ASSUME ExpiredOrders PROVE Quiet(Cron)
  BY <1>31 DEF ExpiredOrders, Quiet, Procs
<1>32. ASSUME ExpiredUtxos PROVE Quiet(Cron)
  BY <1>32 DEF ExpiredUtxos, Quiet, Procs, Jobs
<1>33. ASSUME WaitingTokensOrders PROVE Quiet(Cron)
  BY <1>33 DEF WaitingTokensOrders, Quiet, Procs
<1>34. ASSUME CheckTokens PROVE Quiet(Cron)
  BY <1>34 DEF CheckTokens, Quiet, Procs
<1>35. ASSUME SetCheckingExpired PROVE Quiet(Cron) \/ Listing(Cron)
  BY <1>35 DEF SetCheckingExpired, Quiet, Listing, Release, InMarket, Orders, Procs
<1>36. ASSUME ExpiredRelease PROVE Quiet(Cron) \/ Listing(Cron)
  <2>1. CASE order.status = "CHECKING_EXPIRED" /\ ~ Rejected(Cron, "CHECKING_EXPIRED")
    <3>1. /\ order'.status \in InMarket /\ order.status \in InMarket
          /\ order'.txs = order.txs /\ order'.isDelist = order.isDelist
          /\ order'.status = "LISTED_FOR_SALE"
      BY <1>36, <2>1 DEF ExpiredRelease, Release, Procs, InMarket, Orders
    <3> QED BY <1>36, <2>1, <3>1 DEF ExpiredRelease, Release, Procs, Listing
  <2>2. CASE Rejected(Cron, "CHECKING_EXPIRED")
    BY <2>2 DEF Quiet, Procs
  <2> QED BY <1>36, <2>1, <2>2 DEF ExpiredRelease, Release
<1>37. ASSUME ExpiredWaiting PROVE Quiet(Cron) \/ Listing(Cron)
  <2>1. CASE /\ Transition("CHECKING_EXPIRED", "WAITING_FOR_KAS") /\ expired' = TRUE
            /\ Goto(Cron, "cbRead") /\ UNCHANGED world
    <3>1. /\ order'.status \in InMarket /\ order.status \in InMarket
          /\ order'.txs = order.txs /\ order'.isDelist = order.isDelist
      BY <1>37, <2>1 DEF Jobs, Procs, InMarket, Orders
    <3> QED BY <1>37, <2>1, <3>1 DEF Jobs, Procs, Listing
  <2>2. CASE Rejected(Cron, "CHECKING_EXPIRED")
    BY <2>2 DEF Quiet, Procs
  <2> QED BY <1>37, <2>1, <2>2 DEF ExpiredWaiting, Release
<1>38. ASSUME SetTokensNotSent PROVE Quiet(Cron) \/ Listing(Cron)
  BY <1>38 DEF SetTokensNotSent, Quiet, Listing, Release, InMarket, Orders, Procs
<1>39. ASSUME NEW p \in Procs, Requests(p) PROVE Quiet(p)
  BY <1>39, <1>1, <1>7, <1>9, <1>11, <1>13, <1>14, <1>18, <1>19
     DEF Requests
<1>40. ASSUME NEW p \in Procs, Continue(p)
       PROVE \/ Quiet(p) \/ Listing(p) \/ Closing(p)
             \/ ConfirmBuyCheckout(p) \/ DelistTransition(p)
             \/ Submit(p) \/ NotifyUpdate(p) \/ ExecError(p) \/ FeeTooHigh(p) \/ SetLowFeeStatus(p)
  BY <1>40, <1>2, <1>3, <1>4, <1>5, <1>6, <1>8, <1>10, <1>12, <1>15, <1>16, <1>20, <1>21,
     <1>22, <1>23, <1>24, <1>25, <1>26, <1>27, <1>28, <1>29, <1>30
     DEF Continue, Execution
<1>41. ASSUME CronPhases \/ CronSteps
       PROVE Quiet(Cron) \/ Listing(Cron) \/ FeeOrders \/ ResumeLowFee
  BY <1>41, <1>31, <1>32, <1>33, <1>34, <1>35, <1>36, <1>37, <1>38
     DEF CronPhases, CronSteps
<1> HIDE DEF TypeOK
<1> QED
  BY <1>39, <1>40, <1>41, <1>17, CheckoutStarts, DelistStarts, LowFeeResumes DEF Next, Procs

-----------------------------------------------------------------------------
(* The three layers are inductive *)

\* A step keeps Sending: only a submission makes a handler record, and it
\* records what it sent.
LEMMA SendingStep ==
  ASSUME TypeOK, Sending, Next
  PROVE  Sending'
<1> USE DEF TypeOK, At, Goto, End, Sending, OthersKeep, Rests, Idle, Procs
<1>1. ASSUME NEW p \in Procs, Quiet(p) \/ Listing(p) \/ Closing(p) \/ Starting(p) PROVE Sending'
  BY <1>1 DEF Quiet, Listing, Closing, Starting, Enters
<1>2. ASSUME Resuming PROVE Sending'
  BY <1>2 DEF Resuming, Enters
<1>3. ASSUME NEW p \in Procs, Submit(p) PROVE Sending'
  BY <1>3 DEF Submit, Jobs
<1>4. ASSUME NEW p \in Procs,
             NotifyUpdate(p) \/ ExecError(p) \/ FeeTooHigh(p) \/ SetLowFeeStatus(p)
      PROVE  Sending'
  BY <1>4 DEF NotifyUpdate, ExecError, FeeTooHigh, SetLowFeeStatus, Rejected, Jobs
<1>5. ASSUME FeeOrders PROVE Sending'
  BY <1>5 DEF FeeOrders, Begin
<1>6. ASSUME Environment PROVE Sending'
  BY <1>6 DEF Environment, SendTokens, Pay, LockExpires
<1> QED
  BY <1>1, <1>2, <1>3, <1>4, <1>5, <1>6, Shapes

\* A step keeps the lock: a process enters the execution only through a
\* transition from a status in which nobody executes.
LEMMA LockStep ==
  ASSUME TypeOK, LockInv, Next
  PROVE  LockInv'
<1> USE DEF TypeOK, At, Goto, End, LockInv, Locked, SwapExclusion, Executing, OthersKeep, Rests,
            Idle, Procs, InMarket
<1>1. ASSUME NEW p \in Procs, Quiet(p) \/ Listing(p) \/ Closing(p) PROVE LockInv'
  BY <1>1 DEF Quiet, Listing, Closing, Closed, InExecution, Statuses
<1>2. ASSUME NEW p \in Procs, Starting(p) PROVE LockInv'
  BY <1>2 DEF Starting, Enters
<1>3. ASSUME NEW p \in Procs, Submit(p) \/ NotifyUpdate(p) \/ ExecError(p) \/ FeeTooHigh(p)
      PROVE  LockInv'
  BY <1>3 DEF Submit, NotifyUpdate, ExecError, FeeTooHigh, Jobs, Orders, store
<1>4. ASSUME NEW p \in Procs, SetLowFeeStatus(p) PROVE LockInv'
  BY <1>4 DEF SetLowFeeStatus, Transition, Rejected, Orders, store
<1>5. ASSUME FeeOrders PROVE LockInv'
  BY <1>5 DEF FeeOrders, Begin, store
<1>6. ASSUME Resuming PROVE LockInv'
  BY <1>6 DEF Resuming, Enters
<1>7. ASSUME Environment PROVE LockInv'
  BY <1>7 DEF Environment, SendTokens, Pay, LockExpires, store
<1> QED
  BY <1>1, <1>2, <1>3, <1>4, <1>5, <1>6, <1>7, Shapes

\* No step takes the order back to the market, or a closed order anywhere else.
LEMMA ReopenStep ==
  ASSUME TypeOK, Next
  PROVE  /\ order.status \notin InMarket => order'.status \notin InMarket
         /\ order.status \in Closed => order'.status \in Closed
<1> DEFINE Kept == /\ order.status \notin InMarket => order'.status \notin InMarket
                   /\ order.status \in Closed => order'.status \in Closed
<1> USE DEF TypeOK, At, Goto, End, InMarket, Closed, InExecution, Statuses
<1>1. ASSUME NEW p \in Procs, Quiet(p) \/ Listing(p) \/ Closing(p) \/ Starting(p) PROVE Kept
  BY <1>1 DEF Quiet, Listing, Closing, Starting, Enters
<1>2. ASSUME NEW p \in Procs, Submit(p) \/ NotifyUpdate(p) \/ ExecError(p) \/ FeeTooHigh(p)
      PROVE  Kept
  BY <1>2 DEF Submit, NotifyUpdate, ExecError, FeeTooHigh, Jobs, Orders, store
<1>3. ASSUME NEW p \in Procs, SetLowFeeStatus(p) PROVE Kept
  BY <1>3 DEF SetLowFeeStatus, Transition, Rejected, Orders, store
<1>4. ASSUME FeeOrders \/ Resuming PROVE Kept
  BY <1>4 DEF FeeOrders, Begin, store, Resuming, Enters
<1>5. ASSUME Environment PROVE Kept
  BY <1>5 DEF Environment, SendTokens, Pay, LockExpires, store
<1> QED
  BY <1>1, <1>2, <1>3, <1>4, <1>5, Shapes

\* When a transaction was sent and recorded, what remains to be sent is what a
\* handler that starts from the updated document would send.
LEMMA TodoAfter ==
  ASSUME NEW k, NEW o, NEW o1, Todo(k, o) # {},
         o1.txs = o.txs \cup {NextTx(Todo(k, o))},
         Todo(k, o) \ {NextTx(Todo(k, o))} # {}
  PROVE  Todo(k, o) \ {NextTx(Todo(k, o))} = Todo(k, o1)
  BY DEF Todo, NextTx, Fields

\* What is to be sent depends on the recorded transactions only.
LEMMA TodoTxs ==
  ASSUME NEW k, NEW o, NEW o1, o1.txs = o.txs
  PROVE  Todo(k, o) = Todo(k, o1)
  BY DEF Todo

\* A step keeps SendInv.
LEMMA SendStep ==
  ASSUME TypeOK, Sending, LockInv, SendInv, Next
  PROVE  SendInv'
<1> USE DEF SendInv, SentOnce, TypeOK, At, Working, Unsent, world
<1>1. ASSUME NEW p \in Procs, Quiet(p) PROVE SendInv'
  <2>1. (Untouched /\ Waiting /\ SentOnce)'
    BY <1>1 DEF Quiet, Untouched, Waiting
  <2>2. Fresh'
    BY <1>1 DEF Quiet, OthersKeep, Rests, Fresh
  <2>3. Resumable'
    BY <1>1 DEF Quiet, OthersKeep, Rests, Resumable, Procs
  <2> QED BY <2>1, <2>2, <2>3
<1>2. ASSUME NEW p \in Procs, Listing(p) PROVE SendInv'
  <2> USE <1>2 DEF Listing
  <2>1. (Untouched /\ Waiting /\ SentOnce)'
    BY DEF Untouched, Waiting, InMarket
  <2>2. Fresh'
    BY DEF OthersKeep, Rests, Fresh, LockInv, Locked, Executing
  <2>3. Resumable'
    BY DEF OthersKeep, Rests, Resumable, Procs, InMarket, Closed
  <2> QED BY <2>1, <2>2, <2>3
<1>3. ASSUME NEW p \in Procs, Closing(p) PROVE SendInv'
  <2> USE <1>3 DEF Closing
  <2>0. order'.txs = order.txs /\ order'.isDelist = order.isDelist
    BY DEF Orders
  <2>1. (Untouched /\ Waiting /\ SentOnce)'
    BY DEF Untouched, Waiting, InMarket, Closed, InExecution
  <2>2. Fresh'
    BY <2>0 DEF OthersKeep, Rests, Fresh, KindOf
  <2>3. Resumable'
    BY DEF OthersKeep, Rests, Resumable, Procs, Closed, InExecution
  <2> QED BY <2>1, <2>2, <2>3
<1>4. ASSUME NEW p \in Procs, Starting(p) PROVE SendInv'
  <2> USE <1>4 DEF Starting, Enters
  <2>1. (Untouched /\ Waiting /\ SentOnce)'
    BY DEF Untouched, Waiting, InMarket
  <2>2. Fresh'
    BY TodoType DEF OthersKeep, Rests, Fresh, LockInv, Locked, Executing, Untouched, KindOf
  <2>3. Resumable'
    BY DEF OthersKeep, Rests, Resumable, Procs, InMarket, Closed
  <2> QED BY <2>1, <2>2, <2>3
<1>5. ASSUME Resuming PROVE SendInv'
  <2> USE <1>5 DEF Resuming, Enters
  <2>1. (Untouched /\ Waiting /\ SentOnce)'
    BY DEF Untouched, Waiting, InMarket
  <2>0. Cron \in Procs /\ proc[Cron].snap = order
    BY DEF Resumable, Procs, Closed, InExecution
  <2>2. Fresh'
    BY <2>0, TodoType DEF OthersKeep, Rests, Fresh, LockInv, Locked, Executing, Waiting, KindOf
  <2>3. Resumable'
    BY <2>0 DEF OthersKeep, Resumable
  <2> QED BY <2>1, <2>2, <2>3
<1>6. ASSUME NEW p \in Procs, Submit(p) PROVE SendInv'
  <2> DEFINE f == NextTx(proc[p].todo)
  <2>1. f \in proc[p].todo /\ f \in Fields /\ Executing(p)
    BY <1>6, NextTxType DEF Submit, Jobs, Executing
  <2>2. UNCHANGED order /\ chain' = [chain EXCEPT ![f] = @ + 1]
    BY <1>6 DEF Submit, store, ChainEffect
  <2>3. /\ OthersKeep(p) /\ proc'[p].pc \in {"notify", "swapError"}
        /\ proc'[p].snap = proc[p].snap /\ proc'[p].kind = proc[p].kind
        /\ proc'[p].todo = proc[p].todo
        /\ proc'[p].pc = "notify" => proc'[p].sent = f
    BY <1>6 DEF Submit, Goto, Jobs, OthersKeep
  <2>4. order.status \notin InMarket /\ order.status # "WAITING_FOR_LOW_FEE"
    BY <2>1 DEF LockInv, Locked
  <2>5. \A q \in Procs \ {p} : ~Executing(q)
    BY <2>1 DEF LockInv, SwapExclusion
  <2>6. Unsent(proc[p].todo)
    BY <1>6 DEF Fresh, Submit
  <2>7. (Untouched /\ Waiting)'
    BY <2>2, <2>4 DEF Untouched, Waiting
  <2>8. SentOnce'
    BY <2>1, <2>2, <2>6
  <2>9. Fresh'
    BY <1>6, <2>1, <2>2, <2>3, <2>5, <2>6 DEF Fresh, Executing, OthersKeep, Submit, Jobs
  <2>10. Resumable'
    BY <2>2, <2>3 DEF Resumable, OthersKeep, Procs
  <2> QED BY <2>7, <2>8, <2>9, <2>10
<1>7. ASSUME NEW p \in Procs, NotifyUpdate(p) PROVE SendInv'
  <2> DEFINE done == proc[p].snap.txs \cup {proc[p].sent}
  <2>1. Executing(p) /\ UNCHANGED chain /\ order' = [order EXCEPT !.txs = done]
    BY <1>7 DEF NotifyUpdate, Executing
  <2>2. /\ OthersKeep(p) /\ proc'[p].pc = "exec" /\ proc'[p].snap.txs = done
        /\ proc'[p].kind = proc[p].kind /\ proc'[p].todo = proc[p].todo \ {proc[p].sent}
    BY <1>7 DEF NotifyUpdate, Jobs, Orders, OthersKeep
  <2>3. /\ order'.status = order.status /\ order'.txs = done
        /\ order'.isDelist = order.isDelist
    BY <2>1 DEF Orders
  <2>4. order.status \notin InMarket /\ order.status # "WAITING_FOR_LOW_FEE"
    BY <2>1 DEF LockInv, Locked
  <2>5. \A q \in Procs \ {p} : ~Executing(q)
    BY <2>1 DEF LockInv, SwapExclusion
  <2>6. proc'[p].todo # {} => proc'[p].todo = Todo(proc[p].kind, proc'[p].snap)
    <3>1. /\ proc[p].todo # {} /\ proc[p].sent = NextTx(proc[p].todo)
          /\ proc[p].todo = Todo(proc[p].kind, proc[p].snap)
      BY <1>7 DEF NotifyUpdate, Fresh, Sending
    <3> QED BY <2>2, <3>1, TodoAfter
  <2>7. (Untouched /\ Waiting)'
    BY <2>3, <2>4 DEF Untouched, Waiting
  <2>8. Fresh'
    <3>1. (\A f \in proc'[p].todo : chain'[f] = 0) /\ proc[p].kind = KindOf(order')
      BY <1>7, <2>1, <2>2, <2>3 DEF Fresh, NotifyUpdate, KindOf
    <3> QED BY ZenonT(60), <2>2, <2>3, <2>5, <2>6, <3>1 DEF Fresh, Executing, OthersKeep
  <2>9. Resumable'
    BY <2>2, <2>3, <2>4 DEF Resumable, OthersKeep, Procs
  <2> QED BY <2>1, <2>7, <2>8, <2>9
<1>8. ASSUME NEW p \in Procs, ExecError(p) \/ FeeTooHigh(p) PROVE SendInv'
  <2>1. /\ UNCHANGED <<order, world>> /\ OthersKeep(p)
        /\ proc'[p].pc \in {"lowFee", "swapError"}
        /\ proc'[p].pc = "lowFee" => At(p, "exec") /\ proc[p].todo # {}
        /\ proc'[p].snap = proc[p].snap /\ proc'[p].kind = proc[p].kind
        /\ proc'[p].todo = proc[p].todo
    BY <1>8 DEF ExecError, FeeTooHigh, Goto, Jobs, OthersKeep, store
  <2>2. (Untouched /\ Waiting /\ SentOnce)'
    BY <2>1 DEF Untouched, Waiting
  <2>3. Fresh'
    BY <2>1 DEF Fresh, OthersKeep
  <2>4. Resumable'
    BY <2>1 DEF Resumable, OthersKeep, Procs
  <2> QED BY <2>2, <2>3, <2>4
<1>9. ASSUME NEW p \in Procs, SetLowFeeStatus(p) PROVE SendInv'
  <2> DEFINE required == IF proc[p].kind = "swap" THEN "CHECKOUT" ELSE "DELISTING"
  <2>1. CASE Rejected(p, required)
    BY <2>1, <1>1, RejectedQuiet
  <2>2. CASE Transition(required, "WAITING_FOR_LOW_FEE") /\ End(p) /\ UNCHANGED <<expired, world>>
    <3>1. /\ order'.status = "WAITING_FOR_LOW_FEE" /\ order'.txs = order.txs
          /\ order'.isDelist = order.isDelist /\ order.status \in {"CHECKOUT", "DELISTING"}
      BY <2>2 DEF Transition, Orders
    <3>2. OthersKeep(p) /\ proc'[p].pc = "idle" /\ UNCHANGED chain
      BY <2>2 DEF End, Idle, OthersKeep
    <3>3. Executing(p) /\ \A q \in Procs \ {p} : ~Executing(q)
      BY <1>9 DEF LockInv, SwapExclusion, Executing, SetLowFeeStatus
    <3>4. /\ proc[p].todo = Todo(KindOf(order), proc[p].snap)
          /\ proc[p].snap.txs = order.txs /\ Unsent(proc[p].todo)
      BY <1>9 DEF Fresh, SetLowFeeStatus
    <3>5. KindOf(order') = KindOf(order)
      BY <3>1 DEF KindOf
    <3>6. Todo(KindOf(order'), order') = proc[p].todo
      BY <3>1, <3>4, <3>5, TodoTxs
    <3>7. (Untouched /\ Waiting /\ SentOnce)'
      BY <3>1, <3>2, <3>4, <3>6 DEF Untouched, Waiting, InMarket
    <3>8. Fresh'
      BY <3>2, <3>3 DEF Fresh, OthersKeep, Executing
    <3>9. Resumable'
      BY <3>1, <3>2 DEF Resumable, OthersKeep, Procs, Closed, InExecution
    <3> QED BY <3>7, <3>8, <3>9
  <2> QED BY <1>9, <2>1, <2>2 DEF SetLowFeeStatus
<1>10. ASSUME FeeOrders PROVE SendInv'
  <2>1. /\ Cron \in Procs /\ UNCHANGED <<order, chain>> /\ OthersKeep(Cron)
        /\ proc'[Cron].pc = "feeCas" /\ proc'[Cron].snap = order
        /\ order.status = "WAITING_FOR_LOW_FEE"
    BY <1>10, IdleType DEF FeeOrders, Begin, OthersKeep, Procs, store, Jobs
  <2>2. (Untouched /\ Waiting /\ SentOnce)'
    BY <2>1 DEF Untouched, Waiting
  <2>3. Fresh'
    BY <2>1 DEF Fresh, OthersKeep
  <2>4. Resumable'
    BY <2>1 DEF Resumable
  <2> QED BY <2>2, <2>3, <2>4
<1>11. ASSUME Environment PROVE SendInv'
  <2>1. UNCHANGED <<order, chain, proc>>
    BY <1>11 DEF Environment, SendTokens, Pay, LockExpires, store
  <2> QED BY <2>1 DEF Untouched, Fresh, Waiting, Resumable
<1> QED
  BY <1>1, <1>2, <1>3, <1>4, <1>5, <1>6, <1>7, <1>8, <1>9, <1>10, <1>11, Shapes

-----------------------------------------------------------------------------
(* The theorems *)

\* The invariant holds in every reachable state.
LEMMA Invariant == Spec => []IInv
<1>1. Init => IInv
  <2> SUFFICES ASSUME Init PROVE IInv
    OBVIOUS
  <2> USE ConstantsAssumption DEF Init
  <2>1. order \in Orders /\ order.txs = {} /\ ~order.isDelist /\ order.status \in InMarket
    BY DEF BlankOrder, Orders, Statuses, InMarket
  <2>2. \A p \in Procs : proc[p].pc = "idle"
    BY DEF Idle
  <2>3. TypeInv
    BY <2>1, <2>2, IdleType DEF TypeInv, TypeOK, Sending, At
  <2>4. LockInv
    BY <2>2 DEF LockInv, Locked, SwapExclusion, Executing
  <2>5. SendInv
    BY <2>1, <2>2
       DEF SendInv, Untouched, Fresh, Waiting, Resumable, SentOnce, Unsent, Working, At, InMarket,
           Procs
  <2> QED BY <2>3, <2>4, <2>5 DEF IInv
<1>2. IInv /\ [Next]_vars => IInv'
  <2> SUFFICES ASSUME IInv, [Next]_vars PROVE IInv'
    OBVIOUS
  <2>1. CASE Next
    BY <2>1, TypeStep, SendingStep, LockStep, SendStep DEF IInv, TypeInv
  <2>2. CASE UNCHANGED vars
    BY <2>2 DEF vars, IInv, TypeInv, TypeOK, Sending, LockInv, Locked, SwapExclusion, Executing,
                SendInv, Untouched, Fresh, Waiting, Resumable, SentOnce, Unsent, Working, At
  <2> QED BY <2>1, <2>2
<1> QED
  BY <1>1, <1>2, PTL DEF Spec

\* The document, the wallet, the chain and every handler's local state always
\* have their types: no update writes a field of the wrong kind.
THEOREM TypeCorrect == Spec => []TypeOK
<1>1. IInv => TypeOK
  BY DEF IInv, TypeInv
<1> QED
  BY <1>1, Invariant, PTL

\* However many requests and cron rounds run at once, and wherever they are
\* interrupted, at most one of them works through the order's swap or delist.
THEOREM Exclusion == Spec => []SwapExclusion
<1>1. IInv => SwapExclusion
  BY DEF IInv, LockInv
<1> QED
  BY <1>1, Invariant, PTL

\* Each transaction of the swap or delist is submitted at most once, across
\* errors, crashes and resumptions after a wait for a lower network fee.
THEOREM Once == Spec => []SentOnce
<1>1. IInv => SentOnce
  BY DEF IInv, SendInv
<1> QED
  BY <1>1, Invariant, PTL

\* An order that left the market stays off it, and a closed order stays closed,
\* whatever stale handlers still write.
THEOREM NeverReopened == Spec => NoReopen
<1>1. IInv /\ [Next]_vars =>
        [/\ order.status \notin InMarket => order'.status \notin InMarket
         /\ order.status \in Closed => order'.status \in Closed]_order
  BY ReopenStep DEF IInv, TypeInv, vars
<1> QED
  BY <1>1, Invariant, PTL DEF Spec, NoReopen

-----------------------------------------------------------------------------
(* Money and tokens: the inductive invariant *)

\* Handlers that may be at work on an order whose tokens were not deposited.
Waits(p) ==
    \/ proc[p].pc \in {"idle", "tokCheck", "tokNotSent"}
    \/ At(p, "cbVerify") /\ p # Cron /\ proc[p].snap.buyer = NoOne

Undeposited ==
    tokens = "seller" =>
        /\ order.status \in {"WAITING_FOR_TOKENS", "TOKENS_NOT_SENT"} /\ order.buyer = NoOne
        /\ \A p \in Procs : Waits(p)

Outcome ==
    /\ \A f \in order.txs : chain[f] > 0
    /\ \A p \in Procs : At(p, "notify") => chain[proc[p].sent] > 0
    /\ chain["reveal"] > 0 <=> tokens \in {"delivered", "returned"}
    /\ chain["reveal"] > 0 => chain["commit"] > 0
    /\ chain["seller"] > 0 => tokens = "delivered"
    /\ tokens = "delivered" => ~order.isDelist
    /\ tokens = "returned" => order.isDelist

\* The wallet a handler is about to lock the order for.
Candidate(p) ==
    /\ proc[p].pc \in {"buyBalance", "buyAssign"} => proc[p].who # NoOne
    /\ At(p, "moneyAmount") /\ proc[p].tx.from = NoOne => chain["commit"] > 0
    /\ proc[p].pc \in {"moneyRelist", "moneyAssign"} /\ proc[p].who = NoOne => chain["commit"] > 0

Held ==
    /\ wallet \subseteq paid \cup {Change}
    /\ Change \in wallet => chain["commit"] > 0
    /\ \A p \in Procs : Candidate(p)

Paid == \E t \in paid : t.amt = order.price

Bought ==
    /\ order.status \in Locks => order.buyer # NoOne
    /\ order.status = "WAITING_FOR_LOW_FEE" /\ ~order.isDelist => order.buyer # NoOne
    /\ \A p \in Procs : Working(p) =>
         /\ proc[p].snap.buyer = order.buyer /\ proc[p].snap.price = order.price
         /\ proc[p].kind = "swap" => order.buyer # NoOne
    /\ chain["commit"] > 0 /\ ~order.isDelist => Paid
    /\ tokens = "delivered" => receiver = order.buyer /\ receiver # NoOne

DeliveryInv == Undeposited /\ Outcome /\ Held /\ Bought

-----------------------------------------------------------------------------
(* Each part is inductive *)

\* A continuation of a handler that may run before the deposit.
LEMMA EarlyContinue ==
  ASSUME NEW p \in Procs, Waits(p), Continue(p)
  PROVE  ConfirmBuyVerify(p)
<1> USE DEF Waits, At
<1>1. ~Execution(p)
  BY DEF Execution, Submit, NotifyUpdate, ExecError, FeeTooHigh, SetLowFeeStatus, SetSwapError,
         SetOrderCompleted
<1>2. ~(SetReadyForSale(p) \/ BuyBalance(p) \/ BuyAssign(p))
  BY DEF SetReadyForSale, BuyBalance, BuyAssign
<1>3. ~(MoneyUtxos(p) \/ MoneyAmount(p) \/ MoneyRelist(p) \/ MoneyAssign(p) \/ SetUnknownMoney(p))
  BY DEF MoneyUtxos, MoneyAmount, MoneyRelist, MoneyAssign, SetUnknownMoney
<1>4. ~(ConfirmBuyRead(p) \/ ConfirmBuyCheckout(p) \/ ReleaseBalance(p) \/ ReleaseTransition(p))
  BY DEF ConfirmBuyRead, ConfirmBuyCheckout, ReleaseBalance, ReleaseTransition
<1>5. ~(RemoveBalance(p) \/ RemoveTransition(p) \/ UpdateBalance(p) \/ RelistTransition(p))
  BY DEF RemoveBalance, RemoveTransition, UpdateBalance, RelistTransition
<1>6. ~(\E q \in Prices : UpdatePrices(p, q))
  BY DEF UpdatePrices
<1>7. ~(DelistUtxos(p) \/ DelistVerify(p) \/ DelistTransition(p))
  BY DEF DelistUtxos, DelistVerify, DelistTransition
<1> QED
  BY <1>1, <1>2, <1>3, <1>4, <1>5, <1>6, <1>7 DEF Continue

\* Before the deposit the order cannot be listed, so nobody can lock, remove,
\* relist or delist it, and no payment is verified for it has no buyer.
LEMMA UndepositedStep ==
  ASSUME TypeOK, Undeposited, Next
  PROVE  Undeposited'
<1> SUFFICES ASSUME tokens' = "seller" PROVE Undeposited'
  BY DEF Undeposited
<1> USE DEF TypeOK, At, store, world, Procs, Idle
<1>0. tokens = "seller"
  <2>1. ASSUME NEW p \in Procs, Submit(p) PROVE tokens = "seller"
    BY <2>1 DEF Submit, ChainEffect
  <2>2. ASSUME Environment PROVE tokens = "seller"
    BY <2>2 DEF Environment, SendTokens, Pay, LockExpires
  <2> QED
    BY <2>1, <2>2, Shapes
       DEF Quiet, Listing, Closing, Starting, Resuming, Enters, NotifyUpdate, ExecError,
           FeeTooHigh, SetLowFeeStatus, Rejected, FeeOrders
<1>1. /\ order.status \in {"WAITING_FOR_TOKENS", "TOKENS_NOT_SENT"} /\ order.buyer = NoOne
      /\ \A p \in Procs : Waits(p)
  BY <1>0 DEF Undeposited
<1>2. ASSUME NEW p \in Procs, Requests(p) PROVE Undeposited'
  <2>1. PICK t \in Payments : ConfirmBuy(p, t)
    BY <1>0, <1>1, <1>2
       DEF Requests, ConfirmSell, Buy, ReleaseBuyLock, RemoveFromMarketplace, UpdateSellOrder,
           RelistSellOrder, ConfirmDelist
  <2> QED
    BY <1>1, <2>1, IdleType DEF ConfirmBuy, Undeposited, Waits, Jobs
<1>3. ASSUME NEW p \in Procs, Continue(p) PROVE Undeposited'
  <2>1. ConfirmBuyVerify(p) /\ At(p, "cbVerify") /\ p # Cron /\ proc[p].snap.buyer = NoOne
    BY <1>1, <1>3, EarlyContinue DEF ConfirmBuyVerify, Waits
  <2>2. ~Verified(proc[p].tx, proc[p].snap.buyer, proc[p].snap.price)
    BY <2>1, ConstantsAssumption DEF Verified
  <2> QED
    BY <1>1, <2>1, <2>2 DEF ConfirmBuyVerify, End, Undeposited, Waits
<1>4. ASSUME NEW p \in Procs, Stop(p) PROVE Undeposited'
  BY <1>1, <1>4 DEF Stop, End, Undeposited, Waits
<1>5. ASSUME CronPhases \/ CronSteps PROVE Undeposited'
  <2>1. WaitingTokensOrders \/ CheckTokens \/ SetTokensNotSent
    BY <1>1, <1>5
       DEF CronPhases, CronSteps, FeeOrders, ExpiredOrders, ResumeLowFee, SetCheckingExpired,
           ExpiredUtxos, ExpiredRelease, ExpiredWaiting, Waits
  <2>2. CASE WaitingTokensOrders \/ CheckTokens
    BY <1>0, <1>1, <2>2 DEF WaitingTokensOrders, CheckTokens, Forget, Undeposited, Waits
  <2>3. CASE SetTokensNotSent
    BY <1>1, <2>3 DEF SetTokensNotSent, Transition, Rejected, End, Undeposited, Waits, Orders
  <2> QED
    BY <2>1, <2>2, <2>3
<1>6. ASSUME Environment PROVE Undeposited'
  BY <1>0, <1>1, <1>6 DEF Environment, SendTokens, Pay, LockExpires, Undeposited, Waits
<1> QED
  BY <1>2, <1>3, <1>4, <1>5, <1>6 DEF Next

\* What a submission finds: nothing of it was sent, and what comes before it was.
LEMMA SubmitFacts ==
  ASSUME IInv, Undeposited, Outcome, NEW p \in Procs, Submit(p)
  PROVE  LET f == NextTx(proc[p].todo) IN
         /\ f \in Fields /\ chain[f] = 0 /\ chain' = [chain EXCEPT ![f] = @ + 1]
         /\ UNCHANGED order
         /\ order.status \notin InMarket /\ tokens # "seller"
         /\ proc[p].kind = KindOf(order)
         /\ f # "commit" => chain["commit"] > 0
         /\ f = "commit" => chain["reveal"] = 0
         /\ f = "seller" => tokens = "delivered"
         /\ f = "reveal" => tokens = "escrow"
<1> DEFINE f == NextTx(proc[p].todo)
<1> USE DEF IInv, TypeInv, TypeOK
<1>1. At(p, "exec") /\ proc[p].todo # {} /\ UNCHANGED order
      /\ chain' = [chain EXCEPT ![f] = @ + 1]
  BY DEF Submit, ChainEffect, store
<1>2. f \in proc[p].todo /\ f \in Fields
  BY <1>1, NextTxType DEF Jobs
<1>3. order.status \notin InMarket
  BY <1>1 DEF LockInv, Locked, Executing, At
<1>4. tokens # "seller"
  BY <1>1 DEF Undeposited, Waits, At
<1>5. /\ proc[p].snap.txs = order.txs /\ proc[p].kind = KindOf(order)
      /\ proc[p].todo = Todo(proc[p].kind, proc[p].snap) /\ Unsent(proc[p].todo)
  BY <1>1 DEF SendInv, Fresh, Working, At
<1>6. chain[f] = 0
  BY <1>2, <1>5 DEF Unsent
<1>7. \A g \in Fields : g \in order.txs => chain[g] > 0
  BY DEF Outcome
<1>8. f # "commit" => "commit" \in order.txs
  BY <1>2, <1>5 DEF NextTx, Todo, Fields
<1>9. f \in {"seller", "buyer"} => "reveal" \in order.txs
  BY <1>2, <1>5 DEF NextTx, Todo, Fields
<1>10. f = "seller" => ~order.isDelist
  BY <1>2, <1>5 DEF NextTx, Todo, Fields, KindOf
<1>11. f = "seller" => tokens = "delivered"
  BY <1>7, <1>9, <1>10 DEF Outcome, Fields
<1>12. f = "reveal" => tokens = "escrow"
  BY <1>4, <1>6 DEF Outcome
<1> QED
  BY <1>1, <1>2, <1>3, <1>4, <1>5, <1>6, <1>7, <1>8, <1>11, <1>12 DEF Outcome, Fields

\* Outcome is kept: only a submission moves tokens, and each moves them the way
\* its operation, which isDelist records, demands.
LEMMA OutcomeStep ==
  ASSUME IInv, Undeposited, Outcome, Next
  PROVE  Outcome'
<1> USE DEF IInv, TypeInv, TypeOK, At, OthersKeep, Rests, world, store
<1>1. ASSUME NEW p \in Procs, Quiet(p) \/ Listing(p) PROVE Outcome'
  BY <1>1 DEF Quiet, Listing, Outcome
<1>2. ASSUME NEW p \in Procs, Closing(p) PROVE Outcome'
  <2>1. order'.txs = order.txs /\ order'.isDelist = order.isDelist
    BY <1>2 DEF Closing, Orders
  <2> QED BY <1>2, <2>1 DEF Closing, Outcome
<1>3. ASSUME NEW p \in Procs, Starting(p) PROVE Outcome'
  <2>1. chain["reveal"] = 0
    BY <1>3 DEF Starting, SendInv, Untouched, Unsent, Fields
  <2> QED BY <1>3, <2>1 DEF Starting, Enters, Outcome, Fields
<1>4. ASSUME Resuming PROVE Outcome'
  <2>1. Cron \in Procs /\ proc[Cron].snap = order
    BY <1>4 DEF Resuming, SendInv, Resumable, Closed, InExecution, Procs
  <2>2. order'.isDelist = order.isDelist
    BY <1>4, <2>1 DEF Resuming, Enters, KindOf, Orders
  <2> QED BY <1>4, <2>1, <2>2 DEF Resuming, Enters, Outcome
<1>5. ASSUME NEW p \in Procs, Submit(p) PROVE Outcome'
  <2> DEFINE f == NextTx(proc[p].todo)
  <2>1. /\ f \in Fields /\ chain' = [chain EXCEPT ![f] = @ + 1] /\ UNCHANGED order
        /\ proc[p].kind = KindOf(order)
        /\ f # "commit" => chain["commit"] > 0
        /\ f = "commit" => chain["reveal"] = 0
        /\ f = "seller" => tokens = "delivered"
        /\ f = "reveal" => tokens = "escrow"
    BY <1>5, SubmitFacts
  <2>2. \A g \in Fields : chain[g] > 0 => chain'[g] > 0
    BY <2>1
  <2>3. \A q \in Procs : proc'[q].pc = "notify" => chain'[proc'[q].sent] > 0
    <3>1. proc'[p].pc = "notify" => proc'[p].sent = f
      BY <1>5 DEF Submit, Goto, Jobs
    <3>2. chain'[f] > 0
      BY <2>1
    <3>3. \A q \in Procs \ {p} : proc'[q] = proc[q]
      BY <1>5 DEF Submit, Goto
    <3>4. \A q \in Procs : proc[q].pc = "notify" => proc[q].sent \in Fields
      BY NextTxType DEF Sending, Jobs
    <3> QED BY <2>2, <3>1, <3>2, <3>3, <3>4 DEF Outcome
  <2>4. \A g \in order'.txs : chain'[g] > 0
    BY <2>1, <2>2 DEF Outcome, Orders
  <2>5. CASE f = "reveal"
    <3>1. /\ proc[p].kind = "swap" => tokens' = "delivered"
          /\ proc[p].kind # "swap" => tokens' = "returned"
      BY <1>5, <2>1, <2>5 DEF Submit, ChainEffect
    <3> QED BY <2>1, <2>2, <2>3, <2>4, <2>5, <3>1 DEF Outcome, KindOf, Fields
  <2>6. CASE f # "reveal"
    <3>1. tokens' = tokens /\ chain'["reveal"] = chain["reveal"]
      BY <1>5, <2>1, <2>6 DEF Submit, ChainEffect, Fields
    <3>2. chain'["reveal"] > 0 => chain'["commit"] > 0
      BY <2>1, <2>2, <3>1 DEF Outcome, Fields
    <3>3. chain'["seller"] > 0 => tokens = "delivered"
      BY <2>1 DEF Outcome, Fields
    <3> QED BY <2>1, <2>3, <2>4, <3>1, <3>2, <3>3 DEF Outcome
  <2> QED BY <2>5, <2>6
<1>6. ASSUME NEW p \in Procs, NotifyUpdate(p) PROVE Outcome'
  <2> DEFINE done == proc[p].snap.txs \cup {proc[p].sent}
  <2>1. /\ order'.txs = done /\ order'.isDelist = order.isDelist /\ UNCHANGED world
        /\ OthersKeep(p) /\ proc'[p].pc = "exec"
    BY <1>6 DEF NotifyUpdate, Orders, Jobs
  <2>2. proc[p].snap.txs = order.txs
    BY <1>6 DEF NotifyUpdate, SendInv, Fresh, Working
  <2>3. chain[proc[p].sent] > 0
    BY <1>6 DEF NotifyUpdate, Outcome
  <2> QED BY <2>1, <2>2, <2>3 DEF Outcome
<1>7. ASSUME NEW p \in Procs, ExecError(p) \/ FeeTooHigh(p) PROVE Outcome'
  <2>1. /\ UNCHANGED <<order, world>> /\ OthersKeep(p)
        /\ proc'[p].pc \in {"lowFee", "swapError"}
    BY <1>7 DEF ExecError, FeeTooHigh, Goto, Jobs
  <2> QED BY <2>1 DEF Outcome
<1>8. ASSUME NEW p \in Procs, SetLowFeeStatus(p) PROVE Outcome'
  BY <1>8 DEF SetLowFeeStatus, Transition, Rejected, End, Idle, Outcome, Orders
<1>9. ASSUME FeeOrders PROVE Outcome'
  BY <1>9 DEF FeeOrders, Begin, Outcome, Idle
<1>10. ASSUME Environment PROVE Outcome'
  BY <1>10 DEF Environment, SendTokens, Pay, LockExpires, Outcome
<1> QED
  BY <1>1, <1>2, <1>3, <1>4, <1>5, <1>6, <1>7, <1>8, <1>9, <1>10, Shapes

\* A handler with no candidate for the lock.
Aside(p) ==
    proc'[p].pc \notin {"buyBalance", "buyAssign", "moneyAmount", "moneyRelist", "moneyAssign"}

\* A handler that forgets what it read is aside, unless it goes on to the lock.
LEMMA ForgetJob ==
  ASSUME TypeOK, NEW p \in Procs, NEW l, Forget(p, l)
  PROVE  OthersKeep(p) /\ proc'[p].pc = l
  BY IdleType DEF TypeOK, Forget, OthersKeep, Jobs

\* The continuations that leave a handler with a candidate for the lock.
LEMMA CandidateContinue ==
  ASSUME TypeOK, NEW p \in Procs, Continue(p)
  PROVE  Aside(p) \/ BuyBalance(p) \/ MoneyUtxos(p) \/ MoneyAmount(p) \/ MoneyRelist(p)
<1> USE DEF TypeOK, Aside, At, End, Goto, Forget, Idle
<1>1. ASSUME Submit(p) \/ NotifyUpdate(p) \/ ExecError(p) \/ FeeTooHigh(p) PROVE Aside(p)
  BY <1>1 DEF Submit, NotifyUpdate, ExecError, FeeTooHigh, Jobs
<1>2. ASSUME SetLowFeeStatus(p) \/ SetSwapError(p) \/ SetOrderCompleted(p) PROVE Aside(p)
  BY <1>2 DEF SetLowFeeStatus, SetSwapError, SetOrderCompleted, Rejected
<1>3. ASSUME SetReadyForSale(p) \/ BuyAssign(p) \/ SetUnknownMoney(p) PROVE Aside(p)
  BY <1>3 DEF SetReadyForSale, BuyAssign, SetUnknownMoney, Rejected
<1>4. ASSUME MoneyAssign(p) \/ ConfirmBuyRead(p) PROVE Aside(p)
  BY <1>4 DEF MoneyAssign, ConfirmBuyRead, Rejected, Jobs
<1>5. ASSUME ConfirmBuyVerify(p) \/ ReleaseBalance(p) \/ ReleaseTransition(p) PROVE Aside(p)
  <2>1. ASSUME ConfirmBuyVerify(p) PROVE Aside(p)
    BY <2>1 DEF ConfirmBuyVerify
  <2>2. ASSUME ReleaseBalance(p) PROVE Aside(p)
    BY <2>2 DEF ReleaseBalance
  <2>3. ASSUME ReleaseTransition(p) PROVE Aside(p)
    BY <2>3 DEF ReleaseTransition, Release, Rejected
  <2> QED BY <1>5, <2>1, <2>2, <2>3
<1>6. ASSUME ConfirmBuyCheckout(p) \/ DelistTransition(p) PROVE Aside(p)
  <2>1. ASSUME NEW k, NEW o, Execute(p, k, o) PROVE Aside(p)
    BY <2>1, ExecuteJob
  <2>2. ASSUME NEW st, Rejected(p, st) PROVE Aside(p)
    BY <2>2 DEF Rejected
  <2> HIDE DEF Aside
  <2> QED BY <1>6, <2>1, <2>2 DEF ConfirmBuyCheckout, DelistTransition
<1>7. ASSUME RemoveBalance(p) \/ RemoveTransition(p) \/ UpdateBalance(p) PROVE Aside(p)
  BY <1>7 DEF RemoveBalance, RemoveTransition, UpdateBalance, Rejected, Jobs
<1>8. ASSUME RelistTransition(p) \/ \E q \in Prices : UpdatePrices(p, q) PROVE Aside(p)
  BY <1>8 DEF RelistTransition, UpdatePrices, Rejected
<1>9. ASSUME DelistUtxos(p) \/ DelistVerify(p) PROVE Aside(p)
  BY <1>9 DEF DelistUtxos, DelistVerify, Jobs
<1> HIDE DEF TypeOK, Aside
<1> QED
  BY <1>1, <1>2, <1>3, <1>4, <1>5, <1>6, <1>7, <1>8, <1>9 DEF Continue, Execution

\* Who gets a candidate for the lock, and where from.
LEMMA CandidateStep ==
  ASSUME TypeOK, Held, Next, chain["commit"] > 0 => chain'["commit"] > 0, NEW q \in Procs
  PROVE  Candidate(q)'
<1> USE DEF TypeOK, Held, Candidate, At, Idle
<1>0. ASSUME proc'[q] = proc[q] PROVE Candidate(q)'
  BY <1>0
<1>1. ASSUME Aside(q) PROVE Candidate(q)'
  BY <1>1 DEF Aside
<1>2. ASSUME NEW p \in Procs, Requests(p) PROVE Candidate(q)'
  <2>1. ASSUME NEW w \in Buyers, Buy(p, w) PROVE Candidate(q)'
    <3>1. w # NoOne
      BY ConstantsAssumption DEF Wallets
    <3> QED BY <1>0, <2>1, <3>1, IdleType DEF Buy, Jobs
  <2>2. ASSUME ~ \E w \in Buyers : Buy(p, w) PROVE proc'[q] = proc[q] \/ Aside(q)
    BY ZenonT(60), <1>2, <2>2
       DEF Requests, ConfirmSell, ConfirmBuy, ReleaseBuyLock, RemoveFromMarketplace,
           UpdateSellOrder, RelistSellOrder, ConfirmDelist, Begin, Forget, Aside
  <2> QED BY <1>0, <1>1, <2>1, <2>2
<1>3. ASSUME NEW p \in Procs, Continue(p) PROVE Candidate(q)'
  <2>1. CASE Aside(p) /\ p = q
    BY <1>1, <2>1
  <2>2. CASE p # q
    <3>1. proc'[q] = proc[q]
      BY <1>3, <2>2
         DEF Continue, Execution, SetReadyForSale, BuyBalance, BuyAssign, MoneyUtxos, MoneyAmount,
             MoneyRelist, MoneyAssign, SetUnknownMoney, ConfirmBuyRead, ConfirmBuyVerify,
             ConfirmBuyCheckout, ReleaseBalance, ReleaseTransition, Release, RemoveBalance,
             RemoveTransition, UpdateBalance, UpdatePrices, RelistTransition, DelistUtxos,
             DelistVerify, DelistTransition, Submit, NotifyUpdate, ExecError, FeeTooHigh,
             SetLowFeeStatus, SetSwapError, SetOrderCompleted, Rejected, End, Goto, Forget,
             Execute
    <3> QED BY <1>0, <3>1
  <2>3. CASE p = q /\ BuyBalance(p)
    BY <2>3 DEF BuyBalance, Goto, Jobs
  <2>4. CASE p = q /\ MoneyUtxos(p)
    <3>1. CASE Forget(p, "unknown")
      BY <1>1, <2>4, <3>1 DEF Forget, Aside
    <3>2. CASE \E u \in wallet :
                 proc' = [proc EXCEPT ![p].pc = "moneyAmount", ![p].tx = u]
      <4>1. PICK u \in wallet : proc' = [proc EXCEPT ![p].pc = "moneyAmount", ![p].tx = u]
        BY <3>2
      <4>2. proc'[p].pc = "moneyAmount" /\ proc'[p].tx = u
        BY <4>1 DEF Jobs
      <4>3. u.from = NoOne => chain["commit"] > 0
        <5>1. u \in Payments => u.from # NoOne
          BY ConstantsAssumption
        <5> QED BY <5>1
      <4> QED BY <2>4, <4>2, <4>3
    <3> QED BY <2>4, <3>1, <3>2 DEF MoneyUtxos
  <2>5. CASE p = q /\ MoneyAmount(p)
    BY <2>5 DEF MoneyAmount, Forget, Jobs
  <2>6. CASE p = q /\ MoneyRelist(p)
    BY <2>6 DEF MoneyRelist, Rejected, End, Goto, Jobs
  <2> QED BY <1>3, <2>1, <2>2, <2>3, <2>4, <2>5, <2>6, CandidateContinue
<1>4. ASSUME NEW p \in Procs, Stop(p) PROVE proc'[q] = proc[q] \/ Aside(q)
  BY <1>4 DEF Stop, End, Aside
<1>5. ASSUME CronPhases \/ CronSteps PROVE proc'[q] = proc[q] \/ Aside(q)
  <2> Cron \in Procs
    BY DEF Procs
  <2>1. ASSUME FeeOrders PROVE proc'[q] = proc[q] \/ Aside(q)
    BY <2>1 DEF FeeOrders, Begin, Aside
  <2>2. ASSUME ExpiredOrders PROVE proc'[q] = proc[q] \/ Aside(q)
    BY <2>2, ForgetJob DEF ExpiredOrders, OthersKeep, Aside
  <2>3. ASSUME WaitingTokensOrders PROVE proc'[q] = proc[q] \/ Aside(q)
    BY <2>3, ForgetJob DEF WaitingTokensOrders, OthersKeep, Aside
  <2>4. ASSUME ResumeLowFee PROVE proc'[q] = proc[q] \/ Aside(q)
    BY <2>4, ExecuteJob, RejectedQuiet
       DEF ResumeLowFee, Quiet, OthersKeep, Rests, Aside, Rejected, End
  <2> USE DEF Rejected, End, Goto, Forget, Aside
  <2>5. ASSUME SetCheckingExpired \/ ExpiredRelease PROVE proc'[q] = proc[q] \/ Aside(q)
    BY <2>5 DEF SetCheckingExpired, ExpiredRelease, Release
  <2>6. ASSUME ExpiredUtxos \/ ExpiredWaiting PROVE proc'[q] = proc[q] \/ Aside(q)
    BY <2>6 DEF ExpiredUtxos, ExpiredWaiting, Jobs
  <2>7. ASSUME CheckTokens \/ SetTokensNotSent PROVE proc'[q] = proc[q] \/ Aside(q)
    BY <2>7 DEF CheckTokens, SetTokensNotSent
  <2> HIDE DEF TypeOK, Held, Candidate, At, Idle, Aside
  <2> QED
    BY <1>5, <2>1, <2>2, <2>3, <2>4, <2>5, <2>6, <2>7 DEF CronPhases, CronSteps
<1>6. ASSUME Environment PROVE proc'[q] = proc[q]
  BY <1>6 DEF Environment, SendTokens, Pay, LockExpires
<1> QED
  BY <1>0, <1>1, <1>2, <1>3, <1>4, <1>5, <1>6 DEF Next

\* A transaction on the chain stays there.
LEMMA ChainGrows ==
  ASSUME IInv, Undeposited, Outcome, Next
  PROVE  \A f \in Fields : chain[f] > 0 => chain'[f] > 0
<1> USE DEF IInv, TypeInv, TypeOK
<1>1. ASSUME NEW p \in Procs, Submit(p) PROVE \A f \in Fields : chain[f] > 0 => chain'[f] > 0
  BY <1>1, SubmitFacts
<1>2. ASSUME Environment PROVE UNCHANGED chain
  BY <1>2 DEF Environment, SendTokens, Pay, LockExpires, world
<1> QED
  BY <1>1, <1>2, Shapes
     DEF Quiet, Listing, Closing, Starting, Resuming, Enters, NotifyUpdate, ExecError,
         FeeTooHigh, SetLowFeeStatus, Rejected, FeeOrders, world

\* Held is kept: only transfers and submissions change the wallet.
LEMMA HeldStep ==
  ASSUME IInv, Undeposited, Outcome, Held, Next
  PROVE  Held'
<1>0. TypeOK
  BY DEF IInv, TypeInv
<1>1. chain["commit"] > 0 => chain'["commit"] > 0
  BY ChainGrows DEF Fields
<1>2. \A p \in Procs : Candidate(p)'
  BY <1>0, <1>1, CandidateStep
<1> DEFINE Holds == wallet' \subseteq paid' \cup {Change} /\ (Change \in wallet' => chain'["commit"] > 0)
<1>3. ASSUME UNCHANGED world PROVE Holds
  BY <1>3 DEF world, Held
<1>4. ASSUME NEW p \in Procs, Submit(p) PROVE Holds
  <2> DEFINE f == NextTx(proc[p].todo)
  <2>1. /\ f \in Fields /\ chain' = [chain EXCEPT ![f] = @ + 1] /\ chain[f] = 0
    BY <1>4, SubmitFacts
  <2>2. /\ paid' = paid /\ wallet' \subseteq wallet \cup {Change}
        /\ Change \in wallet' => f = "commit" \/ Change \in wallet
    BY <1>4, <2>1 DEF Submit, ChainEffect
  <2>3. f = "commit" => chain'["commit"] > 0
    BY <1>0, <2>1 DEF TypeOK
  <2> QED BY <1>1, <2>2, <2>3 DEF Held
<1>5. ASSUME Environment PROVE Holds
  <2>1. ASSUME NEW u \in Payments, Pay(u) PROVE Holds
    <3>1. u # Change
      BY ConstantsAssumption DEF Change
    <3> QED BY <2>1, <3>1 DEF Pay, Held
  <2>2. ASSUME SendTokens \/ LockExpires PROVE Holds
    BY <2>2 DEF SendTokens, LockExpires, world, Held
  <2> QED BY <1>5, <2>1, <2>2 DEF Environment
<1>6. Holds
  BY <1>0, <1>3, <1>4, <1>5, Shapes
     DEF Quiet, Listing, Closing, Starting, Resuming, Enters, NotifyUpdate, ExecError,
         FeeTooHigh, SetLowFeeStatus, Rejected, FeeOrders
<1> QED
  BY <1>2, <1>6 DEF Held

\* Bought is kept: a lock is taken for a candidate while nothing was committed,
\* a commit finds the price among the payments, and a reveal delivers to the
\* buyer the document still names.
LEMMA BoughtStep ==
  ASSUME IInv, Undeposited, Outcome, Held, Bought, Next
  PROVE  Bought'
<1> USE DEF IInv, TypeInv, TypeOK, At, OthersKeep, Rests, world, Bought, Working
<1>1. ASSUME NEW p \in Procs, Quiet(p) PROVE Bought'
  BY <1>1 DEF Quiet, Paid
<1>2. ASSUME NEW p \in Procs, Listing(p) PROVE Bought'
  <2>1. chain["commit"] = 0 /\ tokens # "delivered"
    BY <1>2 DEF Listing, SendInv, Untouched, Unsent, Fields, Outcome
  <2>2. \A q \in Procs : ~Executing(q)
    BY <1>2 DEF Listing, LockInv, Locked
  <2>3. order'.status \in Locks => order'.buyer # NoOne
    BY <1>2, <2>1 DEF Listing, Held, Candidate
  <2> QED BY <1>2, <2>1, <2>2, <2>3 DEF Listing, Executing, InMarket
<1>3. ASSUME NEW p \in Procs, Closing(p) PROVE Bought'
  <2>1. order'.buyer = order.buyer /\ order'.price = order.price /\ order'.isDelist = order.isDelist
    BY <1>3 DEF Closing, Orders
  <2> QED BY <1>3, <2>1 DEF Closing, Closed, InMarket, InExecution, Locks, Paid
<1>4. ASSUME NEW p \in Procs, Starting(p) PROVE Bought'
  <2>1. chain["commit"] = 0 /\ tokens # "delivered"
    BY <1>4 DEF Starting, SendInv, Untouched, Unsent, Fields, Outcome
  <2>2. \A q \in Procs : ~Executing(q)
    BY <1>4 DEF Starting, LockInv, Locked
  <2> QED BY <1>4, <2>1, <2>2 DEF Starting, Enters, Executing, Locks
<1>5. ASSUME Resuming PROVE Bought'
  <2>1. Cron \in Procs /\ proc[Cron].snap = order
    BY <1>5 DEF Resuming, SendInv, Resumable, Closed, InExecution, Procs
  <2>2. \A q \in Procs : ~Executing(q)
    BY <1>5 DEF Resuming, LockInv, Locked
  <2>3. order'.isDelist = order.isDelist
    BY <1>5, <2>1 DEF Resuming, Enters, KindOf, Orders
  <2> QED BY <1>5, <2>1, <2>2, <2>3 DEF Resuming, Enters, KindOf, Executing, Locks, Paid
<1>6. ASSUME NEW p \in Procs, Submit(p) PROVE Bought'
  <2> DEFINE f == NextTx(proc[p].todo)
  <2>1. /\ f \in Fields /\ chain' = [chain EXCEPT ![f] = @ + 1] /\ UNCHANGED order
        /\ proc[p].kind = KindOf(order)
    BY <1>6, SubmitFacts
  <2>2. /\ OthersKeep(p) /\ proc'[p].snap = proc[p].snap /\ proc'[p].kind = proc[p].kind
        /\ At(p, "exec") /\ UNCHANGED paid
    BY <1>6 DEF Submit, Goto, ChainEffect, Jobs
  <2>3. f = "commit" /\ ~order.isDelist => Paid
    <3> SUFFICES ASSUME f = "commit", ~order.isDelist PROVE Paid
      OBVIOUS
    <3>1. PICK u \in wallet : u.amt = order.price
      <4>1. "commit" \in proc[p].todo /\ proc[p].kind = "swap"
        BY <1>6, <2>1, NextTxType DEF Submit, Jobs, KindOf
      <4> QED BY <1>6, <2>2, <4>1 DEF Submit, Funded, AmountMatches
    <3>2. u # Change
      BY <3>1, ConstantsAssumption DEF Change, Orders
    <3> QED BY <3>1, <3>2 DEF Held, Paid
  <2>4. f # "commit" => chain'["commit"] = chain["commit"]
    BY <2>1 DEF Fields
  <2>5. tokens' = "delivered" => receiver' = order.buyer /\ receiver' # NoOne
    <3>1. CASE tokens' = tokens /\ receiver' = receiver
      BY <3>1
    <3>2. CASE tokens' # tokens \/ receiver' # receiver
      BY <1>6, <2>2, <3>2 DEF Submit, ChainEffect
    <3> QED BY <3>1, <3>2
  <2>6. Paid' <=> Paid
    BY <2>1, <2>2 DEF Paid
  <2> QED BY <2>1, <2>2, <2>3, <2>4, <2>5, <2>6
<1>7. ASSUME NEW p \in Procs, NotifyUpdate(p) PROVE Bought'
  <2>1. /\ order'.status = order.status /\ order'.buyer = order.buyer
        /\ order'.price = order.price /\ order'.isDelist = order.isDelist
        /\ At(p, "notify") /\ UNCHANGED world /\ OthersKeep(p)
    BY <1>7 DEF NotifyUpdate, Orders
  <2>2. /\ proc'[p].snap.buyer = proc[p].snap.buyer /\ proc'[p].snap.price = proc[p].snap.price
        /\ proc'[p].kind = proc[p].kind
    BY <1>7 DEF NotifyUpdate, Orders, Jobs
  <2> QED BY <2>1, <2>2 DEF Paid
<1>8. ASSUME NEW p \in Procs, ExecError(p) \/ FeeTooHigh(p) PROVE Bought'
  <2>1. /\ UNCHANGED <<order, world>> /\ OthersKeep(p)
        /\ proc'[p].pc \in {"lowFee", "swapError"} /\ (proc'[p].pc = "lowFee" => At(p, "exec"))
        /\ proc'[p].snap = proc[p].snap /\ proc'[p].kind = proc[p].kind
    BY <1>8 DEF ExecError, FeeTooHigh, Goto, Jobs, store
  <2> QED BY <2>1 DEF Paid
<1>9. ASSUME NEW p \in Procs, SetLowFeeStatus(p) PROVE Bought'
  <2> DEFINE required == IF proc[p].kind = "swap" THEN "CHECKOUT" ELSE "DELISTING"
  <2>1. CASE Rejected(p, required)
    BY <2>1, <1>1, RejectedQuiet
  <2>2. CASE Transition(required, "WAITING_FOR_LOW_FEE") /\ End(p) /\ UNCHANGED <<expired, world>>
    <3>1. /\ order'.status = "WAITING_FOR_LOW_FEE" /\ order'.isDelist = order.isDelist
          /\ order'.buyer = order.buyer /\ order'.price = order.price
      BY <2>2 DEF Transition, Orders
    <3>2. OthersKeep(p) /\ proc'[p].pc = "idle" /\ UNCHANGED world
      BY <2>2 DEF End, Idle
    <3>3. ~order.isDelist => order.buyer # NoOne
      BY <1>9 DEF SetLowFeeStatus, SendInv, Fresh, KindOf
    <3> QED BY <3>1, <3>2, <3>3 DEF Locks, Paid
  <2> QED BY <1>9, <2>1, <2>2 DEF SetLowFeeStatus
<1>10. ASSUME FeeOrders PROVE Bought'
  <2>1. Cron \in Procs /\ UNCHANGED <<order, world>> /\ OthersKeep(Cron) /\ proc'[Cron].pc = "feeCas"
    BY <1>10, IdleType DEF FeeOrders, Begin, Procs, store, Jobs
  <2> QED BY <2>1 DEF Paid
<1>11. ASSUME Environment PROVE Bought'
  <2>1. /\ UNCHANGED <<order, proc, chain, receiver>> /\ paid \subseteq paid'
        /\ tokens' = "delivered" => tokens = "delivered"
    BY <1>11 DEF Environment, SendTokens, Pay, LockExpires, store
  <2> QED BY <2>1 DEF Paid
<1> QED
  BY <1>1, <1>2, <1>3, <1>4, <1>5, <1>6, <1>7, <1>8, <1>9, <1>10, <1>11, Shapes

-----------------------------------------------------------------------------
(* The theorems *)

\* Everything the proofs rely on holds in every reachable state.
LEMMA DeliveryInvariant == Spec => [](IInv /\ DeliveryInv)
<1>1. Init => DeliveryInv
  <2> SUFFICES ASSUME Init PROVE DeliveryInv
    OBVIOUS
  <2>1. /\ order.status = "WAITING_FOR_TOKENS" /\ order.buyer = NoOne /\ order.txs = {}
        /\ ~order.isDelist
    BY DEF Init, BlankOrder
  <2>2. \A p \in Procs : proc[p].pc = "idle"
    BY DEF Init, Idle
  <2>3. Undeposited
    BY <2>1, <2>2 DEF Undeposited, Waits
  <2>4. Outcome
    BY <2>1, <2>2 DEF Init, Outcome, At, Fields
  <2>5. Held
    BY <2>2 DEF Init, Held, Candidate, At
  <2>6. Bought
    BY <2>1, <2>2 DEF Init, Bought, Locks, Working, Fields
  <2> QED BY <2>3, <2>4, <2>5, <2>6 DEF DeliveryInv
<1>2. IInv /\ IInv' /\ DeliveryInv /\ [Next]_vars => DeliveryInv'
  <2> SUFFICES ASSUME IInv, DeliveryInv, [Next]_vars PROVE DeliveryInv'
    OBVIOUS
  <2>1. CASE Next
    BY <2>1, UndepositedStep, OutcomeStep, HeldStep, BoughtStep DEF DeliveryInv, IInv, TypeInv
  <2>2. CASE UNCHANGED vars
    BY <2>2 DEF vars, DeliveryInv, Undeposited, Waits, Outcome, Held, Candidate, Bought, Paid,
                Working, At
  <2> QED BY <2>1, <2>2
<1> QED
  BY <1>1, <1>2, Invariant, PTL DEF Spec

\* Tokens are delivered only to the buyer the document names, and only when
\* somebody had transferred the order's price to the escrow wallet.
THEOREM Delivered == Spec => []DeliveredAgainstPayment
<1>1. IInv /\ DeliveryInv => DeliveredAgainstPayment
  <2> SUFFICES ASSUME IInv, DeliveryInv, tokens = "delivered"
               PROVE  receiver = order.buyer /\ receiver # NoOne /\ Paid
    BY DEF DeliveredAgainstPayment, Paid
  <2>1. ~order.isDelist /\ chain["commit"] > 0
    BY DEF DeliveryInv, Outcome
  <2> QED BY <2>1 DEF DeliveryInv, Bought
<1> QED
  BY <1>1, DeliveryInvariant, PTL

\* The values of the contract's variables.
Phase == IF order.status \in InMarket THEN "market"
         ELSE IF order.status \in InExecution THEN "executing" ELSE "closed"
Goods == CASE tokens = "seller" -> "out" [] tokens = "escrow" -> "held"
           [] tokens = "delivered" -> "sold" [] tokens = "returned" -> "back"
Settled == chain["seller"] > 0

\* Every step of the order is a step of the contract or leaves it alone.
LEMMA ContractStep ==
  ASSUME IInv, DeliveryInv, [Next]_vars
  PROVE  Contract!Next \/ UNCHANGED <<Phase, Goods, Settled>>
<1> USE DEF IInv, TypeInv, TypeOK, DeliveryInv, At, world
<1>0. UNCHANGED vars => UNCHANGED <<Phase, Goods, Settled>>
  BY DEF vars, Phase, Goods, Settled
<1>1. UNCHANGED tokens => UNCHANGED Goods
  BY DEF Goods
<1>2. UNCHANGED chain => UNCHANGED Settled
  BY DEF Settled
<1>3. ASSUME NEW p \in Procs, Quiet(p) PROVE UNCHANGED <<Phase, Goods, Settled>>
  BY <1>3 DEF Quiet, Phase, Goods, Settled
<1>4. ASSUME NEW p \in Procs, Listing(p) PROVE Contract!Next \/ UNCHANGED <<Phase, Goods, Settled>>
  <2>1. CASE order'.status \in InMarket
    BY <1>1, <1>2, <1>4, <2>1 DEF Listing, Phase
  <2>2. CASE order'.status = "TOKENS_NOT_SENT"
    <3>1. Phase = "market" /\ Phase' = "closed"
      BY <1>4, <2>2 DEF Listing, Phase, InMarket, InExecution
    <3>2. Contract!Close
      BY <1>1, <1>2, <1>4, <3>1 DEF Listing, Contract!Close, Phase, Goods, Settled
    <3> QED BY <3>2 DEF Contract!Next
  <2> QED BY <1>4, <2>1, <2>2 DEF Listing
<1>5. ASSUME NEW p \in Procs, Closing(p) PROVE Contract!Next \/ UNCHANGED <<Phase, Goods, Settled>>
  <2>1. Phase' = "closed"
    BY <1>5 DEF Closing, Phase, Closed
  <2>2. CASE Phase = "closed"
    BY <1>1, <1>2, <1>5, <2>1, <2>2 DEF Closing
  <2>3. CASE Phase # "closed"
    <3>1. Contract!Close
      BY <1>1, <1>2, <1>5, <2>1, <2>3 DEF Closing, Contract!Close, Phase, Goods, Settled
    <3> QED BY <3>1 DEF Contract!Next
  <2> QED BY <2>2, <2>3
<1>6. ASSUME NEW p \in Procs, Starting(p) PROVE Contract!Next
  <2>1. tokens = "escrow"
    <3>1. tokens # "seller"
      BY <1>6 DEF Starting, Undeposited, Waits
    <3> QED BY <1>6, <3>1 DEF Starting, SendInv, Untouched, Unsent, Fields, Outcome
  <2>2. Phase = "market" /\ Phase' = "executing" /\ Goods = "held"
    BY <1>6, <2>1 DEF Starting, Enters, Phase, Goods, InMarket, InExecution
  <2>3. Contract!Execute
    BY <1>1, <1>2, <1>6, <2>2 DEF Starting, Enters, Contract!Execute, Phase, Goods, Settled
  <2> QED BY <2>3 DEF Contract!Next
<1>7. ASSUME Resuming PROVE UNCHANGED <<Phase, Goods, Settled>>
  BY <1>1, <1>2, <1>7 DEF Resuming, Enters, Phase, InMarket, InExecution
<1>8. ASSUME NEW p \in Procs, Submit(p) PROVE Contract!Next \/ UNCHANGED <<Phase, Goods, Settled>>
  <2> DEFINE f == NextTx(proc[p].todo)
  <2>1. /\ f \in Fields /\ chain[f] = 0 /\ chain' = [chain EXCEPT ![f] = @ + 1]
        /\ UNCHANGED order /\ order.status \notin InMarket
        /\ f = "seller" => tokens = "delivered"
        /\ f = "reveal" => tokens = "escrow"
    BY <1>8, SubmitFacts
  <2>2. Phase' = Phase /\ Phase # "market"
    BY <2>1 DEF Phase
  <2>3. CASE f = "reveal"
    <3>1. Goods = "held" /\ Goods' \in {"sold", "back"} /\ Settled' = Settled
      BY <1>8, <2>1, <2>3 DEF Submit, ChainEffect, Goods, Settled, Fields
    <3>2. Contract!HandOver
      BY <2>2, <3>1 DEF Contract!HandOver, Phase, Goods, Settled
    <3> QED BY <3>2 DEF Contract!Next
  <2>4. CASE f = "seller"
    <3>1. Goods = "sold" /\ Goods' = Goods /\ ~Settled /\ Settled'
      BY <1>8, <2>1, <2>4 DEF Submit, ChainEffect, Goods, Settled, Fields
    <3>2. Contract!Settle
      BY <2>2, <3>1 DEF Contract!Settle, Phase, Goods, Settled
    <3> QED BY <3>2 DEF Contract!Next
  <2>5. CASE f \notin {"reveal", "seller"}
    BY <1>1, <1>8, <2>1, <2>2, <2>5 DEF Submit, ChainEffect, Settled, Fields
  <2> QED BY <2>3, <2>4, <2>5
<1>9. ASSUME NEW p \in Procs, NotifyUpdate(p) \/ ExecError(p) \/ FeeTooHigh(p)
      PROVE  UNCHANGED <<Phase, Goods, Settled>>
  <2>1. order'.status = order.status /\ UNCHANGED world
    BY <1>9 DEF NotifyUpdate, ExecError, FeeTooHigh, Orders, store
  <2> QED BY <1>1, <1>2, <2>1 DEF Phase
<1>10. ASSUME NEW p \in Procs, SetLowFeeStatus(p) PROVE UNCHANGED <<Phase, Goods, Settled>>
  <2>1. /\ \/ order'.status = order.status
           \/ order.status \in InExecution /\ order'.status = "WAITING_FOR_LOW_FEE"
        /\ UNCHANGED world
    BY <1>10 DEF SetLowFeeStatus, Transition, Rejected, Orders, store, InExecution
  <2> QED BY <1>1, <1>2, <2>1 DEF Phase, InMarket, InExecution
<1>11. ASSUME FeeOrders PROVE UNCHANGED <<Phase, Goods, Settled>>
  BY <1>1, <1>2, <1>11 DEF FeeOrders, store, Phase
<1>12. ASSUME Environment PROVE Contract!Next \/ UNCHANGED <<Phase, Goods, Settled>>
  <2>1. ASSUME SendTokens PROVE Contract!Next
    <3>1. Goods = "out" /\ Goods' = "held" /\ Phase' = Phase
      BY <2>1 DEF SendTokens, store, Goods, Phase
    <3>2. Contract!Deposit
      BY <1>2, <2>1, <3>1 DEF SendTokens, Contract!Deposit, Phase, Goods, Settled
    <3> QED BY <3>2 DEF Contract!Next
  <2>2. ASSUME UNCHANGED <<order, tokens, chain>> PROVE UNCHANGED <<Phase, Goods, Settled>>
    BY <1>1, <1>2, <2>2 DEF Phase
  <2> QED BY <1>12, <2>1, <2>2 DEF Environment, Pay, LockExpires, store
<1> HIDE DEF IInv, DeliveryInv
<1>13. CASE Next
  BY <1>3, <1>4, <1>5, <1>6, <1>7, <1>8, <1>9, <1>10, <1>11, <1>12, <1>13, Shapes DEF IInv, TypeInv
<1> QED
  BY <1>0, <1>13

\* The order implements the escrow's contract: with any number of concurrent
\* handlers, errors and crashes, the goods leave the escrow once, after the
\* order left the market, and the seller is paid at most once, after a sale.
THEOREM Implements == Spec => ImplementsContract
<1>1. Init => Contract!Init
  <2> SUFFICES ASSUME Init PROVE Contract!Init
    OBVIOUS
  <2>1. order.status \in InMarket
    BY DEF Init, BlankOrder, InMarket
  <2>2. tokens = "seller" /\ ~(chain["seller"] > 0)
    BY DEF Init, Fields
  <2> QED BY <2>1, <2>2 DEF Contract!Init
<1>2. IInv /\ DeliveryInv /\ [Next]_vars => [Contract!Next]_(Contract!vars)
  BY ContractStep DEF Contract!vars, Phase, Goods, Settled
<1> QED
  BY <1>1, <1>2, DeliveryInvariant, PTL DEF Spec, ImplementsContract, Contract!Spec
=============================================================================
