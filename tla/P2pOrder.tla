------------------------------ MODULE P2pOrder ------------------------------
(***************************************************************************)
(* One peer-to-peer sell order: its document in the order book, the        *)
(* temporary (escrow) wallet the seller's tokens and the buyer's KAS are   *)
(* sent to, the API request handlers that work on the order concurrently,  *)
(* and the cron job.  Orders do not share state (every order has its own   *)
(* temporary wallet), so one order with any number of handlers is the      *)
(* general case.                                                           *)
(*                                                                         *)
(* A handler is sequential code between awaits: every step below is one    *)
(* database operation or one network call, and everything a handler read   *)
(* earlier may be stale when it acts.  proc[p] is the handler's local      *)
(* state: where it is (pc), the order document as it last read it (snap),  *)
(* the payment it looks at (tx), the wallet it acts for (who), and, while  *)
(* it executes a swap or a delist, which of the two (kind), the chain      *)
(* transactions still to be sent (todo) and the one sent but not yet       *)
(* written to the document (sent).                                         *)
(***************************************************************************)
EXTENDS Naturals, FiniteSets

CONSTANTS Handlers,     \* concurrent API requests
          Cron,         \* the single cron instance
          Buyers,       \* wallets that may buy
          Seller,       \* the wallet that created the order
          NoOne,        \* no wallet (buyerWalletAddress: null)
          Prices,       \* the total prices the seller may set
          Payments,     \* the KAS transfers wallets may send to the escrow wallet
          MaxPayments,  \* bound on the transfers of one behaviour
          Faults        \* whether processes crash and calls outside a swap fail

Procs == Handlers \cup {Cron}
Wallets == Buyers \cup {Seller}

\* A transfer is as good as the amount expected when it differs from it by
\* at most ACCEPTABLE_TRANSACTION_AMOUNT_RANGE: "dust" is a transfer so small
\* that it does not disturb a comparison, "fee" is AMOUNT_FOR_SWAP_FEES, a
\* price stands for totalPrice + AMOUNT_FOR_SWAP_FEES.
Amounts == Prices \cup {"fee", "dust", "change", "none"}
Utxos == [from: Wallets \cup {NoOne}, amt: Amounts, joint: BOOLEAN]
Change == [from |-> NoOne, amt |-> "change", joint |-> FALSE]
NoPayment == [from |-> NoOne, amt |-> "none", joint |-> FALSE]

ASSUME ConstantsAssumption ==
    /\ Cron \notin Handlers
    /\ NoOne \notin Wallets
    /\ Prices # {}
    /\ Prices \cap {"fee", "dust", "change", "none"} = {}
    /\ Payments \subseteq [from: Wallets, amt: Prices \cup {"fee", "dust"}, joint: BOOLEAN]
    /\ MaxPayments \in Nat
    /\ Faults \in BOOLEAN

Statuses == {"WAITING_FOR_TOKENS", "LISTED_FOR_SALE", "WAITING_FOR_KAS", "CHECKOUT",
             "WAITING_FOR_LOW_FEE", "COMPLETED", "SWAP_ERROR", "CHECKING_EXPIRED",
             "UNKNOWN_MONEY_ERROR", "TOKENS_NOT_SENT", "OFF_MARKETPLACE", "DELISTING",
             "DELIST_ERROR", "COMPLETED_DELISTING"}

\* The transaction ids of SwapTransactionsResult, in the order they are sent.
Fields == {"commit", "reveal", "seller", "buyer"}

Orders == [status: Statuses, buyer: Wallets \cup {NoOne}, price: Prices,
           isDelist: BOOLEAN, txs: SUBSET Fields]

Labels == {"idle", "buyBalance", "buyAssign", "moneyUtxos", "moneyAmount", "moneyRelist",
           "moneyAssign", "cbRead", "cbVerify", "cbCheckout", "exec", "notify", "lowFee",
           "swapError", "unknown", "dlUtxos", "dlVerify", "dlCas", "relBalance", "relCas",
           "remBalance", "remCas", "updBalance", "updWrite", "relistCas", "sellCas",
           "feeCas", "expCas", "expUtxos", "expRelease", "expWaiting", "tokCheck", "tokNotSent"}

Jobs == [pc: Labels, snap: Orders, tx: Utxos, who: Wallets \cup {NoOne},
         kind: {"swap", "delist"}, todo: SUBSET Fields, sent: Fields \cup {"none"}]

VARIABLES
    order,     \* the order's document
    expired,   \* expiresAt < now
    paid,      \* every transfer ever sent to the escrow wallet (what the Kaspa API shows)
    wallet,    \* the escrow wallet's unspent outputs (what the node shows)
    tokens,    \* where the order's KRC20 tokens are
    receiver,  \* the wallet the tokens were last sent to by a reveal
    chain,     \* how often each transaction of the swap or delist was sent
    proc       \* the local state of every handler and of the cron job

store == <<order, expired>>
world == <<paid, wallet, tokens, receiver, chain>>
vars == <<order, expired, paid, wallet, tokens, receiver, chain, proc>>

BlankOrder == [status |-> "WAITING_FOR_TOKENS", buyer |-> NoOne,
               price |-> CHOOSE q \in Prices : TRUE, isDelist |-> FALSE, txs |-> {}]

Idle == [pc |-> "idle", snap |-> BlankOrder, tx |-> NoPayment, who |-> NoOne,
         kind |-> "swap", todo |-> {}, sent |-> "none"]

TypeOK ==
    /\ order \in Orders
    /\ expired \in BOOLEAN
    /\ paid \subseteq Payments
    /\ wallet \subseteq Utxos
    /\ tokens \in {"seller", "escrow", "delivered", "returned"}
    /\ receiver \in Wallets \cup {NoOne}
    /\ chain \in [Fields -> Nat]
    /\ proc \in [Procs -> Jobs]

\* The order as createOrder leaves it: waiting for the seller's tokens.
Init ==
    /\ order \in {[BlankOrder EXCEPT !.price = q] : q \in Prices}
    /\ expired = FALSE
    /\ paid = {} /\ wallet = {}
    /\ tokens = "seller" /\ receiver = NoOne
    /\ chain = [f \in Fields |-> 0]
    /\ proc = [p \in Procs |-> Idle]

-----------------------------------------------------------------------------
(* Shared steps *)

At(p, l) == proc[p].pc = l
End(p) == proc' = [proc EXCEPT ![p] = Idle]
Goto(p, l) == proc' = [proc EXCEPT ![p].pc = l]
Begin(p, l) == proc' = [proc EXCEPT ![p] = [Idle EXCEPT !.pc = l, !.snap = order]]

\* transitionOrderStatus: one findOneAndUpdate filtered on the required status.
Transition(required, new) ==
    /\ order.status = required
    /\ order' = [order EXCEPT !.status = new]

\* The filter matched nothing: InvalidStatusForOrderUpdateError ends the handler.
Rejected(p, required) ==
    /\ order.status # required
    /\ End(p) /\ UNCHANGED <<store, world>>

\* The wallet's total is the expected amount, up to the acceptable range.
AmountMatches(amount) ==
    \E u \in wallet : u.amt = amount /\ \A v \in wallet \ {u} : v.amt = "dust"

\* verifyTransactionResultWithKaspaApiAndWalletTotalAmount
Verified(t, from, amount) ==
    t \in paid /\ t.from = from /\ t.amt = amount /\ AmountMatches(amount)

\* assignBuyerToOrder: status, expiry and buyer in one database transaction.
AssignBuyer(p) ==
    /\ order.status = "LISTED_FOR_SALE"
    /\ order' = [order EXCEPT !.status = "WAITING_FOR_KAS", !.buyer = proc[p].who]
    /\ expired' = FALSE
    /\ UNCHANGED world

\* Mutant of Todo: only a recorded commit is skipped.
TodoAfterCommit(kind, o) ==
    IF kind = "swap" THEN Fields \ (o.txs \cap {"commit"})
    ELSE ({"commit", "reveal"} \ (o.txs \cap {"commit"})) \cup {"buyer"}

\* A handler enters doSellSwap or cancelSellSwap with the document o: each
\* transaction is sent unless o already records it.  The last transaction of a
\* delist is skipped when sellerTransactionId is recorded, and is itself
\* recorded as buyerTransactionId.
Todo(kind, o) ==
    IF kind = "swap" THEN Fields \ o.txs
    ELSE ({"commit", "reveal"} \ o.txs)
             \cup (IF "seller" \in o.txs THEN {} ELSE {"buyer"})

Execute(p, kind, o) ==
    proc' = [proc EXCEPT ![p] = [Idle EXCEPT !.pc = "exec", !.snap = o, !.kind = kind,
                                             !.todo = Todo(kind, o)]]

\* Continue at l with nothing of what was read still in use.
Forget(p, l) == proc' = [proc EXCEPT ![p] = [Idle EXCEPT !.pc = l]]

-----------------------------------------------------------------------------
(* confirmSell: the seller says the tokens were sent. *)

ConfirmSell(p) ==
    /\ At(p, "idle") /\ p # Cron
    /\ tokens = "escrow"
    /\ Forget(p, "sellCas")
    /\ UNCHANGED <<store, world>>

SetReadyForSale(p) ==
    /\ At(p, "sellCas")
    /\ \/ Transition("WAITING_FOR_TOKENS", "LISTED_FOR_SALE")
          /\ End(p) /\ UNCHANGED <<expired, world>>
       \/ Rejected(p, "WAITING_FOR_TOKENS")

-----------------------------------------------------------------------------
(* buy: lock the order for a buyer, unless its wallet already holds money. *)

Buy(p, w) ==
    /\ At(p, "idle") /\ p # Cron
    /\ order.status = "LISTED_FOR_SALE"
    /\ proc' = [proc EXCEPT ![p] = [Idle EXCEPT !.pc = "buyBalance", !.snap = order, !.who = w]]
    /\ UNCHANGED <<store, world>>

BuyBalance(p) ==
    /\ At(p, "buyBalance")
    /\ Goto(p, IF wallet = {} THEN "buyAssign" ELSE "moneyUtxos")
    /\ UNCHANGED <<store, world>>

BuyAssign(p) ==
    /\ At(p, "buyAssign")
    /\ \/ AssignBuyer(p) /\ End(p)
       \/ Rejected(p, "LISTED_FOR_SALE")

-----------------------------------------------------------------------------
(* handleOrderWithMoneyAndNoBuyer: nobody waits for it.  It takes a single  *)
(* payment of the right amount as a purchase by whoever sent it, and        *)
(* anything else as unknown money.                                          *)

MoneyUtxos(p) ==
    /\ At(p, "moneyUtxos")
    /\ \/ \E u \in wallet :
             /\ wallet = {u}
             /\ proc' = [proc EXCEPT ![p].pc = "moneyAmount", ![p].tx = u]
       \/ /\ \A u \in wallet : wallet # {u}
          /\ Forget(p, "unknown")
    /\ UNCHANGED <<store, world>>

\* The total is read again; the sender is unknown when several wallets funded
\* the transfer.
MoneyAmount(p) ==
    /\ At(p, "moneyAmount")
    /\ IF AmountMatches(proc[p].snap.price) /\ ~proc[p].tx.joint
       THEN proc' = [proc EXCEPT ![p].who = proc[p].tx.from,
                                 ![p].pc = IF proc[p].snap.status = "OFF_MARKETPLACE"
                                           THEN "moneyRelist" ELSE "moneyAssign"]
       ELSE Forget(p, "unknown")
    /\ UNCHANGED <<store, world>>

MoneyRelist(p) ==
    /\ At(p, "moneyRelist")
    /\ \/ Transition("OFF_MARKETPLACE", "LISTED_FOR_SALE")
          /\ Goto(p, "moneyAssign") /\ UNCHANGED <<expired, world>>
       \/ Rejected(p, "OFF_MARKETPLACE")

MoneyAssign(p) ==
    /\ At(p, "moneyAssign")
    /\ \/ AssignBuyer(p) /\ Goto(p, "cbRead")
       \/ Rejected(p, "LISTED_FOR_SALE")

\* setUnknownMoneyErrorStatus: not conditional on the status it overwrites.
SetUnknownMoney(p) ==
    /\ At(p, "unknown")
    /\ order' = [order EXCEPT !.status = "UNKNOWN_MONEY_ERROR"]
    /\ End(p) /\ UNCHANGED <<expired, world>>

-----------------------------------------------------------------------------
(* confirmBuy: verify the payment of the buyer read from the document, then *)
(* take the order to checkout and swap with the document read again.        *)

ConfirmBuy(p, t) ==
    /\ At(p, "idle") /\ p # Cron
    /\ t \in paid
    /\ proc' = [proc EXCEPT ![p] = [Idle EXCEPT !.pc = "cbVerify", !.snap = order, !.tx = t]]
    /\ UNCHANGED <<store, world>>

ConfirmBuyRead(p) ==
    /\ At(p, "cbRead")
    /\ proc' = [proc EXCEPT ![p].pc = "cbVerify", ![p].snap = order]
    /\ UNCHANGED <<store, world>>

\* An unverified payment ends a request; the cron job reports unknown money.
ConfirmBuyVerify(p) ==
    /\ At(p, "cbVerify")
    /\ IF Verified(proc[p].tx, proc[p].snap.buyer, proc[p].snap.price)
       THEN Forget(p, "cbCheckout")
       ELSE IF p = Cron THEN Forget(p, "unknown") ELSE End(p)
    /\ UNCHANGED <<store, world>>

\* Mutant of ConfirmBuyCheckout: the status is set without a required one.
CheckoutUnconditionally(p) ==
    /\ At(p, "cbCheckout")
    /\ order' = [order EXCEPT !.status = "CHECKOUT"]
    /\ Execute(p, "swap", order') /\ UNCHANGED <<expired, world>>

ConfirmBuyCheckout(p) ==
    /\ At(p, "cbCheckout")
    /\ \/ Transition("WAITING_FOR_KAS", "CHECKOUT")
          /\ Execute(p, "swap", order') /\ UNCHANGED <<expired, world>>
       \/ Rejected(p, "WAITING_FOR_KAS")

-----------------------------------------------------------------------------
(* releaseBuyLock, by the buyer *)

ReleaseBuyLock(p) ==
    /\ At(p, "idle") /\ p # Cron
    /\ order.status = "WAITING_FOR_KAS"
    /\ Forget(p, "relBalance")
    /\ UNCHANGED <<store, world>>

ReleaseBalance(p) ==
    /\ At(p, "relBalance")
    /\ IF wallet = {} THEN Forget(p, "relCas") ELSE End(p)
    /\ UNCHANGED <<store, world>>

\* Mutant of Release: the lock is released whatever the status.
ReleaseUnconditionally(p, required) ==
    /\ order' = [order EXCEPT !.status = "LISTED_FOR_SALE", !.buyer = NoOne]
    /\ End(p) /\ UNCHANGED <<expired, world>>

Release(p, required) ==
    \/ /\ order.status = required
       /\ order' = [order EXCEPT !.status = "LISTED_FOR_SALE", !.buyer = NoOne]
       /\ End(p) /\ UNCHANGED <<expired, world>>
    \/ Rejected(p, required)

ReleaseTransition(p) == At(p, "relCas") /\ Release(p, "WAITING_FOR_KAS")

-----------------------------------------------------------------------------
(* The seller's own operations on the listing *)

RemoveFromMarketplace(p) ==
    /\ At(p, "idle") /\ p # Cron
    /\ order.status = "LISTED_FOR_SALE"
    /\ Begin(p, "remBalance")
    /\ UNCHANGED <<store, world>>

RemoveBalance(p) ==
    /\ At(p, "remBalance")
    /\ IF wallet = {} THEN Forget(p, "remCas") ELSE Goto(p, "moneyUtxos")
    /\ UNCHANGED <<store, world>>

RemoveTransition(p) ==
    /\ At(p, "remCas")
    /\ \/ Transition("LISTED_FOR_SALE", "OFF_MARKETPLACE")
          /\ End(p) /\ UNCHANGED <<expired, world>>
       \/ Rejected(p, "LISTED_FOR_SALE")

UpdateSellOrder(p) ==
    /\ At(p, "idle") /\ p # Cron
    /\ order.status \in {"LISTED_FOR_SALE", "OFF_MARKETPLACE"}
    /\ Begin(p, "updBalance")
    /\ UNCHANGED <<store, world>>

\* Only an order read as off the marketplace is updated; a listed one is only
\* looked at for money.
UpdateBalance(p) ==
    /\ At(p, "updBalance")
    /\ IF wallet # {} THEN Goto(p, "moneyUtxos")
       ELSE IF proc[p].snap.status = "OFF_MARKETPLACE" THEN Forget(p, "updWrite") ELSE End(p)
    /\ UNCHANGED <<store, world>>

\* Mutant of UpdatePrices: the write is not filtered on the status.
UpdatePricesUnconditionally(p, q) ==
    /\ At(p, "updWrite")
    /\ order' = [order EXCEPT !.price = q]
    /\ End(p) /\ UNCHANGED <<expired, world>>

\* updateSellOrderPrices: updateOne answers an object even when its filter
\* matched nothing, so the write is lost silently when the status has changed.
UpdatePrices(p, q) ==
    /\ At(p, "updWrite")
    /\ order' = IF order.status = "OFF_MARKETPLACE" THEN [order EXCEPT !.price = q] ELSE order
    /\ End(p) /\ UNCHANGED <<expired, world>>

RelistSellOrder(p) ==
    /\ At(p, "idle") /\ p # Cron
    /\ order.status = "OFF_MARKETPLACE"
    /\ Forget(p, "relistCas")
    /\ UNCHANGED <<store, world>>

RelistTransition(p) ==
    /\ At(p, "relistCas")
    /\ \/ Transition("OFF_MARKETPLACE", "LISTED_FOR_SALE")
          /\ End(p) /\ UNCHANGED <<expired, world>>
       \/ Rejected(p, "OFF_MARKETPLACE")

-----------------------------------------------------------------------------
(* confirmDelistSale: the seller pays the fee and gets the tokens back. *)

\* With a transaction id the fee is verified at once; without one the escrow
\* wallet is searched for it.
ConfirmDelist(p) ==
    /\ At(p, "idle") /\ p # Cron
    /\ order.status = "OFF_MARKETPLACE"
    /\ \/ Forget(p, "dlUtxos")
       \/ \E t \in paid :
             proc' = [proc EXCEPT ![p] = [Idle EXCEPT !.pc = "dlVerify", !.tx = t]]
    /\ UNCHANGED <<store, world>>

DelistUtxos(p) ==
    /\ At(p, "dlUtxos")
    /\ \/ wallet = {} /\ End(p)
       \/ \E u \in wallet :
             /\ wallet = {u}
             /\ proc' = [proc EXCEPT ![p].pc = "dlVerify", ![p].tx = u]
       \/ /\ wallet # {} /\ \A u \in wallet : wallet # {u}
          /\ Forget(p, "unknown")
    /\ UNCHANGED <<store, world>>

DelistVerify(p) ==
    /\ At(p, "dlVerify")
    /\ IF Verified(proc[p].tx, Seller, "fee") THEN Forget(p, "dlCas") ELSE End(p)
    /\ UNCHANGED <<store, world>>

SetDelisting(required) ==
    /\ order.status = required
    /\ order' = [order EXCEPT !.status = "DELISTING", !.isDelist = TRUE]

DelistTransition(p) ==
    /\ At(p, "dlCas")
    /\ \/ SetDelisting("OFF_MARKETPLACE")
          /\ Execute(p, "delist", order') /\ UNCHANGED <<expired, world>>
       \/ Rejected(p, "OFF_MARKETPLACE")

-----------------------------------------------------------------------------
(* doSellSwap and cancelSellSwap, with completeSwap and delistSellOrder      *)
(* around them.                                                              *)

\* Mutant of NextTx: the seller is paid before the tokens are revealed.
NextTxPaymentFirst(todo) ==
    IF "commit" \in todo THEN "commit"
    ELSE IF "seller" \in todo THEN "seller"
    ELSE IF "reveal" \in todo THEN "reveal" ELSE "buyer"

NextTx(todo) ==
    IF "commit" \in todo THEN "commit"
    ELSE IF "reveal" \in todo THEN "reveal"
    ELSE IF "seller" \in todo THEN "seller" ELSE "buyer"

\* Before the commit the wallet must hold what the operation needs.
Funded(p) ==
    "commit" \in proc[p].todo =>
        AmountMatches(IF proc[p].kind = "swap" THEN proc[p].snap.price ELSE "fee")

\* What transaction f does on the chain.  The commit leaves the wallet with its
\* own change, the reveal makes the indexer move the tokens, the last
\* transaction (sendAll) empties the wallet.
ChainEffect(p, f) ==
    /\ chain' = [chain EXCEPT ![f] = @ + 1]
    /\ wallet' = CASE f = "commit" -> {u \in wallet : u.amt = "dust"} \cup {Change}
                   [] f = "buyer"  -> {}
                   [] OTHER        -> wallet
    /\ IF f = "reveal" /\ tokens = "escrow"
       THEN /\ tokens' = IF proc[p].kind = "swap" THEN "delivered" ELSE "returned"
            /\ receiver' = IF proc[p].kind = "swap" THEN proc[p].snap.buyer ELSE Seller
       ELSE UNCHANGED <<tokens, receiver>>
    /\ UNCHANGED paid

\* Submit the next transaction and wait for its confirmation, which may time
\* out although the transaction is on the chain.  A retried submission sends
\* the same transaction, built from outputs read before it, again: the node
\* takes it at most once, so the retries are one step.
Submit(p) ==
    /\ At(p, "exec") /\ proc[p].todo # {}
    /\ Funded(p)
    /\ ChainEffect(p, NextTx(proc[p].todo))
    /\ \/ proc' = [proc EXCEPT ![p].pc = "notify", ![p].sent = NextTx(proc[p].todo)]
       \/ Goto(p, "swapError")
    /\ UNCHANGED store

\* notifyUpdate: the whole transactions object is written.
NotifyUpdate(p) ==
    /\ At(p, "notify")
    /\ LET done == proc[p].snap.txs \cup {proc[p].sent} IN
       /\ order' = [order EXCEPT !.txs = done]
       /\ proc' = [proc EXCEPT ![p].pc = "exec", ![p].snap.txs = done,
                               ![p].todo = @ \ {proc[p].sent}, ![p].sent = "none"]
    /\ UNCHANGED <<expired, world>>

\* Wrong amount in the wallet, a failed submission or a failed write of the
\* transactions.  A failed completion is swallowed: the handler stops (Stop)
\* and the order stays in CHECKOUT or DELISTING.
ExecError(p) ==
    /\ At(p, "exec") \/ At(p, "notify")
    /\ proc[p].todo # {}
    /\ Goto(p, "swapError")
    /\ UNCHANGED <<store, world>>

\* PriorityFeeTooHighError: thrown before anything is submitted.
FeeTooHigh(p) ==
    /\ At(p, "exec") /\ proc[p].todo # {}
    /\ Funded(p)
    /\ Goto(p, "lowFee")
    /\ UNCHANGED <<store, world>>

SetLowFeeStatus(p) ==
    /\ At(p, "lowFee")
    /\ LET required == IF proc[p].kind = "swap" THEN "CHECKOUT" ELSE "DELISTING" IN
       \/ Transition(required, "WAITING_FOR_LOW_FEE")
          /\ End(p) /\ UNCHANGED <<expired, world>>
       \/ Rejected(p, required)

\* setSwapError, setDelistError and setOrderCompleted: not conditional either.
SetSwapError(p) ==
    /\ At(p, "swapError")
    /\ order' = [order EXCEPT !.status = IF proc[p].kind = "swap" THEN "SWAP_ERROR"
                                         ELSE "DELIST_ERROR"]
    /\ End(p) /\ UNCHANGED <<expired, world>>

SetOrderCompleted(p) ==
    /\ At(p, "exec") /\ proc[p].todo = {}
    /\ order' = [order EXCEPT !.status = IF proc[p].kind = "swap" THEN "COMPLETED"
                                         ELSE "COMPLETED_DELISTING"]
    /\ End(p) /\ UNCHANGED <<expired, world>>

-----------------------------------------------------------------------------
(* The cron job.  runOnce keeps a second round from starting while one is   *)
(* running, so there is one process.  Each phase first queries all orders   *)
(* and then handles them one after the other, this one at any later moment. *)

FeeOrders ==
    /\ At(Cron, "idle") /\ order.status = "WAITING_FOR_LOW_FEE"
    /\ Begin(Cron, "feeCas")
    /\ UNCHANGED <<store, world>>

\* Mutant of ResumeLowFee: an order that waits as a delist is passed over.
ResumeSwapsOnly ==
    /\ At(Cron, "feeCas")
    /\ \/ /\ ~proc[Cron].snap.isDelist
          /\ Transition("WAITING_FOR_LOW_FEE", "CHECKOUT")
          /\ Execute(Cron, "swap", proc[Cron].snap) /\ UNCHANGED <<expired, world>>
       \/ /\ proc[Cron].snap.isDelist \/ order.status # "WAITING_FOR_LOW_FEE"
          /\ End(Cron) /\ UNCHANGED <<store, world>>

\* handleWatingForFeeOrder: the swap resumes with the document the query read.
ResumeLowFee ==
    /\ At(Cron, "feeCas")
    /\ \/ /\ proc[Cron].snap.isDelist
          /\ SetDelisting("WAITING_FOR_LOW_FEE")
          /\ Execute(Cron, "delist", proc[Cron].snap) /\ UNCHANGED <<expired, world>>
       \/ /\ ~proc[Cron].snap.isDelist
          /\ Transition("WAITING_FOR_LOW_FEE", "CHECKOUT")
          /\ Execute(Cron, "swap", proc[Cron].snap) /\ UNCHANGED <<expired, world>>
       \/ Rejected(Cron, "WAITING_FOR_LOW_FEE")

ExpiredOrders ==
    /\ At(Cron, "idle") /\ order.status = "WAITING_FOR_KAS" /\ expired
    /\ Forget(Cron, "expCas")
    /\ UNCHANGED <<store, world>>

SetCheckingExpired ==
    /\ At(Cron, "expCas")
    /\ \/ Transition("WAITING_FOR_KAS", "CHECKING_EXPIRED")
          /\ Forget(Cron, "expUtxos") /\ UNCHANGED <<expired, world>>
       \/ Rejected(Cron, "WAITING_FOR_KAS")

\* Mutant of ExpiredUtxos: an expired lock with a payment is left as it is.
ExpiredWithoutPayment ==
    /\ At(Cron, "expUtxos")
    /\ IF wallet = {} THEN Forget(Cron, "expRelease") ELSE End(Cron)
    /\ UNCHANGED <<store, world>>

ExpiredUtxos ==
    /\ At(Cron, "expUtxos")
    /\ \/ wallet = {} /\ Forget(Cron, "expRelease")
       \/ \E u \in wallet :
             /\ wallet = {u}
             /\ proc' = [proc EXCEPT ![Cron].pc = "expWaiting", ![Cron].tx = u]
       \/ /\ wallet # {} /\ \A u \in wallet : wallet # {u}
          /\ Forget(Cron, "unknown")
    /\ UNCHANGED <<store, world>>

ExpiredRelease == At(Cron, "expRelease") /\ Release(Cron, "CHECKING_EXPIRED")

\* setWaitingForKasStatus with expiresAt = now, then confirmBuy.
ExpiredWaiting ==
    /\ At(Cron, "expWaiting")
    /\ \/ /\ Transition("CHECKING_EXPIRED", "WAITING_FOR_KAS")
          /\ expired' = TRUE
          /\ Goto(Cron, "cbRead") /\ UNCHANGED world
       \/ Rejected(Cron, "CHECKING_EXPIRED")

WaitingTokensOrders ==
    /\ At(Cron, "idle") /\ order.status = "WAITING_FOR_TOKENS"
    /\ Forget(Cron, "tokCheck")
    /\ UNCHANGED <<store, world>>

\* Mutant of CheckTokens: an order whose tokens never came is left as it is.
CheckTokensSent ==
    /\ At(Cron, "tokCheck")
    /\ IF tokens = "escrow" THEN Forget(Cron, "sellCas") ELSE End(Cron)
    /\ UNCHANGED <<store, world>>

CheckTokens ==
    /\ At(Cron, "tokCheck")
    /\ Forget(Cron, IF tokens = "escrow" THEN "sellCas" ELSE "tokNotSent")
    /\ UNCHANGED <<store, world>>

SetTokensNotSent ==
    /\ At(Cron, "tokNotSent")
    /\ \/ Transition("WAITING_FOR_TOKENS", "TOKENS_NOT_SENT")
          /\ End(Cron) /\ UNCHANGED <<expired, world>>
       \/ Rejected(Cron, "WAITING_FOR_TOKENS")

-----------------------------------------------------------------------------
(* The environment: wallets, the clock, crashes *)

SendTokens ==
    /\ tokens = "seller"
    /\ tokens' = "escrow"
    /\ UNCHANGED <<store, paid, wallet, receiver, chain, proc>>

Pay(u) ==
    /\ u \notin paid /\ Cardinality(paid) < MaxPayments
    /\ paid' = paid \cup {u} /\ wallet' = wallet \cup {u}
    /\ UNCHANGED <<store, tokens, receiver, chain, proc>>

LockExpires ==
    /\ order.status \in {"WAITING_FOR_KAS", "CHECKING_EXPIRED"} /\ ~expired
    /\ expired' = TRUE
    /\ UNCHANGED <<order, world, proc>>

\* The process dies, or an error outside the swap propagates to the caller:
\* the handler stops where it is and undoes nothing.
Stop(p) ==
    /\ Faults /\ ~At(p, "idle")
    /\ End(p) /\ UNCHANGED <<store, world>>

-----------------------------------------------------------------------------

Requests(p) ==
    \/ ConfirmSell(p) \/ \E w \in Buyers : Buy(p, w)
    \/ \E t \in Payments : ConfirmBuy(p, t)
    \/ ReleaseBuyLock(p) \/ RemoveFromMarketplace(p) \/ UpdateSellOrder(p)
    \/ RelistSellOrder(p) \/ ConfirmDelist(p)

Execution(p) ==
    \/ Submit(p) \/ NotifyUpdate(p) \/ ExecError(p) \/ FeeTooHigh(p)
    \/ SetLowFeeStatus(p) \/ SetSwapError(p) \/ SetOrderCompleted(p)

Continue(p) ==
    \/ SetReadyForSale(p)
    \/ BuyBalance(p) \/ BuyAssign(p)
    \/ MoneyUtxos(p) \/ MoneyAmount(p) \/ MoneyRelist(p) \/ MoneyAssign(p) \/ SetUnknownMoney(p)
    \/ ConfirmBuyRead(p) \/ ConfirmBuyVerify(p) \/ ConfirmBuyCheckout(p)
    \/ ReleaseBalance(p) \/ ReleaseTransition(p)
    \/ RemoveBalance(p) \/ RemoveTransition(p)
    \/ UpdateBalance(p) \/ (\E q \in Prices : UpdatePrices(p, q)) \/ RelistTransition(p)
    \/ DelistUtxos(p) \/ DelistVerify(p) \/ DelistTransition(p)
    \/ Execution(p)

CronPhases == FeeOrders \/ ExpiredOrders \/ WaitingTokensOrders

CronSteps ==
    \/ ResumeLowFee
    \/ SetCheckingExpired \/ ExpiredUtxos \/ ExpiredRelease \/ ExpiredWaiting
    \/ CheckTokens \/ SetTokensNotSent

Environment == SendTokens \/ (\E u \in Payments : Pay(u)) \/ LockExpires

Next ==
    \/ \E p \in Procs : Requests(p) \/ Continue(p) \/ Stop(p)
    \/ CronPhases \/ CronSteps
    \/ Environment

Spec == Init /\ [][Next]_vars

\* Handlers run to their end, the cron job runs every five minutes, and the
\* network fee is not too high for ever.  Requests, transfers and the seller's
\* deposit need not happen.
Fairness ==
    /\ \A p \in Procs : WF_vars(Continue(p))
    /\ WF_vars(CronPhases) /\ WF_vars(CronSteps)
    /\ SF_vars(Submit(Cron))

FairSpec == Spec /\ Fairness

-----------------------------------------------------------------------------
(* Properties *)

InMarket == {"WAITING_FOR_TOKENS", "LISTED_FOR_SALE", "OFF_MARKETPLACE",
             "WAITING_FOR_KAS", "CHECKING_EXPIRED"}
InExecution == {"CHECKOUT", "DELISTING", "WAITING_FOR_LOW_FEE"}
Closed == Statuses \ (InMarket \cup InExecution)

Executing(p) == proc[p].pc \in {"exec", "notify", "lowFee", "swapError"}

\* At most one process at a time works through the swap or delist of an order:
\* the status transitions are the only lock there is.
SwapExclusion ==
    \A p, q \in Procs : Executing(p) /\ Executing(q) => p = q

\* No transaction of a swap or delist is ever sent twice, whatever is retried,
\* resumed from a low-fee wait with an old document, or overwritten meanwhile.
SentOnce == \A f \in Fields : chain[f] <= 1

\* Tokens are delivered only to the buyer the document names, and only when
\* somebody had transferred the order's price to the escrow wallet.
DeliveredAgainstPayment ==
    tokens = "delivered" =>
        /\ receiver = order.buyer /\ receiver # NoOne
        /\ \E t \in paid : t.amt = order.price

\* Once the order is in execution or closed it never returns to the market,
\* and a closed order is never executed again.
NoReopen ==
    [][/\ order.status \notin InMarket => order'.status \notin InMarket
       /\ order.status \in Closed => order'.status \in Closed]_order

\* The order implements the escrow's contract: tokens do not move while it is on
\* the market, they leave the wallet once, to the buyer or back to the seller,
\* and the seller is paid at most once, after a delivery.
Contract == INSTANCE EscrowContract WITH
    phase <- IF order.status \in InMarket THEN "market"
             ELSE IF order.status \in InExecution THEN "executing" ELSE "closed",
    goods <- CASE tokens = "seller" -> "out" [] tokens = "escrow" -> "held"
               [] tokens = "delivered" -> "sold" [] tokens = "returned" -> "back",
    settled <- chain["seller"] > 0

ImplementsContract == Contract!Spec

\* "FROM HERE, MEANS VALIDATION PASSED" (p2p-orders.service.ts:151): the order
\* in checkout was paid for by the buyer it names.
CheckoutValidated ==
    order.status = "CHECKOUT" =>
        \E t \in paid : t.from = order.buyer /\ t.amt = order.price

\* The cron job decides every order that waits for tokens.
TokensDecided ==
    order.status = "WAITING_FOR_TOKENS" ~> order.status # "WAITING_FOR_TOKENS"

\* A buyer's lock that has expired is resolved: released, bought or closed.
ExpiredLockResolved ==
    order.status = "WAITING_FOR_KAS" /\ expired
        ~> order.status \notin {"WAITING_FOR_KAS", "CHECKING_EXPIRED"}

\* An order whose swap or delist has started is closed in the end, however
\* often it has to wait for a lower fee.
ExecutionEnds == order.status \in InExecution ~> order.status \in Closed

=============================================================================
