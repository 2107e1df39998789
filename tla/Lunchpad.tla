------------------------------ MODULE Lunchpad ------------------------------
(***************************************************************************)
(* A lunchpad: a sale of KRC20 tokens in rounds.  The owner puts tokens in *)
(* the lunchpad's sender wallet and starts a round; wallets reserve units, *)
(* pay KAS to its receiver wallet and have the payment verified; a run     *)
(* sends the tokens of the verified orders, one after the other.           *)
(*                                                                         *)
(* Requests, the five-minute job and the runs nobody waits for are         *)
(* processes; every step is one database operation or one network call,    *)
(* and what a process read earlier (lp, ord, list, free) may be stale when *)
(* it acts.  Units are counted, not tokens: tokenPerUnit and kasPerUnit    *)
(* are the same in every round.                                            *)
(***************************************************************************)
EXTENDS Integers, FiniteSets, FiniteSetsExt, Functions

CONSTANTS Handlers,   \* concurrent requests of buyers, and un-awaited runs
          Owner,      \* the requests of the owner, one at a time
          Cron,       \* the process of the cron jobs
          Wallets,    \* wallets that may order
          NoOne,      \* no wallet
          Payments,   \* the KAS transfers wallets may send to the receiver wallet
          NoPayment,  \* userTransactionId not set
          MaxOrders,  \* bound on the orders of one behaviour
          MaxRounds,  \* bound on the rounds of one behaviour
          Supply,     \* the units the owner fills the sender wallet up to
          MinUnits,   \* minUnitsPerOrder
          MaxUnits,   \* maxUnitsPerOrder
          WalletMax,  \* maxUnitsPerWallet
          Timeouts,   \* whether the receipt of a transaction may not come in time
          Faults      \* whether processes crash and calls fail

Procs == Handlers \cup {Owner, Cron}
OrderIds == 1..MaxOrders

ASSUME ConstantsAssumption ==
    /\ Cron \notin Handlers \cup {Owner} /\ Owner \notin Handlers
    /\ NoOne \notin Wallets
    /\ NoPayment \notin Payments
    /\ \A t \in Payments : t.from \in Wallets /\ t.units \in Nat /\ t.joint \in BOOLEAN
    /\ {MaxOrders, MaxRounds, Supply, MinUnits, MaxUnits, WalletMax} \subseteq Nat
    /\ MinUnits > 0
    /\ Timeouts \in BOOLEAN /\ Faults \in BOOLEAN

LunchpadStatuses == {"INACTIVE", "ACTIVE", "NO_UNITS_LEFT", "SOLD_OUT", "STOPPING"}

\* "none" is an order not created yet.
OrderStatuses == {"none", "WAITING_FOR_KAS", "TOKENS_NOT_SENT", "COMPLETED", "ERROR",
                  "VERIFIED_AND_WAITING_FOR_PROCESSING", "PROCESSING"}

\* avail: availabeUnits, total: totalUnits, round: roundNumber, tokens:
\* currentTokensAmount in units, running: isRunning
Lunchpads == [status: LunchpadStatuses, avail: Int, total: Nat, round: Nat, tokens: Int,
              running: BOOLEAN]

\* tx: userTransactionId, txs: the recorded ids of the token transfer
Orders == [status: OrderStatuses, units: Nat, wallet: Wallets \cup {NoOne}, round: Nat,
           tx: Payments \cup {NoPayment}, txs: SUBSET {"commit", "reveal"}]

Labels == {"idle", "startTokens", "startStatus", "stopStatus", "openOrders", "inactive",
           "resLock", "resWallet", "resCommit", "verLunchpad", "verPayment", "verRecord",
           "verStatus", "canLunchpad", "canPayment", "canLock", "canOrder", "canUnits",
           "retOpen", "retMove", "wOrders", "wUsed", "wUtxos", "wMatch", "wCancel",
           "runRead", "runTokens", "runStart", "runFetch", "runOrder", "notifyCommit",
           "reduce", "submitCommit", "notifyReveal", "submitReveal", "received",
           "soldOut", "complete", "runError", "runStop"}

NoLunchpad == [status |-> "INACTIVE", avail |-> 0, total |-> 0, round |-> 0, tokens |-> 0,
               running |-> FALSE]
NoOrder == [status |-> "none", units |-> 0, wallet |-> NoOne, round |-> 0,
            tx |-> NoPayment, txs |-> {}]

\* status, round, n: of the lunchpad's document as last read, the status, the
\* round and the one number still needed; o: the order worked on; had: the
\* payment it held when read; tx: the payment to verify; w, u: wallet and units
\* asked for; list, again, free: the orders and payments of a loop; sold: what
\* the run learned of the units; back: where to go on after a cancellation.
Jobs == [pc: Labels, status: LunchpadStatuses, round: Nat, n: Int, o: OrderIds \cup {0},
         had: Payments \cup {NoPayment}, tx: Payments \cup {NoPayment},
         w: Wallets \cup {NoOne}, u: Nat, list: SUBSET OrderIds, again: SUBSET OrderIds,
         free: SUBSET Payments, sold: BOOLEAN, back: {"idle", "wCancel"}]

Idle == [pc |-> "idle", status |-> "INACTIVE", round |-> 0, n |-> 0, o |-> 0,
         had |-> NoPayment, tx |-> NoPayment, w |-> NoOne, u |-> 0, list |-> {},
         again |-> {}, free |-> {}, sold |-> FALSE, back |-> "idle"]

VARIABLES
    lp,      \* the lunchpad's document
    lock,    \* the open database transaction that wrote it, if any
    orders,  \* the documents of its orders
    paid,    \* every transfer ever sent to the receiver wallet (what the Kaspa API shows)
    inbox,   \* the receiver wallet's unspent outputs
    stock,   \* the units of tokens in the sender wallet
    sent,    \* how often the commit and the reveal of an order were sent
    proc     \* the local state of every process

book == <<lp, lock>>
world == <<paid, inbox, stock, sent>>
vars == <<lp, lock, orders, paid, inbox, stock, sent, proc>>

TypeOK ==
    /\ lp \in Lunchpads /\ lock \subseteq Procs
    /\ orders \in [OrderIds -> Orders]
    /\ paid \subseteq Payments /\ inbox \subseteq paid
    /\ stock \in Nat
    /\ sent \in [OrderIds -> [commit: Nat, reveal: Nat]]
    /\ proc \in [Procs -> Jobs]

\* createLunchpad: inactive, without units, before its first round.
Init ==
    /\ lp = NoLunchpad /\ lock = {}
    /\ orders = [o \in OrderIds |-> NoOrder]
    /\ paid = {} /\ inbox = {} /\ stock = 0
    /\ sent = [o \in OrderIds |-> [commit |-> 0, reveal |-> 0]]
    /\ proc = [p \in Procs |-> Idle]

-----------------------------------------------------------------------------
(* Shared steps *)

At(p, l) == proc[p].pc = l
Goto(p, l) == proc' = [proc EXCEPT ![p].pc = l]
End(p) == proc' = [proc EXCEPT ![p] = Idle]

\* A write to the lunchpad outside of a transaction waits for the one that holds it.
Write(doc) == lock = {} /\ lp' = doc /\ UNCHANGED lock

\* Mutant of Begin: the first statement of a transaction writes nothing, and holds nothing.
BeginUnlocked(p) == lock' = lock \cup {p} /\ UNCHANGED lp

\* The increment by zero is a write, since timestamps adds updatedAt to it: nobody else writes
\* the lunchpad before the transaction ends.  A transaction that finds it held conflicts, and is
\* tried again.
Begin(p) == lock = {} /\ lock' = {p} /\ UNCHANGED lp
Commit(p, doc) == p \in lock /\ lp' = doc /\ lock' = lock \ {p}
Abort(p) == lock' = lock \ {p} /\ UNCHANGED lp

\* Orders are created in the order of their ids (createdAt).
Oldest(S) == {o \in S : \A q \in S : o <= q}

\* End of a request, or of one cancellation of the five-minute job.
Return(p) ==
    proc' = [proc EXCEPT ![p] = [Idle EXCEPT !.pc = proc[p].back, !.back = proc[p].back,
                                             !.list = proc[p].list]]

\* transitionLunchpadOrderStatus: one findOneAndUpdate filtered on the status.
OrderTransition(o, required, new) ==
    /\ orders[o].status = required
    /\ orders' = [orders EXCEPT ![o].status = new]

\* getOrdersByRoundAndStatuses
OfRound(round, statuses) ==
    {o \in OrderIds : orders[o].round = round /\ orders[o].status \in statuses}

Ready == {"VERIFIED_AND_WAITING_FOR_PROCESSING", "PROCESSING"}
Open == {"WAITING_FOR_KAS", "ERROR"} \cup Ready

\* userTransactionId is unique over all orders.
Unused(t, o) == \A q \in OrderIds \ {o} : orders[q].tx # t

\* verifyPaymentTransaction, for the order as read
Pays(t, order) == t \in paid /\ t.from = order.wallet /\ t.units = order.units

\* The units of some orders together
Units(S) == SumFunctionOnSet([o \in OrderIds |-> orders[o].units], S)

\* getWalletBoughtUntisForLunchpad, over all rounds
Bought(w) ==
    Units({o \in OrderIds : orders[o].wallet = w /\ orders[o].status # "TOKENS_NOT_SENT"})

\* setLunchpadInactiveIfNoOrdersAndNotRunning, for a document just written
CloseIfStopping(p, doc) ==
    IF doc.status = "STOPPING"
    THEN proc' = [proc EXCEPT ![p] = [Idle EXCEPT !.pc = "openOrders", !.round = doc.round,
                                       !.list = proc[p].list, !.back = proc[p].back]]
    ELSE Return(p)

OpenOrders(p) ==
    /\ At(p, "openOrders")
    /\ IF OfRound(proc[p].round, Open) = {} THEN Goto(p, "inactive") ELSE Return(p)
    /\ UNCHANGED <<book, orders, world>>

\* stopLunchpadIfNotRunning: no error when its filter matches nothing.
Inactivate(p) ==
    /\ At(p, "inactive")
    /\ IF lp.status = "STOPPING" /\ ~lp.running
       THEN Write([lp EXCEPT !.status = "INACTIVE", !.avail = 0, !.total = 0])
       ELSE UNCHANGED book
    /\ Return(p) /\ UNCHANGED <<orders, world>>

-----------------------------------------------------------------------------
(* The owner: start and stop a round, retrieve funds. *)

StartLunchpad(p) ==
    /\ At(p, "idle") /\ p = Owner
    /\ lp.status = "INACTIVE" /\ lp.round < MaxRounds
    /\ proc' = [proc EXCEPT ![p] = [Idle EXCEPT !.pc = "startTokens", !.round = lp.round]]
    /\ UNCHANGED <<book, orders, world>>

StartTokens(p) ==
    /\ At(p, "startTokens")
    /\ IF stock >= MinUnits
       THEN proc' = [proc EXCEPT ![p].pc = "startStatus", ![p].n = stock]
       ELSE End(p)
    /\ UNCHANGED <<book, orders, world>>

\* The round number comes from the document read, the status is compared.
StartStatus(p) ==
    /\ At(p, "startStatus")
    /\ IF lp.status = "INACTIVE"
       THEN Write([lp EXCEPT !.status = "ACTIVE", !.avail = proc[p].n, !.total = proc[p].n,
                             !.tokens = proc[p].n, !.round = proc[p].round + 1])
       ELSE UNCHANGED book
    /\ End(p) /\ UNCHANGED <<orders, world>>

StopLunchpad(p) ==
    /\ At(p, "idle") /\ p = Owner
    /\ lp.status \in {"ACTIVE", "SOLD_OUT", "NO_UNITS_LEFT"}
    /\ proc' = [proc EXCEPT ![p] = [Idle EXCEPT !.pc = "stopStatus", !.status = lp.status]]
    /\ UNCHANGED <<book, orders, world>>

\* A lunchpad read as NO_UNITS_LEFT is required to be ACTIVE.
StopStatus(p) ==
    /\ At(p, "stopStatus")
    /\ \/ /\ lp.status = IF proc[p].status = "SOLD_OUT" THEN "SOLD_OUT" ELSE "ACTIVE"
          /\ Write([lp EXCEPT !.status = "STOPPING"])
          /\ CloseIfStopping(p, lp')
       \/ /\ lp.status # IF proc[p].status = "SOLD_OUT" THEN "SOLD_OUT" ELSE "ACTIVE"
          /\ End(p) /\ UNCHANGED book
    /\ UNCHANGED <<orders, world>>

RetrieveFunds(p) ==
    /\ At(p, "idle") /\ p = Owner
    /\ lp.status \in {"INACTIVE", "SOLD_OUT"}
    /\ proc' = [proc EXCEPT ![p] = [Idle EXCEPT !.pc = "retOpen", !.round = lp.round]]
    /\ UNCHANGED <<book, orders, world>>

RetrieveOpenOrders(p) ==
    /\ At(p, "retOpen")
    /\ IF OfRound(proc[p].round, Open) = {} THEN Goto(p, "retMove") ELSE End(p)
    /\ UNCHANGED <<book, orders, world>>

\* The request names the sender or the receiver wallet.
RetrieveMove(p) ==
    /\ At(p, "retMove")
    /\ \/ stock' = 0 /\ UNCHANGED inbox
       \/ inbox' = {} /\ UNCHANGED stock
    /\ End(p) /\ UNCHANGED <<book, orders, paid, sent>>

-----------------------------------------------------------------------------
(* createLunchpadOrder: reserve units, in a transaction that holds the        *)
(* lunchpad; but the wallet's orders are read, and the order is created,      *)
(* outside of it.                                                             *)

CreateOrder(p, w, u) ==
    /\ At(p, "idle") /\ p \in Handlers
    /\ lp.status = "ACTIVE" /\ MinUnits <= u /\ u <= MaxUnits
    /\ OfRound(0, {"none"}) # {}
    /\ proc' = [proc EXCEPT ![p] = [Idle EXCEPT !.pc = "resLock", !.w = w, !.u = u]]
    /\ UNCHANGED <<book, orders, world>>

\* A request that would exceed MaxOrders is not made.
ReserveLock(p) ==
    /\ At(p, "resLock")
    /\ IF OfRound(0, {"none"}) = {} THEN End(p) /\ UNCHANGED book
       ELSE proc' = [proc EXCEPT ![p].pc = "resWallet", ![p].n = lp.avail] /\ Begin(p)
    /\ UNCHANGED <<orders, world>>

\* Mutant of Granted: what the wallet may still buy is not looked at.
GrantedUnits(p) == Min({proc[p].u, proc[p].n})

\* What is granted: at most what is asked for, what is left, and what the wallet may still buy.
Granted(p) == Min({proc[p].u, proc[p].n, WalletMax - Bought(proc[p].w)})

ReserveWallet(p) ==
    /\ At(p, "resWallet")
    /\ IF WalletMax > Bought(proc[p].w) /\ Granted(p) # 0
       THEN proc' = [proc EXCEPT ![p].pc = "resCommit", ![p].n = Granted(p)] /\ UNCHANGED book
       ELSE End(p) /\ Abort(p)
    /\ UNCHANGED <<orders, world>>

NewOrder(p) ==
    \E o \in Oldest(OfRound(0, {"none"})) :
        orders' = [orders EXCEPT ![o] = [NoOrder EXCEPT
                     !.status = "WAITING_FOR_KAS", !.units = proc[p].n,
                     !.wallet = proc[p].w, !.round = lp.round]]

\* The order is created outside the transaction, and the commit is not awaited.
ReserveCommit(p) ==
    /\ At(p, "resCommit")
    /\ Commit(p, [lp EXCEPT !.avail = @ - proc[p].n,
                 !.status = IF lp.avail - proc[p].n < MinUnits THEN "NO_UNITS_LEFT" ELSE @])
    /\ NewOrder(p) /\ End(p) /\ UNCHANGED world

\* A crash or a failed commit after the order was created.
ReserveLost(p) ==
    /\ Faults /\ At(p, "resCommit") /\ p \in lock
    /\ NewOrder(p) /\ End(p) /\ Abort(p) /\ UNCHANGED world

-----------------------------------------------------------------------------
(* verifyOrderAndSetToVerified *)

VerifyOrder(p, o, t) ==
    /\ At(p, "idle") /\ p \in Handlers
    /\ orders[o].status = "WAITING_FOR_KAS" /\ t \in paid
    /\ proc' = [proc EXCEPT ![p] = [Idle EXCEPT !.pc = "verLunchpad", !.o = o,
                                                !.had = orders[o].tx, !.tx = t]]
    /\ UNCHANGED <<book, orders, world>>

Selling == lp.status \in {"ACTIVE", "NO_UNITS_LEFT"}

VerifyLunchpad(p) ==
    /\ At(p, "verLunchpad")
    /\ IF Selling /\ lp.round = orders[proc[p].o].round THEN Goto(p, "verPayment") ELSE End(p)
    /\ UNCHANGED <<book, orders, world>>

\* Mutant of VerifyPayment: the sender of the transfer is not compared.
VerifyAmount(p) ==
    /\ At(p, "verPayment")
    /\ IF proc[p].tx \in paid /\ proc[p].tx.units = orders[proc[p].o].units
       THEN Goto(p, IF proc[p].had = NoPayment THEN "verRecord" ELSE "verStatus")
       ELSE End(p)
    /\ UNCHANGED <<book, orders, world>>

VerifyPayment(p) ==
    /\ At(p, "verPayment")
    /\ IF Pays(proc[p].tx, orders[proc[p].o])
       THEN Goto(p, IF proc[p].had = NoPayment THEN "verRecord" ELSE "verStatus")
       ELSE End(p)
    /\ UNCHANGED <<book, orders, world>>

\* Mutant of VerifyStatus: the payment's sender is stored once more, as its id.
VerifyStatusSender(p) ==
    /\ At(p, "verStatus")
    /\ orders' = [orders EXCEPT ![proc[p].o].tx = orders[proc[p].o].wallet]
    /\ End(p) /\ UNCHANGED <<book, world>>

\* updateOrderUserTransactionId: filtered neither on the status nor on the id it overwrites.
VerifyRecord(p) ==
    /\ At(p, "verRecord")
    /\ IF Unused(proc[p].tx, proc[p].o)
       THEN /\ orders' = [orders EXCEPT ![proc[p].o].tx = proc[p].tx]
            /\ proc' = [proc EXCEPT ![p] = [Idle EXCEPT !.pc = "verStatus", !.o = proc[p].o]]
       ELSE End(p) /\ UNCHANGED orders
    /\ UNCHANGED <<book, world>>

VerifyStatus(p) ==
    /\ At(p, "verStatus")
    /\ \/ OrderTransition(proc[p].o, "WAITING_FOR_KAS", "VERIFIED_AND_WAITING_FOR_PROCESSING")
       \/ orders[proc[p].o].status # "WAITING_FOR_KAS" /\ UNCHANGED orders
    /\ End(p) /\ UNCHANGED <<book, world>>

-----------------------------------------------------------------------------
(* cancelOrder, and the cancellations of the five-minute job *)

CancelOrder(p, o) ==
    /\ At(p, "idle") /\ p \in Handlers
    /\ orders[o].status = "WAITING_FOR_KAS"
    /\ proc' = [proc EXCEPT ![p] = [Idle EXCEPT !.pc = "canLunchpad", !.o = o, !.had = orders[o].tx]]
    /\ UNCHANGED <<book, orders, world>>

CancelLunchpad(p) ==
    /\ At(p, "canLunchpad")
    /\ IF Selling /\ lp.round = orders[proc[p].o].round THEN Goto(p, "canPayment") ELSE End(p)
    /\ UNCHANGED <<book, orders, world>>

\* Only a payment already recorded on the order stops its cancellation.
CancelPayment(p) ==
    /\ At(p, "canPayment")
    /\ Goto(p, IF Pays(proc[p].had, orders[proc[p].o]) THEN "verStatus" ELSE "canLock")
    /\ UNCHANGED <<book, orders, world>>

CancelLock(p) ==
    /\ At(p, "canLock")
    /\ Goto(p, "canOrder")
    /\ Begin(p) /\ UNCHANGED <<orders, world>>

\* Mutant of CancelStatus: the order is cancelled whatever its status.
CancelUnconditionally(p) ==
    /\ At(p, "canOrder")
    /\ orders' = [orders EXCEPT ![proc[p].o].status = "TOKENS_NOT_SENT"]
    /\ Goto(p, "canUnits") /\ UNCHANGED <<book, world>>

\* Outside the transaction: kept when the transaction is aborted.
CancelStatus(p) ==
    /\ At(p, "canOrder")
    /\ \/ /\ OrderTransition(proc[p].o, "WAITING_FOR_KAS", "TOKENS_NOT_SENT")
          /\ Goto(p, "canUnits") /\ UNCHANGED book
       \/ /\ orders[proc[p].o].status # "WAITING_FOR_KAS"
          /\ Return(p) /\ Abort(p) /\ UNCHANGED orders
    /\ UNCHANGED world

\* Mutant of CancelUnits: the lunchpad stays NO_UNITS_LEFT.
CancelUnitsOnly(p) ==
    /\ At(p, "canUnits")
    /\ Commit(p, [lp EXCEPT !.avail = @ + orders[proc[p].o].units]) /\ CloseIfStopping(p, lp')
    /\ UNCHANGED <<orders, world>>

\* The units go to the current round, whatever the order's.
CancelUnits(p) ==
    /\ At(p, "canUnits")
    /\ LET units == orders[proc[p].o].units
       IN Commit(p, [lp EXCEPT !.avail = @ + units,
                       !.status = IF @ = "NO_UNITS_LEFT" /\ lp.avail + units >= MinUnits
                                  THEN "ACTIVE" ELSE @])
    /\ CloseIfStopping(p, lp')
    /\ UNCHANGED <<orders, world>>

-----------------------------------------------------------------------------
(* handleWaitingKasLunchpadOrders, every five minutes: match transfers nobody *)
(* confirmed with waiting orders, cancel the others, then start a run.        *)

WaitingKasOrders ==
    /\ At(Cron, "idle")
    /\ \E o \in OrderIds : orders[o].status = "WAITING_FOR_KAS"
    /\ proc' = [proc EXCEPT ![Cron] = [Idle EXCEPT !.pc = "wOrders", !.back = "wCancel"]]
    /\ UNCHANGED <<book, orders, world>>

\* All waiting orders, of every round.
WaitingOrders ==
    /\ At(Cron, "wOrders")
    /\ proc' = [proc EXCEPT ![Cron].pc = "wUsed",
                            ![Cron].list = {o \in OrderIds : orders[o].status = "WAITING_FOR_KAS"}]
    /\ UNCHANGED <<book, orders, world>>

UsedTransactions ==
    /\ At(Cron, "wUsed")
    /\ proc' = [proc EXCEPT ![Cron].pc = "wUtxos", ![Cron].free = {t \in Payments : Unused(t, 0)}]
    /\ UNCHANGED <<book, orders, world>>

FreeUtxos ==
    /\ At(Cron, "wUtxos")
    /\ proc' = [proc EXCEPT ![Cron].pc = "wMatch", ![Cron].free = @ \cap inbox]
    /\ UNCHANGED <<book, orders, world>>

\* A transfer whose sender is not told (joint) ends the job.  The transfers
\* come in any order: when they were sent is not kept.
MatchUtxo ==
    /\ At(Cron, "wMatch")
    /\ \/ proc[Cron].free = {} /\ Goto(Cron, "wCancel") /\ UNCHANGED orders
       \/ \E t \in proc[Cron].free :
            LET matching == Oldest({o \in proc[Cron].list : Pays(t, orders[o])})
                done == {o \in matching : Unused(t, o) /\ orders[o].status = "WAITING_FOR_KAS"}
            IN \/ t.joint /\ End(Cron) /\ UNCHANGED orders
               \/ /\ ~t.joint
                  /\ orders' = [o \in OrderIds |->
                       IF o \in done
                       THEN [orders[o] EXCEPT !.tx = t, !.status = "VERIFIED_AND_WAITING_FOR_PROCESSING"]
                       ELSE orders[o]]
                  /\ proc' = [proc EXCEPT ![Cron].free = @ \ {t}, ![Cron].list = @ \ done]
    /\ UNCHANGED <<book, world>>

\* Mutant of CancelWaiting: the unpaid orders are left as they are.
CancelNone ==
    /\ At(Cron, "wCancel")
    /\ proc' = [proc EXCEPT ![Cron] = [Idle EXCEPT !.pc = "runRead"]]
    /\ UNCHANGED <<book, orders, world>>

CancelWaiting ==
    /\ At(Cron, "wCancel")
    /\ IF proc[Cron].list = {}
       THEN proc' = [proc EXCEPT ![Cron] = [Idle EXCEPT !.pc = "runRead"]]
       ELSE \E o \in Oldest(proc[Cron].list) :
              proc' = [proc EXCEPT ![Cron].pc = "canLock", ![Cron].o = o, ![Cron].list = @ \ {o}]
    /\ UNCHANGED <<book, orders, world>>

-----------------------------------------------------------------------------
(* startLunchpadProcessingOrdersIfNeeded: a run. *)

\* Mutant of Runnable: the orders of a lunchpad that is being stopped are forgotten.
RunnableOnSale == lp.status \in {"ACTIVE", "NO_UNITS_LEFT"} /\ ~lp.running

Runnable == lp.status \in {"ACTIVE", "STOPPING", "NO_UNITS_LEFT"} /\ ~lp.running

EnterRun(p) ==
    proc' = [proc EXCEPT ![p] = [Idle EXCEPT !.pc = "runTokens", !.status = lp.status,
                                             !.round = lp.round, !.n = lp.tokens]]

\* startAllLunchpadsOrdersProcessing, every twenty seconds: lunchpads with a
\* ready order of any round; it waits for none of the runs it starts.
StartProcessing(p) ==
    /\ At(p, "idle") /\ p # Owner /\ Runnable
    /\ \E o \in OrderIds : orders[o].status \in Ready
    /\ EnterRun(p)
    /\ UNCHANGED <<book, orders, world>>

RunRead(p) ==
    /\ At(p, "runRead")
    /\ IF Runnable THEN EnterRun(p) ELSE End(p)
    /\ UNCHANGED <<book, orders, world>>

\* verifyLunchpadTokensAmount
RunTokens(p) ==
    /\ At(p, "runTokens")
    /\ IF stock >= proc[p].n THEN Goto(p, "runStart") ELSE End(p)
    /\ UNCHANGED <<book, orders, world>>

\* Mutant of RunStart: whether a run is going on was asked before, and is not asked again.
RunStartAnyway(p) ==
    /\ At(p, "runStart")
    /\ IF lp.status = proc[p].status
       THEN /\ Write([lp EXCEPT !.running = TRUE])
            /\ proc' = [proc EXCEPT ![p] = [Idle EXCEPT !.pc = "runFetch", !.round = proc[p].round]]
       ELSE End(p) /\ UNCHANGED book
    /\ UNCHANGED <<orders, world>>

\* setLunchpadIsRunning(true): the status must be the one read.
RunStart(p) ==
    /\ At(p, "runStart")
    /\ IF ~lp.running /\ lp.status = proc[p].status
       THEN /\ Write([lp EXCEPT !.running = TRUE])
            /\ proc' = [proc EXCEPT ![p] = [Idle EXCEPT !.pc = "runFetch", !.round = proc[p].round]]
       ELSE End(p) /\ UNCHANGED book
    /\ UNCHANGED <<orders, world>>

RunFetch(p) ==
    /\ At(p, "runFetch")
    /\ LET ready == OfRound(proc[p].round, Ready)
       IN proc' = [proc EXCEPT ![p].pc = IF ready = {} THEN "runStop" ELSE "runOrder",
                               ![p].list = ready,
                               ![p].again = {o \in ready : orders[o].status = "PROCESSING"}]
    /\ UNCHANGED <<book, orders, world>>

\* Continue with the next order of the list, or fetch a new list.
NextOrder(p) ==
    LET rest == proc[p].list \ {proc[p].o}
    IN proc' = [proc EXCEPT ![p].pc = IF rest = {} THEN "runFetch" ELSE "runOrder",
                            ![p].list = rest, ![p].o = 0, ![p].sold = FALSE]

\* Mutant of RunOrder: an order that failed between its transactions starts again.
RunOrderAgain(p) ==
    /\ At(p, "runOrder")
    /\ \E o \in Oldest(proc[p].list) :
       LET required == IF o \in proc[p].again THEN "PROCESSING"
                       ELSE "VERIFIED_AND_WAITING_FOR_PROCESSING"
       IN \/ /\ OrderTransition(o, required, "PROCESSING")
             /\ proc' = [proc EXCEPT ![p].o = o, ![p].pc = "notifyCommit"]
          \/ /\ orders[o].status # required
             /\ proc' = [proc EXCEPT ![p].o = o, ![p].pc = "runError"]
             /\ UNCHANGED orders
    /\ UNCHANGED <<book, world>>

\* setOrderStatusToProcessing, oldest order first.  A recorded commit is not
\* sent again, its receipt is awaited.
RunOrder(p) ==
    /\ At(p, "runOrder")
    /\ \E o \in Oldest(proc[p].list) :
       LET required == IF o \in proc[p].again THEN "PROCESSING"
                       ELSE "VERIFIED_AND_WAITING_FOR_PROCESSING"
       IN \/ /\ OrderTransition(o, required, "PROCESSING")
             /\ proc' = [proc EXCEPT ![p].o = o,
                           ![p].pc = IF "commit" \in orders[o].txs THEN "received" ELSE "notifyCommit"]
          \/ /\ orders[o].status # required
             /\ proc' = [proc EXCEPT ![p].o = o, ![p].pc = "runError"]
             /\ UNCHANGED orders
    /\ UNCHANGED <<book, world>>

\* verifyTransactionReceivedOnKaspaApi with stopOnApplicationClosing: it throws
\* ApplicationIsClosingError before it asks, and the loop over the list breaks.
AwaitReceipt(p) ==
    /\ At(p, "received")
    /\ proc' = [proc EXCEPT ![p].pc = "runFetch", ![p].list = {}, ![p].o = 0, ![p].sold = FALSE]
    /\ UNCHANGED <<book, orders, world>>

\* Mutant of NotifyCommit: the update answers the document as it is now.
NotifyCommitNew(p) ==
    /\ At(p, "notifyCommit")
    /\ orders' = [orders EXCEPT ![proc[p].o].txs = {"commit"}]
    /\ Goto(p, "submitCommit")
    /\ UNCHANGED <<book, world>>

\* The id is recorded before the transaction is submitted.  The update answers
\* the document as it was: without a commit the first time.
NotifyCommit(p) ==
    /\ At(p, "notifyCommit")
    /\ orders' = [orders EXCEPT ![proc[p].o].txs = {"commit"}]
    /\ Goto(p, IF "commit" \in orders[proc[p].o].txs THEN "submitCommit" ELSE "reduce")
    /\ UNCHANGED <<book, world>>

\* reduceLunchpadTokenCurrentAmount; the document it answers decides later
\* whether the lunchpad is sold out.
ReduceTokens(p) ==
    /\ At(p, "reduce")
    /\ Write([lp EXCEPT !.tokens = @ - orders[proc[p].o].units])
    /\ proc' = [proc EXCEPT ![p].pc = "submitCommit",
                            ![p].sold = lp.avail < MinUnits /\ lp.status = "NO_UNITS_LEFT"]
    /\ UNCHANGED <<orders, world>>

\* The receipt of a submitted transaction does not come in time.
Missed(p) == Timeouts /\ Goto(p, "received")

SubmitCommit(p) ==
    /\ At(p, "submitCommit")
    /\ sent' = [sent EXCEPT ![proc[p].o].commit = @ + 1]
    /\ Goto(p, "notifyReveal") \/ Missed(p)
    /\ UNCHANGED <<book, orders, paid, inbox, stock>>

NotifyReveal(p) ==
    /\ At(p, "notifyReveal")
    /\ orders' = [orders EXCEPT ![proc[p].o].txs = {"commit", "reveal"}]
    /\ Goto(p, "submitReveal")
    /\ UNCHANGED <<book, world>>

\* A transfer of more than the wallet holds is mined, and moves nothing.
SubmitReveal(p) ==
    /\ At(p, "submitReveal")
    /\ sent' = [sent EXCEPT ![proc[p].o].reveal = @ + 1]
    /\ stock' = IF stock >= orders[proc[p].o].units THEN stock - orders[proc[p].o].units ELSE stock
    /\ Goto(p, IF proc[p].sold THEN "soldOut" ELSE "complete") \/ Missed(p)
    /\ UNCHANGED <<book, orders, paid, inbox>>

\* checkIfLunchpadNeedsStatusChangeAfterOrderCompleted, when the document answered
\* by ReduceTokens had no units left; for a stopping one nothing happens, since the
\* order itself is still open.
SoldOut(p) ==
    /\ At(p, "soldOut")
    /\ IF lp.status = "NO_UNITS_LEFT"
       THEN Write([lp EXCEPT !.status = "SOLD_OUT"]) /\ Goto(p, "complete")
       ELSE Goto(p, "runError") /\ UNCHANGED book
    /\ UNCHANGED <<orders, world>>

Complete(p) ==
    /\ At(p, "complete")
    /\ \/ OrderTransition(proc[p].o, "PROCESSING", "COMPLETED") /\ NextOrder(p)
       \/ orders[proc[p].o].status # "PROCESSING" /\ Goto(p, "runError") /\ UNCHANGED orders
    /\ UNCHANGED <<book, world>>

\* setProcessingError; an order no longer PROCESSING ends the run.
RunError(p) ==
    /\ At(p, "runError")
    /\ \/ OrderTransition(proc[p].o, "PROCESSING", "ERROR") /\ NextOrder(p)
       \/ orders[proc[p].o].status # "PROCESSING" /\ Goto(p, "runStop") /\ UNCHANGED orders
    /\ UNCHANGED <<book, world>>

\* A failed call, too little KAS in the sender wallet, a rejected transaction.
RunFails(p) ==
    /\ Faults
    /\ proc[p].pc \in {"notifyCommit", "reduce", "submitCommit", "notifyReveal", "submitReveal",
                       "soldOut", "complete"}
    /\ Goto(p, "runError")
    /\ UNCHANGED <<book, orders, world>>

\* The run ends early when the application is closing.
RunClosing(p) ==
    /\ Faults /\ proc[p].pc \in {"runFetch", "runOrder"}
    /\ Goto(p, "runStop")
    /\ UNCHANGED <<book, orders, world>>

\* stopRunningLunchpad
RunStop(p) ==
    /\ At(p, "runStop")
    /\ IF lp.running
       THEN /\ Write([lp EXCEPT !.running = FALSE])
            /\ proc' = [proc EXCEPT ![p] = IF lp.status = "STOPPING"
                          THEN [Idle EXCEPT !.pc = "openOrders", !.round = lp.round] ELSE Idle]
       ELSE End(p) /\ UNCHANGED book
    /\ UNCHANGED <<orders, world>>

-----------------------------------------------------------------------------
(* The world *)

Deposit ==
    /\ stock < Supply /\ stock' = Supply
    /\ UNCHANGED <<book, orders, paid, inbox, sent, proc>>

Pay(t) ==
    /\ t \notin paid
    /\ paid' = paid \cup {t} /\ inbox' = inbox \cup {t}
    /\ UNCHANGED <<book, orders, stock, sent, proc>>

\* The process crashes, or a call outside a run fails.
Stop(p) ==
    /\ Faults /\ ~At(p, "idle")
    /\ End(p) /\ Abort(p) /\ UNCHANGED <<orders, world>>

-----------------------------------------------------------------------------
(* The system *)

Requests(p) ==
    \/ StartLunchpad(p) \/ StopLunchpad(p) \/ RetrieveFunds(p)
    \/ \E w \in Wallets, u \in MinUnits..MaxUnits : CreateOrder(p, w, u)
    \/ \E o \in OrderIds : CancelOrder(p, o) \/ \E t \in paid : VerifyOrder(p, o, t)

OwnerSteps(p) ==
    \/ StartTokens(p) \/ StartStatus(p) \/ StopStatus(p) \/ OpenOrders(p) \/ Inactivate(p)
    \/ RetrieveOpenOrders(p) \/ RetrieveMove(p)

OrderSteps(p) ==
    \/ ReserveLock(p) \/ ReserveWallet(p) \/ ReserveCommit(p)
    \/ VerifyLunchpad(p) \/ VerifyPayment(p) \/ VerifyRecord(p) \/ VerifyStatus(p)
    \/ CancelLunchpad(p) \/ CancelPayment(p) \/ CancelLock(p) \/ CancelStatus(p) \/ CancelUnits(p)

WaitingSteps == WaitingOrders \/ UsedTransactions \/ FreeUtxos \/ MatchUtxo \/ CancelWaiting

RunSteps(p) ==
    \/ RunRead(p) \/ RunTokens(p) \/ RunStart(p) \/ RunFetch(p) \/ RunOrder(p) \/ AwaitReceipt(p)
    \/ NotifyCommit(p) \/ ReduceTokens(p) \/ SubmitCommit(p) \/ NotifyReveal(p) \/ SubmitReveal(p)
    \/ SoldOut(p) \/ Complete(p) \/ RunError(p) \/ RunStop(p)

Failures(p) == ReserveLost(p) \/ RunFails(p) \/ RunClosing(p) \/ Stop(p)

Continue(p) == OwnerSteps(p) \/ OrderSteps(p) \/ RunSteps(p)

Next ==
    \/ \E p \in Procs : Requests(p) \/ StartProcessing(p) \/ Continue(p) \/ Failures(p)
    \/ WaitingKasOrders \/ WaitingSteps
    \/ Deposit \/ \E t \in Payments : Pay(t)

Spec == Init /\ [][Next]_vars

\* Started work goes on, and both cron jobs are scheduled again and again.
\* Requests, transfers, deposits and failures need not happen.
Fairness ==
    /\ \A p \in Procs : WF_vars(Continue(p))
    /\ WF_vars(WaitingSteps)
    /\ SF_vars(WaitingKasOrders) /\ SF_vars(StartProcessing(Cron))

FairSpec == Spec /\ Fairness

-----------------------------------------------------------------------------
(* Properties *)

Running(p) ==
    proc[p].pc \in {"runFetch", "runOrder", "notifyCommit", "reduce", "submitCommit",
                    "notifyReveal", "submitReveal", "received", "soldOut", "complete",
                    "runError", "runStop"}

\* At most one run at a time sends tokens, it holds isRunning, and no
\* round ends under it.
RunExclusion ==
    \A p \in Procs : Running(p) =>
        /\ lp.running /\ lp.status # "INACTIVE"
        /\ \A q \in Procs : Running(q) => q = p

\* The tokens of an order are sent at most once, the reveal after the commit,
\* whatever times out, crashes or is processed again.
TokensSentOnce ==
    \A o \in OrderIds : sent[o].commit <= 1 /\ sent[o].reveal <= sent[o].commit

\* An order that was verified holds a payment of its wallet for its units, and no
\* payment is held by two orders; tokens are sent for verified orders only.
PaidFor ==
    \A o \in OrderIds :
        /\ orders[o].status \in Ready \cup {"COMPLETED", "ERROR"} =>
              Pays(orders[o].tx, orders[o]) /\ Unused(orders[o].tx, o)
        /\ sent[o].commit > 0 => orders[o].status \in {"PROCESSING", "COMPLETED", "ERROR"}

\* The units of a round are never sold twice: nobody is sold units that are
\* not there, and those left and those of the orders not cancelled are no more
\* than those the round started with.
NoOversell ==
    /\ lp.avail >= 0
    /\ lp.total > 0 =>
        lp.avail + Units(OfRound(lp.round, OrderStatuses \ {"none", "TOKENS_NOT_SENT"}))
            <= lp.total

\* No wallet gets more than maxUnitsPerWallet, however many orders it makes at once.
WalletLimit == \A w \in Wallets : Bought(w) <= WalletMax

\* The status follows the units: active means an order can be made, and no
\* units left that none can.
StatusFollowsUnits ==
    /\ lp.status = "ACTIVE" => lp.avail >= MinUnits
    /\ lp.status = "NO_UNITS_LEFT" => lp.avail < MinUnits

\* currentTokensAmount has been reduced once for every order of the round with a
\* recorded commit, but for one whose reduction is the next step.
CountedOnce ==
    lp.total > 0 =>
        lp.tokens = lp.total
            - Units({o \in OfRound(lp.round, OrderStatuses) :
                /\ "commit" \in orders[o].txs
                /\ \A p \in Procs : ~(At(p, "reduce") /\ proc[p].o = o)})

\* Every order goes the way of the sale's contract.
Sale == INSTANCE UnitSale WITH
    stage <- [o \in OrderIds |->
                CASE orders[o].status = "none" -> "none"
                  [] orders[o].status = "WAITING_FOR_KAS" -> "reserved"
                  [] orders[o].status = "TOKENS_NOT_SENT" -> "released"
                  [] OTHER -> "sold"],
    claim <- [o \in OrderIds |->
                IF orders[o].status \in {"none", "WAITING_FOR_KAS", "TOKENS_NOT_SENT"}
                THEN NoPayment ELSE orders[o].tx],
    delivered <- {o \in OrderIds : sent[o].reveal > 0}

ImplementsSale == Sale!Spec

\* "Temporary status when there are no units left, but orders are not yet
\* final" (lunchpad-statuses.enum.ts:4) is NO_UNITS_LEFT: once the lunchpad is sold
\* out no order of the round waits to be paid or processed.
SoldOutFinal ==
    lp.status = "SOLD_OUT" =>
        OfRound(lp.round, {"WAITING_FOR_KAS", "VERIFIED_AND_WAITING_FOR_PROCESSING"}) = {}

\* An order whose commit was sent does not stay in processing: the receipt
\* that did not come in time is asked for again.
ProcessingEnds ==
    \A o \in OrderIds : orders[o].status = "PROCESSING" ~> orders[o].status # "PROCESSING"

\* The five-minute job verifies or cancels every order that waits.
WaitingResolved ==
    \A o \in OrderIds : orders[o].status = "WAITING_FOR_KAS" ~> orders[o].status # "WAITING_FOR_KAS"

\* A verified order of the current round is processed, unless the round is over
\* before: the lunchpad declared sold out, or stopped while the order was reserved.
VerifiedProcessed ==
    \A o \in OrderIds :
        orders[o].status = "VERIFIED_AND_WAITING_FOR_PROCESSING" /\ orders[o].round = lp.round
            ~> \/ orders[o].status \in {"COMPLETED", "ERROR"}
               \/ lp.status \in {"SOLD_OUT", "INACTIVE"}

=============================================================================
