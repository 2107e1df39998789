# A TLA+ model of the Kaspa trade service

The service (`src/src/`, NestJS over MongoDB and the Kaspa network) runs an escrow market for
KRC20 tokens: sellers deposit tokens in a temporary wallet the service holds the key of, buyers
send KAS to the same wallet, and the service swaps the two on the chain. Around that market it
runs lunchpads (token sales in rounds), batch mints, an off-chain (PSKT) order book and
withdrawals.

This directory models it in TLA+, checks the models with TLC and proves the most important
theorems with TLAPS. `PROJECT.json` maps each definition to the lines it models, lists the runs,
the mutants that show each property can fail, the hazards of the code, the findings and the
theorems. Paths below are relative to `src/src/modules/backend/`.

## 1. Inventory

| component | state | operations | hard behaviour |
|---|---|---|---|
| **P2P order book** `providers/p2p.provider.ts`, `services/p2p-orders.service.ts`, `repositories/sell-orders-book.repository.ts`, `facades/kaspa.facade.ts` | an order document: status, buyer, price, `isDelist`, `expiresAt`, ids of the four transactions; the order's temporary wallet on the chain | create, confirmSell, buy, confirmBuy, releaseBuyLock, removeFromMarketplace, update, relist, confirmDelist; cron: low-fee orders, expired locks, orders waiting for tokens | handlers run concurrently and un-awaited; everything read may be stale; status writes are partly conditional, partly not; crashes and time-outs in the middle of a swap |
| **Lunchpad** `providers/lunchpad.provider.ts`, `services/lunchpad.service.ts`, `repositories/lunchpad.repository.ts` | lunchpad: status, `isRunning`, available units, current tokens, round; orders with a status each | create, start, stop, order, verify, cancel, process, retrieve funds; cron: waiting orders, unclaimed transfers | units reserved in a database transaction the order is created outside of; an un-awaited commit; processing started by whoever wins a compare-and-set |
| **Batch mint** `providers/batch-mint.provider.ts`, `facades/kaspa.facade.ts` | batch: status, mint progress, transaction ids | create, validate and start a pod, run the job, cancel; cron: waiting for KAS | the job is another process; it resumes from its records; unconditional error statuses |
| **KRC20 executor** `services/kaspa-network/kaspa-network-actions.service.ts`, `...-transactions-manager.service.ts` | transaction ids handed back to the caller | commit, reveal, transfers, send-all | retries, confirmation time-outs, fee limit |
| **P2P v2 orders** `providers/p2p-v2.provider.ts`, `services/p2p-orders-v2.service.ts` | order status, buyer, id of the sending transaction; the listing output on the chain | create, verify (lock, search, decide or reopen) | `VERIFYING` as a lock, no way back after a crash; one output behind several orders; a late indexer |
| **Withdrawals** `providers/withdrawal.provider.ts`, `services/withdrawals.service.ts` | withdrawal status; the outputs of the one withdrawal wallet | create, pay, complete or refuse | balance check and transfer are not atomic; pending outputs; a replaced balance promise |
| **Connection manager, transaction watchers** `services/kaspa-network/` | current client and promise, the flag `isTryingToConnect`; a static map of watchers per address | connect with a time-out, subscribe, wait for a transaction | late answers, shared promise, shared subscriptions, reconnections |
| **Important promises, shutdown** `important-promises-manager/`, `src/src/main.ts` | pending promises, closing flag, the timer | add, wait, close | runs that begin while the signal comes; a promise that is never resolved |
| **runOnce** `cron-jobs/base-cron-job.ts` | running flags | run a job unless it runs | in-process only; the runs a job starts outlive it |
| **Amounts** `services/kaspa-network/kaspa-network-actions.service.ts` | | what a batch is asked for, commissions, fee limits | being short by a little at the end of a batch |
| retry helper, wallet sequence, base repository | small | | boundary values |
| controllers, guards, transformers, DTOs, API clients, notifications, management | none of their own | | not modelled: I/O, formatting, operator overrides |

**Interaction.** One or more API processes serve requests, one CRON process runs the jobs, JOB pods
run batch mints. They share only MongoDB documents and the wallets on the chain; within a process,
every `await` lets another handler run. Nothing locks an order but its `status` field: a
transition is one `findOneAndUpdate` filtered on the status it requires
(`transitionOrderStatus`), and a few writes (`setUnknownMoneyErrorStatus`, `setSwapError`,
`setDelistError`, `setOrderCompleted`, the recorded transactions) are not filtered at all.

**What must hold.**
- P2P order book: one execution at a time; no transaction sent twice; tokens delivered only to a
  buyer who has the order, against its price; no way back to the market; expired locks and
  low-fee orders are resolved.
- Lunchpad: units sold never exceed units offered; an order's units are given back at most once;
  tokens are sent at most once per order; the status follows the units; processing is exclusive.
- Batch mint: never more mints than paid for, also after a restart; one running job; what is sent is
  recorded; a completed batch has handed over its tokens and refunded its KAS.
- P2P v2: a verification is exclusive; what a closed order says is what happened on the chain.
- Withdrawals: paid at most once, completed only when paid, and never lost without a rival or a failure.
- Connection and watchers: one attempt at a time; nobody waits for what will not come; an address is
  subscribed as long as somebody watches it.
- Shutdown: a graceful exit cuts off no run, and ends; `isRunning` is held by one run.
- Amounts: what a batch is asked for is enough for all its transactions.

## 2. Plan

1. `P2pOrder`, `EscrowContract`, `P2pOrder_proofs`: done, section 3.
2. `Lunchpad`, `UnitSale`, `Lunchpad_proofs`, `LunchpadUnits_proofs`: done, section 4.
3. `BatchMint`, `BatchMint_proofs`: done, section 5.
4. `P2pOrderV2`, `PsktSale`, `P2pOrderV2_proofs`: done, section 6.
5. `Shutdown` (important promises, signal handler, `runOnce`): done, section 6.
6. `Withdrawal`: done, section 6.
7. `RpcConnection`, `TransactionWatch`, `TransactionWatch_proofs`: done, section 6.
8. `MintBudget`: done, section 6.
9. `Sums_proofs` (sums over finite sets) and `Services_proofs` (5, 6 and 8, and the composition of all the
   parts of `services`): done, section 8.

How the modules depend on each other:

- `P2pOrder`, `Lunchpad` and `P2pOrderV2` instantiate the abstract specification they implement
  (`EscrowContract`, `UnitSale`, `PsktSale`).
- `TransactionWatch` extends `RpcConnection`: watchers are composed with the connections they use, and
  implement `RpcSpec`.
- `Shutdown` and `MintBudget` take one aspect of what `Lunchpad` and `BatchMint` model (the runs across
  instances, the amounts), which those abstract.
- `MCP2pOrder`, `MCLunchpad`, `MCBatchMint` and `MCServices` give the constants values; `*_proofs` extend
  the module they are about.

## 3. The P2P order book: `P2pOrder`

**One order.** Orders have a temporary wallet each and no operation touches two of them, so one
order with any number of concurrent handlers is the general case.

| variable | stands for |
|---|---|
| `order` | the document: `status`, `buyer` (`buyerWalletAddress`), `price` (`totalPrice`), `isDelist`, `txs` (which of the four transaction ids are recorded) |
| `expired` | `expiresAt < now` |
| `paid`, `wallet` | transfers ever made to the temporary wallet (the Kaspa API), and its unspent outputs (the node) |
| `tokens`, `receiver` | where the order's tokens are, and who got them |
| `chain` | how often each of the swap's transactions was sent |
| `proc` | per handler and for the cron job: the program counter, the document it last read, the payment and the wallet it works with, the transactions still to be sent |

**Steps.** Code between two awaits is one action; each database operation or network call is the
action's effect. A handler that keeps using a document it read keeps it in `snap`; where the code
reads it again (`confirmBuy` after `updateOrderStatusToCheckout`), the model does too. `Transition`
is the compare-and-set, `Rejected` is `InvalidStatusForOrderUpdateError`. `handleOrderWithMoneyAndNoBuyer`,
which requests start without awaiting it, is the continuation of the handler: its answer to
the client changes nothing. `confirmBuy` as called by a request, by the money handler and by the cron job
is one set of actions.

`doSellSwap` and `cancelSellSwap` are `Execute`, `Submit`, `NotifyUpdate`, `ExecError`, `FeeTooHigh`
and the closing writes. `Submit` has two outcomes, confirmed or not; both leave the transaction on
the chain. A submission that fails before that is `ExecError`. `Stop` (under `Faults`) ends a
handler between any two steps: a crash, a shutdown, a write conflict or a failed call outside a swap.

**Abstractions.** Amounts are what comparisons with an expected amount (and its acceptable range)
tell apart: a price (plus swap fee), the delist fee, dust, the change of a commit. `joint` marks a
transfer paid by several wallets, whose sender `getTransactionSender` does not tell. The commit
spends what was paid and leaves its change; the send-all empties the wallet; later payments stay.
Fee arithmetic, tickers and quantities are left out. The node takes one transaction once, so the
retries of `retryOnError` around one built transaction are one step. The five-minute expiry is a
step of the clock. `CANCELED` is never written by the order book; the management provider, which may
set any status, is outside the model.

**The escrow contract.** `EscrowContract` says what the order book promises without handlers or
statuses: goods are held while the order is on the market, an execution leads to a sale or a return,
the seller is settled once and only after a sale, nothing comes back to the market. `P2pOrder`
implements it under the mapping at `Contract` (`ImplementsContract`).

## 4. The lunchpad: `Lunchpad`

**One lunchpad.** Its rounds, orders and wallets are its own; no operation touches two lunchpads.

| variable | stands for |
|---|---|
| `lp` | the document: `status`, `avail` (`availabeUnits`), `total` (`totalUnits`), `round` (`roundNumber`), `tokens` (`currentTokensAmount`), `running` (`isRunning`) |
| `lock` | the open database transaction that wrote the document, if any |
| `orders` | the orders: status, units, wallet, round, `userTransactionId`, recorded ids of the token transfer |
| `paid`, `inbox` | transfers ever made to the receiver wallet (the Kaspa API), and its unspent outputs (the node) |
| `stock`, `sent` | units of tokens in the sender wallet; commits and reveals sent per order |
| `proc` | per request, for the owner and for the cron jobs: the program counter and what was read before |

**Steps.** As in `P2pOrder`, one step per await. The owner's requests are `StartLunchpad` ...
`RetrieveMove`. A reservation (`createLunchpadOrder`) is `ReserveLock`, `ReserveWallet` and
`ReserveCommit`. The lock is an `$inc` by zero; the schema has `timestamps`, so it writes `updatedAt` and holds the
document to the end of the database transaction (`Begin`, `Commit`, `Abort`). Another transaction conflicts at its own lock,
before it has read anything, and is tried again; a write outside of transactions (`Write`) waits. The wallet's orders are read, and the
order is created, outside the session, and the commit is not awaited (`ReserveLost` loses it). A
cancellation (`cancelLunchpadOrder`) takes the payment for a verification where there is one; its
transaction is `CancelLock` to `CancelUnits`. The five-minute job (`handleWaitingKasLunchpads`) reads the
waiting orders, the used transactions and the outputs at three different times, matches, cancels what is left with
the same steps as a request, and starts a run. A run (`startLunchpadProcessingOrdersIfNeeded`) reads the
lunchpad, compares the tokens, takes `isRunning` (`RunStart`) and works through the lists it fetches;
requests, the five-minute job and the twenty-second job all start one. The transfer of an order
(`doKrc20Transfer` with its records) is `NotifyCommit` to `SubmitReveal`: the id is recorded before the transaction is
submitted, the update answers the document as it was, and a recorded commit is not sent again but
waited for (`AwaitReceipt`).

**Abstractions.** Units stand for tokens and KAS, whose rates are fixed per lunchpad. A transfer pays for so many units, `joint`
says that no single sender can be told. Orders are identified by their order of creation. An
order's creation and its commit are one step unless the commit is lost. The ten retries of
`retryOnError` are not counted: a transaction that finds the lunchpad held waits in the model, giving up is `Stop`. The owner sends one request at a
time. Left out: prices changed between rounds (`updateLunchpad`), the whitelist, keys.

**The sale's contract.** `UnitSale` says what buyers are promised, without rounds, runs and
processes: an order is reserved, then sold or released for good; a sold one has a payment of its own,
which no other order claims; tokens are delivered once, and only for sold orders. `Lunchpad` implements
it under the mapping at `Sale` (`ImplementsSale`).

## 5. The batch mint: `BatchMint`

**One batch.** A batch has a wallet of its own; no operation touches two.

| variable | stands for |
|---|---|
| `batch` | the document: `status`, `finished` (`finishedMints`), `txs` (per recorded mint, whether its reveal is recorded), `cancelled` (`isUserCanceled`), `transfer` (recorded ids of the hand-over), `refunded` (`refundTransactionId`) |
| `inbox`, `spent` | transfers ever made to the wallet, KAS that left it |
| `onChain`, `locked` | commits and reveals of mints that were sent; outputs at the address of the mint script |
| `tokens`, `offer`, `delivered` | tokens in the wallet, in an unrevealed transfer, with the owner |
| `over` | the token has too few mints left (`stopMintsAtMintsLeft`) |
| `proc` | per request, cron job and pod: the program counter and what was read before |
| `overtaken` | history: some job started from a document that was no longer current |

**Steps.** A request (`StartBatchMint`) or the cron job (`HandleWaitingKas`) validates the payment, takes
the batch to WAITING_FOR_JOB and starts a pod, an operating system process; an operator starts one by hand
(`StartBatchMintPod`). The pod's job (`startBatchMintJob`) is `JobRead`, `JobValidate` and `JobStatus`, then
`doBatchMint`: `Mint` is one round of the loop, `Commit` to `SubmitReveal` one mint, `Finish` to
`SubmitGiveReveal` the hand-over, `Refund` the rest. Ids are recorded before a transaction is sent, so
a job that fails anywhere (`JobFails`, then `Error`) leaves a record that may run ahead of the chain; the next
one takes up the last mint whose reveal is not recorded. It works from the document it read *before* the
transition to IN_PROGRESS. `PodError` and `Error` write the status whatever it is. `Stop` is a crash.

**Abstractions.** KAS is counted in mints, `Reserve` is what fees, commission and refund need; a payment is
valid when it is one transfer of the owner of the amount required. All mints of a batch share one script
address, so a reveal spends the first output there, whichever commit it came from; a hand-over's address
depends on the amount (`offer`). The amount of the commission is left out, `finished` is what it is taken for.

## 6. The smaller parts

**PSKT orders: `P2pOrderV2`.** All orders of the module are made from one listing, since they share the output that
spends it; listings are independent.

| variable | stands for |
|---|---|
| `doc` | per order: `status`, `buyer` (`buyerWalletAddress`), `sendTx` (`sendTransactionId`) |
| `spend` | the transaction that spent the listing: who paid with other inputs, and what the seller got |
| `indexed` | whether Kasplex has taken it into account |
| `req` | per request: the program counter, the transactions still to be looked at, the verdict |
| `abandoned` | history: orders a request left in VERIFYING by failing |

`createOrder` is `VerifyPskt` and `Insert` (`createIfNotExists` writes on insertion only). `verify` is `LockListed`
and `LockFailed` (the two compare-and-sets of `updateStatusToVerifying`), `Market` (the ten queries of
Kasplex), `Search`, `CheckTx` (one transaction each) and `Decide`, or `Reopen`. `Verdict` is `verifySendTransactionAndGetCommission` in the
order of its returns. The signed parts of a PSKT are the constant `ValidPskts`. `PsktSale` says, without requests,
locks or an indexer, that an order is closed only after the listing was spent, as what that transaction did to it.

**Runs and shutdown: `Shutdown`.** Several instances, successive or at once, with their cron job (`JobTick`, `JobEnd`:
`runOnce`), the runners it starts and does not wait for (`Ask` to `Finish`: `startLunchpadProcessingOrdersIfNeeded`),
the promises of `ImportantPromisesManager`, and the signal handler (`Signal` to `ForceExit`: `main.ts:94-119`). `isRunning` is in the
database and survives an instance; `stranded` is history: lunchpads whose run was cut off or could not write its end. What a run
does with its orders is `Lunchpad`'s, where a shutdown is one of the things `Stop` stands for.

**Withdrawals: `Withdrawal`.** Requests share one wallet (`coins`, of which `pending` are not mature) and nothing else. `TrackWallet`
to `Confirm` are `doTransactionWithUtxoProcessor`: waiting for pending outputs, before the fee is estimated and
after (`Fund`, `FundFees`, `BalanceSettled`), the selection of outputs (`Build`), a chain of one or two transactions, the receipt. `Informed` is the balance promise of
`UtxoProcessorManager` for every request that tracks the wallet: a pending event replaces it, and a request that waits for the
old one waits for ever (`orphan`). Network fees are left out, so the amounts that are compared are to be read with their fees; a chain longer than two repeats its first step.

**Connections and watchers: `RpcConnection`, `TransactionWatch`.** A step is what the event loop does for one event, with the
continuations of the promises it settles. Attempt, promise and client have the same number. `Attempt` to `ServerInvalid` are
`waitForConnection` and `handleConnection`; `Settle` settles a promise and lets its waiters go on, each of which clears
`isTryingToConnect`. `connect()` may return late, when another attempt is under way, or never. On top, a caller with a
connection registers a watcher (`registerEventHandlers`), submits, and is told, or its timer fires and the Kaspa API is asked.
`watchers` is the static map `addressesToMontior`, `wire` the requests in flight per client, `subs` what the node reports. A
client that is lost loses both (`Cut`). `base` is history: on which client the map's entry was made.

**Amounts: `MintBudget`.** The transactions of a batch mint in their order, each with any mass up to the estimate and any priority fee
up to the owner's limit, from a wallet that was paid what `getRequiredKaspaAmountForBatchMint` asks for, within the accepted
tolerance. Integers are unbounded as in the code (`bigint`).

## 7. Properties and runs

| property | says | hazard |
|---|---|---|
| `SwapExclusion` | at most one process is executing the order | several confirmations of one payment, low-fee resumption |
| `P2pOrder!SentOnce` | each transaction of the swap or delist is sent at most once | stale documents, crashes between sending and recording |
| `DeliveredAgainstPayment` | delivered tokens are with the document's buyer, and the document's price was paid | lock and price races, `isDelist` |
| `NoReopen` | from execution or a closed status there is no way back | unconditional writes |
| `ImplementsContract` | every step is a step of `EscrowContract` | all of these, order of the transactions |
| `TokensDecided`, `ExpiredLockResolved`, `ExecutionEnds` | the cron job decides, resolves, finishes | liveness of the three cron phases |
| `CheckoutValidated` | the order in checkout was paid for by the buyer it names | **violated**, section 9 |
| `RunExclusion` | one run at a time, it holds `isRunning`, its round does not end | three ways to start a run, stops and stale reads |
| `TokensSentOnce` | the tokens of an order are sent at most once, the reveal after the commit | crashes, missed receipts, orders processed again |
| `PaidFor` | a verified order holds a payment of its wallet, for its units, that no other order holds; tokens go to verified orders | a request and the five-minute job matching the same transfer |
| `ImplementsSale` | every step is a step of `UnitSale` | a cancellation racing a verification |
| `NoOversell`, `WalletLimit` | nothing is sold that is not there: the units left are never negative, and with those ordered never more than the round's; no wallet exceeds its limit | concurrent reservations, whose reads and whose order are outside the session that takes the units |
| `StatusFollowsUnits` | ACTIVE means an order can be made, NO_UNITS_LEFT that none can | cancellations giving units back |
| `CountedOnce` | `currentTokensAmount` is reduced once per order sent | the same order processed again |
| `WaitingResolved`, `VerifiedProcessed` | waiting orders are verified or cancelled, verified ones processed while their round lasts | liveness of the two cron jobs and of the lock |
| `JobExclusion` | one job at a time works on the batch, under a status no job starts from | pods started by three parties, unconditional writes |
| `MintsBounded` | mints recorded, and mints sent, never exceed `totalMints` | failures between record, submission and receipt |
| `CommissionExact` | `finishedMints` counts each revealed mint once | the same mint finished by two jobs |
| `SentRecorded` | a mint's commit or reveal on the chain is recorded | crashes between sending and recording |
| `CompletedDelivered` | a completed batch is refunded and its tokens are handed over | a hand-over that failed half way |
| `WaitingEnds` | no batch waits for KAS for ever | unpaid and wrongly paid batches |
| `VerifyingHeld` | an order is in VERIFYING exactly while one request verifies it, or after one failed | two requests on one order, crashes |
| `P2pOrderV2!ImplementsSale` | every step is a step of `PsktSale` | several orders on one output, transactions that are not the sale |
| `VerifyingEnds` | a verification ends unless its request fails | the way back from VERIFYING |
| `GracefulExit` | once the promises were waited for, no run of the instance is under way or begins | a signal between a run's check and its start |
| `RunningHeld` | `isRunning` is held by one run in any instance, or left behind by a lost one | starts in two instances, failed writes, crashes |
| `ShutdownEnds` | an instance told to stop ends, unless `app.close()` fails | promises nobody resolves |
| `PaidOnce` | a receiving wallet is paid at most once, and exactly once if the withdrawal is completed | failures between submission and completion |
| `LostOnlyToRival` | a funded withdrawal that is not paid failed, or lost an output to another one | the balance check before pending outputs |
| `BalanceWaitEnds` | waiting for pending outputs ends, unless the promise was replaced | outputs that arrive meanwhile |
| `OneAttempt` | one attempt counts at a time, the current one, and the flag is set for it | timers and late answers of earlier attempts, every waiter clearing the flag |
| `WaitersServed` | who waits, waits for the current promise, and an attempt will settle it | a promise replaced while it is awaited |
| `SubscribedWhileWatched` | while a client stays connected it reports exactly the addresses watched through it | subscriptions and unsubscriptions in flight, timers after reports |
| `BudgetSuffices` | no transaction of a batch is refused for lack of KAS | locked funds, minimum commission, smallest amounts |
| `SoldOutFinal`, `ProcessingEnds` | SOLD_OUT is final; a missed receipt is asked for again | **violated**, section 9 |

| run | instance | shows |
|---|---|---|
| `p2p_trade` | 2 requests + cron, 2 buyers, two prices, seller's fee, at most 2 transfers, faults; 5.0 million states | the five safety properties |
| `p2p_live` | 1 request + cron, two prices, transfers of either, of dust and joint ones, no faults, `FairSpec`; 177 thousand states | the three liveness properties |
| `p2p_validation` | as `p2p_trade` | the counterexample to `CheckoutValidated` |
| `lunchpad_units` | 2 requests of 2 wallets, owner, cron, 3 orders of 1 or 2 units out of 3, limit 2 per wallet, no payments; 5.1 million states | the arithmetic of reservations and cancellations |
| `lunchpad_sale` | 1 request, owner, cron, 2 orders, 2 rounds, one payment, missed receipts, faults; 3.3 million states | types, exclusion, tokens sent once, the contract |
| `lunchpad_pay` | 2 wallets, 2 orders, two equal transfers, one of them joint, missed receipts; 2.6 million states | payments and the count of tokens |
| `lunchpad_live` | 1 request, owner, cron, 2 orders, one payment, no faults, `FairSpec`; 139 thousand states | the two liveness properties |
| `batch_jobs` | cron + 2 pods, 2 mints, the payment and a later deposit, faults; 1.0 million states | the five safety properties |
| `batch_live` | 1 request + cron + 1 pod, 2 mints, faults, `FairSpec`; 129 thousand states | types and `WaitingEnds` |
| `services` | 2 requests, 2 PSKTs of one listing for 1 and 2, 2 buyers; 2 instances, 3 runners, 1 lunchpad; 2 withdrawals, 3 outputs of which one arrives later; 3 callers, 2 attempts, 1 address; up to 3 mints, fee limits 0, 5 and 15; faults in all; 382 thousand states | types and the 13 properties of section 6's modules |
| `lunchpad_sold_out`, `lunchpad_processing` | as `lunchpad_live`; one order, missed receipts | the two counterexamples |

**Bounds of the P2P runs.** Every race found in the code is between two requests, or a request and the cron job; two
requests and the cron job allow one more actor than each needs. Two buyers are needed for a lock to
change hands. `MaxPayments = 2` lets two buyers pay, one buyer pay twice, or a buyer pay and the
seller pay the fee; a third transfer meets the same branches (more than one output). The handlers'
set is symmetric; buyers are not, for their payments differ. Handlers are reused, so a behaviour
has any number of requests. Deadlock is checked in all of them.

**Bounds of the lunchpad runs.** Two reservations race in `lunchpad_units`, of one wallet or of two: what one wallet may
buy, two units, is less than the round's three, and what two may is more, so each limit can be the one that cuts an order short. Orders of
one or two units run them out and give them back. Wallets and handlers are symmetric there, as nothing is paid. Elsewhere a
request, the owner and the cron jobs race; a request starts runs too, so runs race as well.
Two orders are needed for one payment to fit two and for a run to have a next order; two rounds for an
order of an old round. `MaxOrders`, `MaxRounds` and the transfers bound a behaviour; requests
that would create more are not made. `CHECK_DEADLOCK FALSE`: the lunchpad really may stop, with all its
rounds used, or STOPPING with nobody left to finish it after a crash or a lost request.
`NoOversell`, `WalletLimit` and `CountedOnce` are checked for one round and without faults. None holds for all faults: an order whose
commit is lost (`ReserveLost`) was never taken from the units, which breaks the first two, and a failure between a commit's record
and its count breaks the third. Nor do the first and the third hold for all rounds: an order left from an earlier round gives its units back to,
or takes its tokens from, the current one. `LunchpadUnits_proofs` proves each of them for any number of
rounds and all faults but just these (section 8).

**Bounds of the batch runs.** Two pods meet in every pair of steps and, reused, resume each other's work any number
of times; a third would do what a second does. Two mints let the unfinished one be the first or the last.
The second transfer makes a payment invalid when it is early and a deposit when it is late. Requests are
in `batch_live` only, where they race the cron job and the pod; what they write is what the cron job and
the unconditional writers write, and `BatchMint_proofs` proves the safety properties for any number of
them. `MintsBounded`, `CommissionExact` and the second half of `CompletedDelivered` except behaviours with
`overtaken`: there they fail (section 9). `CHECK_DEADLOCK FALSE`: a batch that is completed, failed or crashed stays as it is.

**Bounds of `services`.** The parts share no state, so a behaviour explores one of them (`part`), and one run checks them
all. Two PSKTs of different prices make one transaction a sale of the cheaper order only. Two instances and a third runner let two runs
race within an instance and one come from elsewhere; one lunchpad is the general case, for runs of two touch nothing in common but
the manager, which counts promises. The withdrawals need one or two outputs, and the deposit or not: so they can both pass the
check and take each other's output, or wait for the deposit, or be refused. Three callers let one
attempt time out while a second is under way and a third waits; `MaxAttempts` ends a behaviour after two attempts, and the proofs are
for any number. One address is shared by all callers, which is the case that matters; one of them empties the wallet.
In `MintBudget` the amounts are scaled so that each kind differs from the others (a KAS is 10, a mint costs 10); fee limits below,
above and at no fee reach both branches of the mint's fee, and three mints both branches of the
commission's minimum. `CHECK_DEADLOCK FALSE`: a request ends, and so does a budget.

**Fairness.** Every request that has started goes on (`WF` of `Continue`): Node.js runs pending
continuations, and calls return or fail. That covers a transaction that waits for the lunchpad's lock: its holder ends, and the other
processes do not take it for ever. The P2P cron job runs every five minutes and works its lists to
their end (`WF` of `CronPhases`, `CronSteps`). `SF` of the cron job's `Submit`: the network fee is
not above the limit for ever, the assumption the low-fee status is built on. The lunchpad's two jobs share one process in the model, so each is started by `SF` (`WaitingKasOrders`,
`StartProcessing(Cron)`): both are scheduled again and again, and neither keeps the other from its turn. Requests, transfers,
deposits, expiry and faults have no fairness. The batch's cron job runs every five minutes, finds the batch as long as it waits, and ends what it
begins (`WF`), for its calls return or fail; nothing else is fair there, and pods and requests may crash. The liveness runs have no faults: a crash in
`CHECKING_EXPIRED` or `CHECKOUT` needs an operator by design (`getStuckOrders`; section 9), and one during a run
leaves `isRunning` set for good. In `services` a verification goes on until it returns or fails, and so does a withdrawal's
transfer (`WF`): their calls return or throw. Pending outputs become mature (`WF` of `Ripen`). Of a shutdown only the end is fair: an
instance whose promises are resolved leaves, and the timer of one hour fires at last; nothing makes a run finish. `lunchpad_live` has no missed receipts either: `ProcessingEnds` shows what they do.

## 8. Proofs

**The order book.** `P2pOrder_proofs` proves, for any set of handlers, buyers, prices and
payments, and any bound, with only `ConstantsAssumption` (the cron job is not a request handler,
`NoOne` is not a wallet, there is a price, prices are not the special amounts, payments come from
wallets):

- `TypeCorrect`: `Spec => []TypeOK`
- `Exclusion`: `Spec => []SwapExclusion`
- `Once`: `Spec => []SentOnce`
- `NeverReopened`: `Spec => NoReopen`
- `Delivered`: `Spec => []DeliveredAgainstPayment`
- `Implements`: `Spec => ImplementsContract`

None of the properties is inductive by itself. The first four rest on `IInv`, in three layers:

- *Types* (`TypeInv`): with the types, that a handler about to record a transaction has just sent it.
- *The lock* (`LockInv`): while somebody executes the order its status is neither on the market nor
  waiting for a lower fee, so every transition into an execution, each filtered on such a status,
  fails. This needs that the unconditional writes only ever write closed statuses.
- *Sending* (`SendInv`): nothing was sent for an order on the market; the executing process works from
  the ids the document records, and what it has still to send was not sent; the same for an order that
  waits for a lower fee; and the document the cron job resumes from is not stale when its transition
  succeeds (`Resumable`), although the query read it before.

The last two rest on `DeliveryInv` besides, again in layers, each kept by a step under the ones before:

- `Undeposited`: before the deposit nobody works on the order and it has no buyer.
- `Outcome`: a recorded transaction was sent, the reveal comes after the commit and the seller's
  payment after a delivery, and the tokens were delivered or returned as `isDelist` says.
- `Held`: the escrow wallet holds payments and, after the commit, its change; a handler about to lock
  the order for a wallet has a wallet to lock it for. (The change has no sender. It cannot be
  mistaken for a purchase because after a commit the order never is on the market again.)
- `Bought`: a locked order has a buyer, an executing handler's copy has the document's buyer and price,
  a committed swap was paid for, the tokens went to the document's buyer.

The proofs sort the steps once (lemma `Shapes`: a step is quiet, moves the listing, starts, submits,
records, fails, waits for the fee, resumes, closes, or is the environment's) and treat each sort per
layer; the theorems follow by temporal logic.

**The lunchpad.** `Lunchpad_proofs` proves, for any handlers, wallets and payments, any number of orders,
rounds and units, with crashes, failed calls and missed receipts:

- `RunsExclude`: `Spec => []RunExclusion`
- `NeverSentTwice`: `Spec => []TokensSentOnce`
- `TokensOnlyPaid`: `Spec => []PaidFor`
- `SaleImplemented`: `Spec => ImplementsSale`

The inductive invariant of the first two, `IInv`, has five parts. `Entering`: nobody is about to take the lock with a document read as INACTIVE, since the
status read must still hold when `isRunning` is set. `RunExclusion` itself. `Records`: what was sent
is recorded, at most once. `Stages`: the run that sends an order's tokens is where the records and the
chain say it is. `Shape`: the fields the documents have. `RunExclusion` carries `TokensSentOnce`: two runs
could both find no commit recorded. Steps outside of a run are *quiet*
(`QuietKeeps`: they neither write `isRunning` nor records, and end the round only while nobody runs), most steps of a run are
*working* (`WorkingKeeps`), and the few that take the lock, record or send are treated one by one.

`PInv` adds what payments need. `Held`: an order that holds a payment holds one of its wallet for its units that no other order
holds, it holds one from its verification on, and tokens are sent for orders in processing only. `Knows`: what a request or the
five-minute job read before it acts is still true when it does. It is, because
an order's payment may be overwritten but is never removed, and its wallet and units never change after its creation. Lemma `NextKind` sorts the steps by
what they do to orders (`Kind`: nothing, or one order is created, records a payment, is verified, cancelled,
processed, or has a transaction sent) and shows that each keeps `PInv`. The refinement reads off the kinds: they are `Reserve`, `Reclaim` (or
a stutter, for an order not sold), `Sell`, `Release`, a stutter, and `Deliver` of `UnitSale`.

**Sums.** Units, outputs and payments are added up by `SumFunctionOnSet`, whose definition recurses on subsets of a finite set. The
library's induction over finite sets takes an operator as a parameter and cannot be cited; but the strict subset order on finite
sets is well founded (`FS_StrictSubsetOrderingWellFounded`), and *that* has no such parameter. `Smallest` draws from it that a set
of counterexamples has a least one, and each lemma of `Sums_proofs` takes an element out of it: a sum exists and is
independent of the order of addition (`AddsExists`, `AddsAgree`), it is an integer, or a natural number, where its terms are
(`SumInt`, `SumNat`), it splits off any element (`SumRemove`), depends on the terms only (`SumSame`) and grows with the set (`SumSubset`).

**The lunchpad's units.** `LunchpadUnits_proofs` proves the properties about sums of units, for the same constants:

- `TypesKept`: `Spec => [](TypeOK /\ lp.avail >= 0)`
- `StatusIsRight`: `Spec => []StatusFollowsUnits`
- `WalletsLimited`: `Spec /\ [][NoReserveLost]_vars => []WalletLimit`
- `NeverOversold`: `Spec /\ [][NoReserveLost]_vars /\ []NoneLeftBehind => []NoOversell`
- `TokensCountedOnce`: `Spec /\ [][NoCountLost]_vars /\ []NoneLeftBehind => []CountedOnce`
- `WalletsLimitedFaultless`, `NeverOversoldInOneRound`, `TokensCountedInOneRound`: the last three without their hypotheses, where
  the constants allow no faults and, for the last two, one round. This is what `lunchpad_units` and `lunchpad_pay` check on small instances.

The hypotheses are not for the proof's convenience; without them the three properties are false of the code. The order is created
outside of the transaction that takes its units and checks its wallet's limit, so a reservation cut off in between
(`ReserveLost`) sells units that stay available. That the units left are never negative needs no hypothesis (`TypesKept`). `NoReserveLost` excludes this step alone: all other crashes and failed calls are
allowed. `NoCountLost` excludes a failure between recording a commit and `reduceLunchpadTokenCurrentAmount`: the order goes on from its
record and is never counted. `NoneLeftBehind` says that an order that waits for its payment or is ready is of the current round, which
stopping a round does not ensure when a reservation races it (section 9).

`UInv` strengthens `PInv` by what a process knows of units (`Asks`): the one whose transaction holds it still finds
the lunchpad as it read it, so what it takes is there; and by `Books`, that one transaction at most holds it and an order which exists has a round, a wallet and units. Without
`Asks` the units could become negative and `StatusFollowsUnits` would not be inductive. Lemma `Steps` sorts the steps into those that
read, write the lunchpad, edit one order or reserve. `WInv` and `SInv` then add what a reservation about to commit, and a cancellation about
to give units back, will find; `CountedOnce` is inductive over `UInv`. A step changes a sum by one order at most, which is
`SumRemove` and `SumSame`.

**The batch mint.** `BatchMint_proofs` proves, for any requests, pods, payments and number of mints, with
crashes and failed calls:

- `OneJob`: `Spec => []JobExclusion`
- `NoMintTooMany`: `Spec => []MintsBounded`
- `RecordedFirst`: `Spec => []SentRecorded`
- `CommissionCountsReveals`: `Spec => []CommissionExact`
- `NothingLeftBehind`: `Spec => []CompletedDelivered`
- `BatchTypes`: `Spec => [](TypeOK /\ Kas >= 0)`

The invariant of the first three, `IInv`, has seven parts. `JobExclusion` needs `Entering`: a job is let in only from ERROR or WAITING_FOR_JOB, and
a working job's status is neither. `Budget` adds up the mints left to the working job and the recorded ones, its own unfinished one
once; exclusion makes the sum a matter of one job, and the transition with a current document (`~overtaken`)
establishes it. `Minted` bounds what was sent by what was recorded, which needs no
such condition, and `Current` says that the mint a job works on is a recorded one, which gives
`SentRecorded`. Steps are sorted as for the lunchpad: outside of a job's work (`OutsideKeeps`), inside
without touching a mint (`InsideKeeps`), and the five that take the lock, record or send.

`CommissionCountsReveals` and `NothingLeftBehind` rest on `Closing` besides. Its part `Due` says what the working job may count on at each point: a mint it has yet to
reveal is not recorded as revealed, so that the counter moves with the set of revealed mints; it closes the batch only
with no tokens left or with their transfer recorded; it completes it only with the refund recorded. Nobody else writes what
`Due` speaks of, since the job is alone (`OthersIdle`), and there are tokens only once a mint is counted. Where the code writes
the status without a condition the job may be overtaken, hence the `~overtaken` in both properties.

`BatchTypes` says that neither KAS nor tokens are spent that are not there. A job looks at the wallet in one step and sends in another;
`Coffers` says that what it saw is still there when it sends (`Holds`), since no other job spends and transfers only add.

**PSKT orders.** `P2pOrderV2_proofs` proves, for any requests, orders, prices and buyers (`PsktAssumption`: `NoWallet` is no
wallet, prices are positive), with crashes and failed calls:

- `PsktTypeCorrect`: `PsktSpec => []PsktTypeOK`
- `VerifyingHeldHolds`: `PsktSpec => []VerifyingHeld`
- `PsktImplementsSale`: `PsktSpec => ImplementsSale`

A request that checks transactions has one to check (`TxToCheck`). The lock (`Locks`) is kept since only the two
compare-and-sets enter VERIFYING and only the request that holds it leaves it; without that `Decide` might write what another request found. For the
refinement a verdict reached by a request stays true (`VerdictsTrue`): the listing is spent once, so what
`Verdict` said before the write is what the chain says at the write (`DecideRefines`).

**Shutdown.** `Services_proofs` proves, for any instances, runners and lunchpads, with crashes and failed writes:

- `ShutdownTypeCorrect`, `GracefulExitHolds`: `ShutdownSpec => []GracefulExit`, `RunningHeldHolds`: `ShutdownSpec => []RunningHeld`

`PromisesHeld` says that a runner from its registration to its end has its promise registered in its instance,
`PromisesGone` that an instance that leaves has none and takes none: together they give `GracefulExit`. `RunsInv` is
`RunningHeld` with what a termination needs: it strands exactly the lunchpads its runners hold.

**Connections and watchers.** `TransactionWatch_proofs` proves, for any callers, addresses, attempts and tries:

- `OneAttemptHolds`, `WaitersServedHolds`, `SubscribedHolds`: the three properties of `NetworkSpec`
- `NetworkTypeCorrect`; `NetworkImplementsRpc`: `NetworkSpec => RpcSpec`

For the connection the invariant adds to the two properties that the current promise is pending only while an attempt counts
(`PendingServed`): a step that settles it leaves nobody waiting, and a caller that joins a pending one finds the attempt that will settle
it. `SettleInv` and `AwaitInv` show that letting any number of waiters go on keeps this. For the watchers it adds that a subscribed
address's map entry was made on the current client, with all its watchers on that client (`BaseCurrent`), and
that a request to subscribe in flight is the one its watcher waits for (`AwaitedRequests`). Subscribing is a matter of the *last*
request about an address in the queue of a client, so the lemmas on `Append` (`SubscribedAppend`) and `Tail`
(`SubscribedTail`) carry the argument; every step is then one that leaves subscriptions alone (`StableInv`), enters
(`RegisterFirstInv`), answers (`AnswerInv`), leaves (`ClearInv`) or cuts a client (`CutInv`).

**Withdrawals.** `Services_proofs` proves, for any withdrawals and outputs (`WithdrawalAssumption`: amounts are natural
numbers, outputs that came from outside are finite in number, are worth something and are none the model makes up):

- `WithdrawalTypes`
- `PaidAtMostOnce`: `WithdrawalSpec => []PaidOnce`
- `OnlyRivalsCost`: `WithdrawalSpec => []LostOnlyToRival`

`Unmade` says that an output a withdrawal is yet to make does not exist, `Progress` that document and payment follow the request. `Chosen`
says that the outputs a request chose suffice as long as all are unspent. The second property needs `Fair`: a
withdrawal without a rival that did not fail still has `Enough` in the wallet, the mature part of it where the code looks at that
only. Its steps are those that spend, which make a rival of the withdrawal for every other (`Spend`), and those that bring outputs.

**Composition.** `ServicesTypes`: `Spec => []ServicesTypeOK` for the module `MCServices`. `PartsAlone` shows that the composed specification
implies that of each part, so every theorem about a part holds in the composition.

**Amounts.** `Services_proofs` proves, for all values of the constants that satisfy `BudgetAssumption`:

- `BudgetTypeCorrect`; `BudgetSufficesHolds`: `BudgetSpec => []BudgetSuffices`

The invariant (`StageFunds`) says per stage what the wallet must still hold: for the mints left, the hand-over, the refund and
the commission. It rests on the commission growing with the number of mints (`CommissionMonotone`, by
monotonicity of multiplication and of division by 100) and on `RequiredAbove`. `BudgetAssumption` holds for the code's
amounts (1, 0.00001817, 3, 0.2, 1 and 0.001 KAS); its conditions are what the proof needs: that the smallest commission, which is asked for
even when no mint is made, covers the hand-over's cost, the tolerance and the smallest amount that can be sent, and that a commit's base
amount is no smaller.

**Model-checked only.** Liveness: TLAPS does not reach fairness and `ENABLED`. That is all of `p2p_live`, `lunchpad_live`, `batch_live`
and the temporal properties of `services` (`VerifyingEnds`, `ShutdownEnds`, `BalanceWaitEnds`). Every invariant of the
passing runs, every refinement and `NoReopen` are proved. The violations of section 9 are counterexamples, found by TLC.

## 9. Findings and limits

- **Validation and checkout are for different buyers** (`p2p_validation`). `services/p2p-orders.service.ts:151`
  says "FROM HERE, MEANS VALIDATION PASSED". `confirmBuy` verifies the payment of the buyer it
  read, then moves the order to CHECKOUT requiring only `WAITING_FOR_KAS`. If in between the cron job
  releases the expired lock (it had read the wallet before the payment arrived) and another buyer takes it
  (having read the wallet before, too), the second buyer's lock is checked out with the first
  buyer's money. What does hold is `DeliveredAgainstPayment`: the price was paid, and the
  tokens go to the buyer the document names.
- An order a crash leaves in `CHECKING_EXPIRED` is found by no query of the cron job and not reported by
  `getStuckOrders`, which looks for CHECKOUT and DELISTING; the model has the crash (`Stop`), no
  property speaks of it.
- A completion whose write fails is swallowed (`setOrderCompleted`); the order stays in CHECKOUT.
- **SOLD_OUT is not final** (`lunchpad_sold_out`). `lunchpad-statuses.enum.ts:4` calls NO_UNITS_LEFT the
  status while "orders are not yet final". The first order sent while no units are left makes the
  lunchpad SOLD_OUT, whatever other orders still wait; those can no longer be verified or cancelled by a
  request.
- **A missed receipt is never asked for again** (`lunchpad_processing`). After a receipt that did not come the
  manager logs that it will "try to get from api", but `stopOnApplicationClosing`, which only says that the wait may be
  given up when the application closes, makes it throw at once. The order stays in PROCESSING
  and the run fetches it again and again.
- A stop requested of a lunchpad read as NO_UNITS_LEFT always fails: the service requires ACTIVE.
- The transition to SOLD_OUT fails after a concurrent cancellation, and marks as ERROR an order whose tokens
  were sent; an order in ERROR keeps the lunchpad from closing.
- A transfer with several senders ends the five-minute job for its lunchpad each time it meets it.
- A reservation that races a stop leaves an open order in an inactive lunchpad; its tokens are not
  sent (the exception in `VerifiedProcessed`). A crash during a run leaves `isRunning` set.
- A batch job resumes from a document read before it has the lock. If in between another job resumed and failed again,
  its transition from ERROR still succeeds, and it mints what was minted already or finishes a
  finished mint a second time, within the KAS in the wallet (`overtaken`; `startBatchMintJob` passes `batchMintEntity`,
  not `updatedBatchMint`, to `doBatchMint`).
- A hand-over whose reveal is recorded and was not sent is taken for done: the batch is completed with its tokens in the
  wallet (the exception in `CompletedDelivered`).
- The cron job takes a failed call while it validates a payment for a wrong payment: the batch is
  UNKOWN_MONEY_ERROR, which nothing leaves. A payment that arrives after the balance was read as 0 meets KAS_NOT_SENT.
- A crashed pod leaves IN_PROGRESS, a job whose validation fails WAITING_FOR_JOB; only the second is reported.
  `PodError` overwrites what a pod started by hand has made of the batch meanwhile, even COMPLETED.
- `isBatchMintInvalidStatusUpdateError` of the service is asynchronous and not awaited
  (`batch-mint.provider.ts:188`): its promise is always true, so no error of the transition is ever logged.
- An order a request left in VERIFYING by failing stays there: `verify` returns it as it is from then on, and no job looks for it (the
  exception in `VerifyingEnds`). A PSKT whose verification failed because a call did is stored as
  PSKT_VERIFICATION_ERROR for good (`createIfNotExists` writes on insertion only).
- Two orders of one listing can both be COMPLETED by one transaction, when it pays the dearer price: `Verdict` asks for the order's price or
  more. `PsktSale` allows it.
- A lunchpad run that loses the transition to `isRunning` leaves its promise behind (`leaked`); the next shutdown of that instance then
  takes the whole hour. The five-minute and the twenty-second job fire in the same second every five minutes. When `app.close()` throws, the
  handler clears the timer and does not exit: the process goes on, closing (the exception in `ShutdownEnds`).
- A balance promise that is replaced while it is awaited is never resolved (`orphan`): a withdrawal, or any transfer over the
  UTXO processor, that waits for a pending output while another one arrives waits for ever (the exception in `BalanceWaitEnds`).
- A withdrawal that is refused (WAITING_FOR_KAS) or fails (CREATED) is never taken up again, also when the money left: an exception after the
  submission leaves a paid withdrawal CREATED. A completed one that took a chain of transactions records the id of the
  first, which pays nobody. A new client drops the old one without disconnecting it.
- A subscription that fails leaves its id in the static map (`poisoned`): later watchers of that address find it watched,
  do not subscribe, and wait for their timers. A watcher of a transfer that empties the wallet is told by any report on its client, whatever
  the address.
- `getRequiredKaspaAmountForLunchpad` counts transfers as if no order were smaller than the minimum, but orders cut to a wallet's limit
  are; the sender wallet may run out of fees. Not modelled.

**Not modelled.**

- `libs/kaspa`, `libs/kaspa-dev`: the vendored WASM bindings of the Kaspa client, generated code, more than two thirds of the
  repository's lines. What the service uses of them (outputs, transactions, subscriptions, balance events) is external to the models.
- Controllers, guards, DTOs, transformers, query and paging methods, notifications: they keep no state, or change none.
- The management providers, which may set any status and read any key: no property survives them, by design.
- `updateLunchpad` (prices between rounds), the whitelist, retrieval of keys; listings of every kind.
- The commit/reveal executor as a module of its own: its steps are in the modules that use it, as they record and resume
  differently; compounding outputs by an operator (`compoundUtxos`) is a transfer like `Withdrawal`'s.
- The conversion between KAS as a floating-point number and sompi, swap and lunchpad commissions, the counter of temporary wallets, which is
  one atomic update in the database.
