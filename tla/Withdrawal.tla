----------------------------- MODULE Withdrawal -----------------------------
(***************************************************************************)
(* Withdrawals from the one withdrawal wallet.  Each is paid by the        *)
(* request that creates it, through the UTXO-processor path of the         *)
(* transactions manager: the requests share the wallet's outputs and       *)
(* nothing else, and the network alone keeps two of them from spending the *)
(* same output.                                                            *)
(*                                                                         *)
(* coins is the wallet: its domain are the unspent outputs, and an output  *)
(* that just arrived is pending before it is mature.  A transfer with many *)
(* inputs is a chain of two transactions, one that compounds them and one  *)
(* that pays.  Network fees are left out.                                  *)
(***************************************************************************)
EXTENDS Naturals, FiniteSets, Functions

CONSTANTS Withdrawals,      \* the withdrawals, each with its request
          AmountOf,         \* what each is to pay
          Funds,            \* outputs the wallet holds, as ids
          Deposits,         \* outputs that arrive later
          FundAmount,       \* the amount of each of these
          MinimalAmount,    \* MINIMAL_AMOUNT_TO_SEND
          WithdrawalFaults  \* whether requests crash and their calls fail

External == Funds \cup Deposits
\* Outputs the transfers make: the compound output and the change of each withdrawal.
Made == {"compound", "change"} \X Withdrawals
Coins == External \cup Made

ASSUME WithdrawalAssumption ==
    /\ AmountOf \in [Withdrawals -> Nat]
    /\ FundAmount \in [External -> Nat \ {0}]
    /\ IsFiniteSet(Funds) /\ Funds \cap Deposits = {} /\ External \cap Made = {}
    /\ MinimalAmount \in Nat
    /\ WithdrawalFaults \in BOOLEAN

VARIABLES order,   \* the document of each withdrawal, status "NONE" before it exists
          coins,   \* the unspent outputs of the wallet, with their amounts
          pending, \* those not mature yet
          paid,    \* history: how often each receiving wallet was paid
          xfer     \* the local state of each request

withdrawalVars == <<order, coins, pending, paid, xfer>>

WithdrawalInit ==
    /\ order = [w \in Withdrawals |-> [status |-> "NONE", tx |-> "none"]]
    /\ coins = [c \in Funds |-> FundAmount[c]]
    /\ pending = {}
    /\ paid = [w \in Withdrawals |-> 0]
    /\ xfer = [w \in Withdrawals |->
                 [pc |-> "create", inputs |-> {}, first |-> "final",
                  unsettled |-> FALSE, orphan |-> FALSE, failed |-> FALSE]]

Unspents == DOMAIN coins
Worth(S) == SumFunctionOnSet(coins, S)
Total == Worth(Unspents)
Mature == Worth(Unspents \ pending)

Stands(w, pc) == xfer[w].pc = pc
Waits(x) == x.pc \in {"await", "awaitFees"}
Proceed(w, pc) == xfer' = [xfer EXCEPT ![w].pc = pc]

-----------------------------------------------------------------------------
(* The balance promise of UtxoProcessorManager.  unsettled is              *)
(* ~isBalancedResolved.  A "pending" event while it is unsettled makes a   *)
(* new promise, and nothing resolves the one a request waits for already.  *)

\* Mutant of Informed: a new output settles nothing and replaces nothing.
InformedOfArrivals(x, left, arrived) ==
    [w \in Withdrawals |->
        IF x[w].unsettled /\ arrived
        THEN [x[w] EXCEPT !.orphan = @ \/ Waits(x[w])] ELSE x[w]]

\* The requests' states x after outputs arrived or matured and those of left are pending.
Informed(x, left, arrived) ==
    [w \in Withdrawals |->
        IF ~x[w].unsettled THEN x[w]
        ELSE [x[w] EXCEPT !.unsettled = left # {},
                          !.orphan = @ \/ (arrived /\ Waits(x[w]))]]

Arrive(c) ==
    /\ c \in Deposits \ Unspents /\ ~\E w \in Withdrawals : c \in xfer[w].inputs
    /\ coins' = [d \in Unspents \cup {c} |-> IF d = c THEN FundAmount[c] ELSE coins[d]]
    /\ pending' = pending \cup {c}
    /\ xfer' = Informed(xfer, pending', TRUE)
    /\ UNCHANGED <<order, paid>>

Ripen(c) ==
    /\ c \in pending
    /\ pending' = pending \ {c}
    /\ xfer' = Informed(xfer, pending', FALSE)
    /\ UNCHANGED <<order, coins, paid>>

-----------------------------------------------------------------------------
(* createWithdrawal                                                        *)

Create(w) ==
    /\ Stands(w, "create")
    /\ order' = [order EXCEPT ![w].status = "CREATED"]
    /\ Proceed(w, "balance")
    /\ UNCHANGED <<coins, pending, paid>>

CheckBalance(w) ==
    /\ Stands(w, "balance")
    /\ Proceed(w, IF AmountOf[w] > Total THEN "refuse" ELSE "track")
    /\ UNCHANGED <<order, coins, pending, paid>>

\* transitionOrderStatus requires CREATED.
SetStatus(w, s, tx) ==
    /\ order[w].status = "CREATED"
    /\ order' = [order EXCEPT ![w] = [status |-> s, tx |-> tx]]

\* updateWithdrawalStatusToWaitingForKas
Refuse(w) ==
    /\ Stands(w, "refuse")
    /\ SetStatus(w, "WAITING_FOR_KAS", "none")
    /\ Proceed(w, "end")
    /\ UNCHANGED <<coins, pending, paid>>

-----------------------------------------------------------------------------
(* doTransactionWithUtxoProcessor                                          *)

\* useUtxoProcessorManager: the context is loaded, and the balance promise begins.
TrackWallet(w) ==
    /\ Stands(w, "track")
    /\ xfer' = [xfer EXCEPT ![w].pc = "fund", ![w].unsettled = pending # {}]
    /\ UNCHANGED <<order, coins, pending, paid>>

\* Too little is mature while more is pending.
Lacks(w) == Mature < AmountOf[w] + MinimalAmount /\ pending # {}

\* The first check; an exception ends the request, as createWithdrawal swallows it, and the
\* order stays CREATED.
Checked(w) == IF Mature < AmountOf[w] THEN "end" ELSE "fees"

\* Mutant of Fund: pending outputs are not waited for.
FundAtOnce(w) ==
    /\ Stands(w, "fund")
    /\ Proceed(w, Checked(w))
    /\ UNCHANGED <<order, coins, pending, paid>>

Fund(w) ==
    /\ Stands(w, "fund")
    /\ Proceed(w, IF Lacks(w) THEN "await" ELSE Checked(w))
    /\ UNCHANGED <<order, coins, pending, paid>>

\* Once the fee is estimated, the same again.
FundFees(w) ==
    /\ Stands(w, "fees")
    /\ Proceed(w, IF Lacks(w) THEN "awaitFees" ELSE "build")
    /\ UNCHANGED <<order, coins, pending, paid>>

\* waitForPendingUtxoToFinish
BalanceSettled(w) ==
    /\ Waits(xfer[w]) /\ ~xfer[w].unsettled /\ ~xfer[w].orphan
    /\ Proceed(w, IF Stands(w, "await") THEN Checked(w) ELSE "build")
    /\ UNCHANGED <<order, coins, pending, paid>>

GiveUp(w) == Proceed(w, "end")

\* NotEnoughBalanceError
NotEnough(w) ==
    /\ Stands(w, "build")
    /\ Mature < AmountOf[w] \/ AmountOf[w] <= MinimalAmount
    /\ GiveUp(w)
    /\ UNCHANGED <<order, coins, pending, paid>>

\* createTransactions takes mature outputs until they suffice.
Selections(w) ==
    {S \in SUBSET (Unspents \ pending) :
        /\ Worth(S) >= AmountOf[w]
        /\ \E c \in S : Worth(S \ {c}) < AmountOf[w]}

Build(w) ==
    /\ Stands(w, "build")
    /\ Mature >= AmountOf[w] /\ AmountOf[w] > MinimalAmount
    /\ \E S \in Selections(w), n \in {"compound", "final"} :
           /\ n = "compound" => Cardinality(S) > 1
           /\ xfer' = [xfer EXCEPT ![w].pc = n, ![w].inputs = S, ![w].first = n]
    /\ UNCHANGED <<order, coins, pending, paid>>

\* Mutant of Spend: change of nothing is an output, too.
SpendWithDust(w, c, m) ==
    LET kept == Unspents \ xfer[w].inputs
    IN  /\ coins' = [d \in kept \cup {c} |-> IF d = c THEN m ELSE coins[d]]
        /\ pending' = (pending \ xfer[w].inputs) \cup {c}

\* The outputs xfer[w].inputs are spent and the output c, worth m, is made (none if m = 0).
Spend(w, c, m) ==
    LET kept == Unspents \ xfer[w].inputs
        made == IF m = 0 THEN {} ELSE {c}
    IN  /\ coins' = [d \in kept \cup made |-> IF d = c THEN m ELSE coins[d]]
        /\ pending' = (pending \ xfer[w].inputs) \cup made

Spendable(w) == xfer[w].inputs \subseteq Unspents

\* The network refuses a transaction whose inputs are spent.
Rejected(w) ==
    /\ xfer[w].pc \in {"compound", "final"} /\ ~Spendable(w)
    /\ GiveUp(w)
    /\ UNCHANGED <<order, coins, pending, paid>>

SubmitCompound(w) ==
    LET c == <<"compound", w>> IN
    /\ Stands(w, "compound") /\ Spendable(w)
    /\ Spend(w, c, Worth(xfer[w].inputs))
    /\ xfer' = Informed([xfer EXCEPT ![w].pc = "final", ![w].inputs = {c}], pending', TRUE)
    /\ UNCHANGED <<order, paid>>

\* Mutant of SubmitFinal: a submission that fails is built and submitted again.
SubmitFinalAgain(w) ==
    LET change == Worth(xfer[w].inputs) - AmountOf[w] IN
    /\ Stands(w, "final") /\ Spendable(w)
    /\ Spend(w, <<"change", w>>, change)
    /\ paid' = [paid EXCEPT ![w] = @ + 1]
    /\ \E pc \in {"confirm"} \cup (IF WithdrawalFaults THEN {"build"} ELSE {}) :
           xfer' = Informed([xfer EXCEPT ![w].pc = pc], pending', change > 0)
    /\ UNCHANGED order

\* The paying transaction; its submission may fail although the network took it.
SubmitFinal(w) ==
    LET change == Worth(xfer[w].inputs) - AmountOf[w] IN
    /\ Stands(w, "final") /\ Spendable(w)
    /\ Spend(w, <<"change", w>>, change)
    /\ paid' = [paid EXCEPT ![w] = @ + 1]
    /\ xfer' = Informed([xfer EXCEPT ![w].pc = "confirm"], pending', change > 0)
    /\ UNCHANGED order

\* The watcher, or else the Kaspa API, reports the last transaction.
Confirm(w) ==
    /\ Stands(w, "confirm")
    /\ Proceed(w, "complete")
    /\ UNCHANGED <<order, coins, pending, paid>>

\* updateWithdrawalStatusToCompleted, with the id of the first transaction of the chain.
Complete(w) ==
    /\ Stands(w, "complete")
    /\ SetStatus(w, "COMPLETED", xfer[w].first)
    /\ Proceed(w, "end")
    /\ UNCHANGED <<coins, pending, paid>>

\* A crash, or a call that fails, at any point of the request.
RequestFails(w) ==
    /\ WithdrawalFaults /\ xfer[w].pc \notin {"create", "end"}
    /\ xfer' = [xfer EXCEPT ![w].pc = "end", ![w].failed = TRUE]
    /\ UNCHANGED <<order, coins, pending, paid>>

-----------------------------------------------------------------------------
TransferSteps(w) ==
    \/ CheckBalance(w) \/ Refuse(w) \/ TrackWallet(w) \/ Fund(w) \/ FundFees(w)
    \/ BalanceSettled(w) \/ NotEnough(w) \/ Build(w) \/ SubmitCompound(w) \/ SubmitFinal(w)
    \/ Rejected(w) \/ Confirm(w) \/ Complete(w)

WithdrawalNext ==
    \/ \E w \in Withdrawals : Create(w) \/ TransferSteps(w) \/ RequestFails(w)
    \/ \E c \in Coins : Arrive(c) \/ Ripen(c)

WithdrawalSpec == WithdrawalInit /\ [][WithdrawalNext]_withdrawalVars

\* A request goes on while it can, and the network confirms what it accepted.
WithdrawalFairness ==
    /\ \A w \in Withdrawals : WF_withdrawalVars(TransferSteps(w))
    /\ WF_withdrawalVars(\E c \in Coins : Ripen(c))

-----------------------------------------------------------------------------
(* Properties                                                              *)

\* Every variable has its type.
WithdrawalTypeOK ==
    /\ order \in [Withdrawals -> [status: {"NONE", "CREATED", "WAITING_FOR_KAS", "COMPLETED"},
                                  tx: {"none", "compound", "final"}]]
    /\ Unspents \subseteq Coins /\ \A c \in Unspents : coins[c] \in Nat \ {0}
    /\ pending \subseteq Unspents
    /\ paid \in [Withdrawals -> Nat]
    /\ xfer \in [Withdrawals -> [pc: {"create", "balance", "refuse", "track", "fund", "await", "fees",
                                      "awaitFees", "build", "compound", "final", "confirm", "complete", "end"},
                                 inputs: SUBSET Coins, first: {"compound", "final"},
                                 unsettled: BOOLEAN, orphan: BOOLEAN, failed: BOOLEAN]]

\* The receiving wallet is paid once at most, whatever fails; a completed withdrawal was paid,
\* and one that waits for KAS was not (providers/withdrawal.provider.ts:26-108).
PaidOnce ==
    \A w \in Withdrawals :
        /\ paid[w] <= 1
        /\ order[w].status = "COMPLETED" => paid[w] = 1
        /\ order[w].status = "WAITING_FOR_KAS" => paid[w] = 0

\* A withdrawal for which the wallet held enough ends without being paid only because a call
\* failed or another withdrawal took an output first: pending outputs are waited for
\* (kaspa-network-transactions-manager.service.ts:364-411).
LostOnlyToRival ==
    \A w \in Withdrawals :
        Stands(w, "end") /\ order[w].status = "CREATED" /\ AmountOf[w] > MinimalAmount =>
            \/ xfer[w].failed
            \/ \E v \in Withdrawals \ {w} : paid[v] > 0 \/ <<"compound", v>> \in Unspents

\* A request that waits for pending outputs goes on when they are mature, unless another one
\* arrived meanwhile (classes/UnxoProcessorManager.ts:62-90).
BalanceWaitEnds ==
    \A w \in Withdrawals : Waits(xfer[w]) ~> (~Waits(xfer[w]) \/ xfer[w].orphan)
=============================================================================
