----------------------------- MODULE MintBudget -----------------------------
(***************************************************************************)
(* The amounts of a batch mint: what the owner is asked for before the     *)
(* first mint, and what the mints, the hand-over of the tokens and the     *)
(* refund then take from the batch's wallet.  The wallet is funded once;   *)
(* if it ran short on the way, the batch would end in ERROR with tokens    *)
(* and KAS in a wallet only an operator can use.                           *)
(*                                                                         *)
(* Amounts are in a unit of which there are Kas in one KAS (the code's is  *)
(* the sompi).  Which job does these steps, and what it records, is        *)
(* BatchMint's.                                                            *)
(***************************************************************************)
EXTENDS Integers

CONSTANTS Kas,
          MintCost,      \* KRC20_TRANSACTIONS_AMOUNTS.MINT
          TransferCost,  \* KRC20_TRANSACTIONS_AMOUNTS.TRANSFER
          Base,          \* KRC20_BASE_TRANSACTION_AMOUNT
          Minimal,       \* MINIMAL_AMOUNT_TO_SEND
          MinCommission, \* MIMINAL_COMMITION
          Percentage,    \* batchMintCommissionPercentage
          MaxMass,       \* MAX_ESTIMATED_KRC20_TRANSACTION_MASS, the fee without priority
          Tolerance,     \* ACCEPTABLE_TRANSACTION_AMOUNT_RANGE
          MaxMints, FeeLimits  \* bounds on totalMints and values of maxPriorityFee

\* In KAS: 1, 0.00001817, 3, 0.2, 1, 0.001 for the amounts.
ASSUME BudgetAssumption ==
    /\ Kas \in Nat \ {0}
    /\ MintCost \in Nat /\ TransferCost \in Nat /\ Base \in Nat /\ Minimal \in Nat
    /\ MinCommission \in Nat /\ Percentage \in Nat /\ MaxMass \in Nat /\ Tolerance \in Nat
    /\ TransferCost + Tolerance + Minimal < MinCommission
    /\ MinCommission <= Base
    /\ MaxMints \in Nat /\ FeeLimits \subseteq Nat

Larger(m, n) == IF m < n THEN n ELSE m
WholeKas(m) == ((m + Kas - 1) \div Kas) * Kas

\* getBatchMintCommissionInSompi
Commission(n) == Larger((n * Percentage * MintCost) \div 100, MinCommission)

\* What one mint takes at most: a commit, and a reveal that costs MintCost or more.
PerMint(fee) == fee + (Larger(fee, MintCost) - MintCost) + 2 * MaxMass + MintCost

\* Mutant of Required: the transactions that return tokens and KAS are not in it.
RequiredForMints(n, fee) == WholeKas(n * PerMint(fee) + Commission(n))

\* getRequiredKaspaAmountForBatchMint
Required(n, fee) ==
    WholeKas(n * PerMint(fee) + Base + Commission(n) + 3 * fee + 2 * MaxMass + MaxMass)

VARIABLES mints,    \* totalMints
          limit,    \* maxPriorityFee
          balance,  \* of the batch's wallet
          locked,   \* what a commit has put into the script address, until its reveal
          finished, \* mints done
          stage     \* the next transaction; "short" when it could not be made

budgetVars == <<mints, limit, balance, locked, finished, stage>>

BudgetInit ==
    /\ mints = 0 /\ limit = 0
    /\ balance = 0 /\ locked = 0
    /\ finished = 0
    /\ stage = "unpaid"

\* A batch is created and paid, with an amount isValidKaspaAmountForBatchMint accepts.
Paid ==
    /\ stage = "unpaid"
    /\ mints' \in 1..MaxMints /\ limit' \in FeeLimits
    /\ LET required == Required(mints', limit')
       IN  balance' \in (required - Tolerance)..(required + Tolerance)
    /\ stage' = "mint"
    /\ UNCHANGED <<locked, finished>>

\* A transaction takes what it needs from what there is, or is not made.
Take(needed, there, into, next) ==
    IF there < needed
    THEN stage' = "short" /\ UNCHANGED <<balance, locked>>
    ELSE balance' = there - needed /\ locked' = into /\ stage' = next

\* Fees: the mass, and a priority fee limited to maxPriorityFee.
Masses == 0..MaxMass
Priorities == 0..limit

\* doKrc20CommitTransactionWithUtxoProcessor
CommitOf(cost, next) ==
    LET amount == Larger(Base, cost) IN
    \E m \in Masses, p \in Priorities : Take(amount + m + p, balance, amount, next)

\* doKrc20RevealTransactionWithUtxoProcessor: the operation's cost is its priority fee at least.
RevealOf(cost, next) ==
    \E m \in Masses, p \in Priorities : Take(m + Larger(p, cost), balance + locked, 0, next)

MintCommit ==
    /\ stage = "mint" /\ finished < mints
    /\ CommitOf(MintCost, "mintReveal")
    /\ UNCHANGED <<mints, limit, finished>>

MintReveal ==
    /\ stage = "mintReveal"
    /\ RevealOf(MintCost, "mint")
    /\ finished' = IF stage' = "short" THEN finished ELSE finished + 1
    /\ UNCHANGED <<mints, limit>>

\* All mints are done, or the user cancelled, or too few mints are left for the ticker; the
\* tokens are handed over if there are any.
EndOfMints ==
    /\ stage = "mint"
    /\ \E next \in {"refund"} \cup (IF finished > 0 THEN {"transfer"} ELSE {}) : stage' = next
    /\ UNCHANGED <<mints, limit, balance, locked, finished>>

TransferCommit ==
    /\ stage = "transfer"
    /\ CommitOf(TransferCost, "transferReveal")
    /\ UNCHANGED <<mints, limit, finished>>

TransferReveal ==
    /\ stage = "transferReveal"
    /\ RevealOf(TransferCost, "refund")
    /\ UNCHANGED <<mints, limit, finished>>

\* transferAllRemainingKaspa: the commission to the commission wallet, and to the owner the
\* rest, which pays the fees and must be above the minimum.
Refund ==
    LET commission == IF finished = 0 THEN 0 ELSE Commission(finished) IN
    /\ stage = "refund"
    /\ \E m \in Masses, p \in Priorities :
           IF balance <= commission + Minimal \/ balance < commission + m + p
           THEN stage' = "short" /\ UNCHANGED balance
           ELSE stage' = "end" /\ balance' = 0
    /\ UNCHANGED <<mints, limit, locked, finished>>

BudgetNext ==
    \/ Paid \/ MintCommit \/ MintReveal \/ EndOfMints
    \/ TransferCommit \/ TransferReveal \/ Refund

BudgetSpec == BudgetInit /\ [][BudgetNext]_budgetVars

-----------------------------------------------------------------------------
(* Properties                                                              *)

\* Every variable has its type.
BudgetTypeOK ==
    /\ mints \in 0..MaxMints /\ limit \in FeeLimits \cup {0}
    /\ balance \in Nat /\ locked \in Nat
    /\ finished \in 0..mints
    /\ stage \in {"unpaid", "mint", "mintReveal", "transfer", "transferReveal", "refund", "end", "short"}

\* What the owner was asked for is enough, however the fees move within their limit and
\* whenever the mints end: no transaction of the batch is refused for lack of KAS, and each
\* leaves more than the smallest amount that can be sent
\* (kaspa-network-actions.service.ts:64-91, 341-417).
BudgetSuffices ==
    /\ stage # "short"
    /\ stage \notin {"unpaid", "end"} => balance > Minimal
=============================================================================
