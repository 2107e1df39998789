----------------------------- MODULE P2pOrderV2 -----------------------------
(***************************************************************************)
(* Orders of the decentralized order book.  The seller's tokens stay in a  *)
(* listing output on the chain; an order is a PSKT, a transaction signed   *)
(* in part that lets whoever completes it take the tokens for the order's  *)
(* price.  The backend holds no money: it is told that an order was sold,  *)
(* and verifies this against Kasplex and the Kaspa API, holding the order  *)
(* in VERIFYING meanwhile.                                                 *)
(*                                                                         *)
(* All orders of this module are made from one listing, which their        *)
(* verifications share; listings are independent.  A request (req[r]) is   *)
(* sequential code between awaits, as in P2pOrder.                         *)
(***************************************************************************)
EXTENDS Naturals, Sequences

CONSTANTS Requests,   \* concurrent API requests
          Pskts,      \* the PSKTs signed by the seller for the listing
          ValidPskts, \* those that verifyPsktSellOrder accepts when its calls succeed
          PriceOf,    \* totalPrice of each
          Buyers, Seller, NoWallet,
          PsktFaults  \* whether requests crash and their calls fail

Wallets == Buyers \cup {Seller}
Prices == {PriceOf[o] : o \in Pskts}

ASSUME PsktAssumption ==
    /\ NoWallet \notin Wallets
    /\ Pskts # {} /\ ValidPskts \subseteq Pskts
    /\ PriceOf \in [Pskts -> Nat \ {0}]
    /\ PsktFaults \in BOOLEAN

\* A transaction that spends the listing: who paid with other inputs than the listing, and
\* what its first output to the seller is worth (0: there is none).
Spends == [senders: SUBSET Wallets, toSeller: Prices \cup {0}]
Unspent == [senders |-> {NoWallet}, toSeller |-> 0]

PsktStatuses == {"NONE", "LISTED_FOR_SALE", "VERIFYING", "FAILED_VERIFICATION", "COMPLETED",
                 "CANCELED", "PSKT_VERIFICATION_ERROR"}

\* A transaction id is the listing's spending transaction or any other.
TxIds == {"spend", "other"}
Verdicts == {"unverified", "bought", "withdrawn"}

VARIABLES doc,        \* the document of each order, status "NONE" before it exists
          spend,      \* the transaction that spent the listing, or Unspent
          indexed,    \* whether Kasplex has taken it into account
          req,        \* the local state of each request
          abandoned   \* history: orders a request left in VERIFYING by failing

psktVars == <<doc, spend, indexed, req, abandoned>>

PsktIdle == [pc |-> "idle", order |-> CHOOSE o \in Pskts : TRUE, txs |-> <<>>, verified |-> FALSE,
             verdict |-> "unverified"]

PsktInit ==
    /\ doc = [o \in Pskts |-> [status |-> "NONE", buyer |-> NoWallet, sendTx |-> "none"]]
    /\ spend = Unspent
    /\ indexed = FALSE
    /\ req = [r \in Requests |-> PsktIdle]
    /\ abandoned = {}

At(r, pc) == req[r].pc = pc
Goto(r, pc) == req' = [req EXCEPT ![r].pc = pc]
Return(r) == req' = [req EXCEPT ![r] = PsktIdle]
Status(o) == doc[o].status

-----------------------------------------------------------------------------
(* The listing, and those who spend it.                                    *)

\* Somebody completes the PSKT of a published order, alone or with a second wallet's inputs.
BuyListing(o) ==
    /\ spend = Unspent /\ Status(o) # "NONE"
    /\ \E S \in (SUBSET Buyers) \ {{}} : spend' = [senders |-> S, toSeller |-> PriceOf[o]]
    /\ UNCHANGED <<doc, indexed, req, abandoned>>

\* The seller may spend its listing in any way, with or without further inputs of its own.
SpendListing ==
    /\ spend = Unspent
    /\ \E S \in SUBSET {Seller}, m \in Prices \cup {0} : spend' = [senders |-> S, toSeller |-> m]
    /\ UNCHANGED <<doc, indexed, req, abandoned>>

IndexSpend ==
    /\ spend # Unspent /\ ~indexed
    /\ indexed' = TRUE
    /\ UNCHANGED <<doc, spend, req, abandoned>>

-----------------------------------------------------------------------------
(* createOrder                                                             *)

\* verifyPsktSellOrder: the PSKT itself, then the list operation in Kasplex.  A failed call
\* counts as a PSKT that is wrong.
VerifyPskt(r, o) ==
    /\ At(r, "idle")
    /\ \E ok \in BOOLEAN :
           /\ IF ok THEN o \in ValidPskts ELSE o \notin ValidPskts \/ PsktFaults
           /\ req' = [req EXCEPT ![r].pc = "insert", ![r].order = o, ![r].verified = ok]
    /\ UNCHANGED <<doc, spend, indexed, abandoned>>

\* createIfNotExists by psktSeller: the status is set on insertion only.
Insert(r) ==
    LET o == req[r].order IN
    /\ At(r, "insert")
    /\ doc' = IF Status(o) # "NONE" THEN doc
              ELSE [doc EXCEPT ![o].status =
                       IF req[r].verified THEN "LISTED_FOR_SALE" ELSE "PSKT_VERIFICATION_ERROR"]
    /\ Return(r)
    /\ UNCHANGED <<spend, indexed, abandoned>>

-----------------------------------------------------------------------------
(* verify                                                                  *)

\* With the id of the sending transaction, or without one.
VerifyRequest(r, o) ==
    /\ At(r, "idle") /\ Status(o) # "NONE"
    /\ \E txs \in {<<>>} \cup {<<t>> : t \in TxIds} :
           req' = [req EXCEPT ![r].pc = "lock", ![r].order = o, ![r].txs = txs]
    /\ UNCHANGED <<doc, spend, indexed, abandoned>>

Transition(o, from, change) == Status(o) = from /\ doc' = [doc EXCEPT ![o] = change]
WithStatus(o, s) == [doc[o] EXCEPT !.status = s]

\* updateStatusToVerifying: from LISTED_FOR_SALE ...
LockListed(r) ==
    LET o == req[r].order IN
    /\ At(r, "lock")
    /\ \/ Transition(o, "LISTED_FOR_SALE", WithStatus(o, "VERIFYING")) /\ Goto(r, "market")
       \/ Status(o) # "LISTED_FOR_SALE" /\ UNCHANGED doc /\ Goto(r, "lockFailed")
    /\ UNCHANGED <<spend, indexed, abandoned>>

\* Mutant of LockFailed: an order that is being verified is verified again.
LockFailedOrBusy(r) ==
    LET o == req[r].order IN
    /\ At(r, "lockFailed")
    /\ \/ /\ Status(o) \in {"FAILED_VERIFICATION", "VERIFYING"}
          /\ doc' = [doc EXCEPT ![o].status = "VERIFYING"]
          /\ Goto(r, "market")
       \/ Status(o) \notin {"FAILED_VERIFICATION", "VERIFYING"} /\ UNCHANGED doc /\ Return(r)
    /\ UNCHANGED <<spend, indexed, abandoned>>

\* ... or else from FAILED_VERIFICATION; in any other status the order is returned as it is.
LockFailed(r) ==
    LET o == req[r].order IN
    /\ At(r, "lockFailed")
    /\ \/ Transition(o, "FAILED_VERIFICATION", WithStatus(o, "VERIFYING")) /\ Goto(r, "market")
       \/ Status(o) # "FAILED_VERIFICATION" /\ UNCHANGED doc /\ Return(r)
    /\ UNCHANGED <<spend, indexed, abandoned>>

\* validateMarketplaceOrderOffMarket: whether one of ten queries finds the order gone.  Calls
\* that fail look like an order that is still there.
OffMarket == spend # Unspent /\ indexed

\* Mutant of Market: an order that is still on the market is returned as it is.
MarketReturning(r) ==
    /\ At(r, "market")
    /\ \/ OffMarket /\ Goto(r, IF req[r].txs = <<>> THEN "search" ELSE "check")
       \/ (~OffMarket \/ PsktFaults) /\ Return(r)
    /\ UNCHANGED <<doc, spend, indexed, abandoned>>

Market(r) ==
    /\ At(r, "market")
    /\ \/ OffMarket /\ Goto(r, IF req[r].txs = <<>> THEN "search" ELSE "check")
       \/ (~OffMarket \/ PsktFaults) /\ Goto(r, "reopen")
    /\ UNCHANGED <<doc, spend, indexed, abandoned>>

\* reopenSellOrder
Reopen(r) ==
    LET o == req[r].order IN
    /\ At(r, "reopen")
    /\ Transition(o, "VERIFYING", WithStatus(o, "LISTED_FOR_SALE"))
    /\ Return(r)
    /\ UNCHANGED <<spend, indexed, abandoned>>

\* findSendOrderPossibleTransactions: the send operations of the seller for as many tokens, at
\* the order's price or more or at none; other sales of the seller may come first.
Candidates(o) ==
    LET found == IF spend.senders = {} \/ spend.toSeller >= PriceOf[o] THEN <<"spend">> ELSE <<>>
    IN  {found, <<"other">> \o found}

Search(r) ==
    /\ At(r, "search")
    /\ \E txs \in Candidates(req[r].order) :
           req' = [req EXCEPT ![r].txs = txs, ![r].pc = IF txs = <<>> THEN "decide" ELSE "check"]
    /\ UNCHANGED <<doc, spend, indexed, abandoned>>

\* Mutant of Verdict: what the seller received is not compared with the price.
VerdictWithoutPrice(t, o) ==
    IF t # "spend" \/ spend = Unspent \/ spend.toSeller = 0 THEN "unverified"
    ELSE IF spend.senders = {} THEN "withdrawn"
    ELSE IF \E w \in Wallets : spend.senders = {w} THEN "bought" ELSE "unverified"

\* verifySendTransactionAndGetCommission, in the order of its returns; what it throws counts as
\* not verified.
Verdict(t, o) ==
    IF t # "spend" \/ spend = Unspent \/ spend.toSeller = 0 THEN "unverified"
    ELSE IF spend.senders = {} THEN "withdrawn"
    ELSE IF spend.toSeller >= PriceOf[o] /\ \E w \in Wallets : spend.senders = {w} THEN "bought"
    ELSE "unverified"

\* One transaction after the other, until one is verified; a failed call is no verification.
CheckTx(r) ==
    /\ At(r, "check")
    /\ \E v \in {Verdict(Head(req[r].txs), req[r].order)} \cup (IF PsktFaults THEN {"unverified"} ELSE {}) :
           IF v # "unverified" \/ Len(req[r].txs) = 1
           THEN req' = [req EXCEPT ![r].pc = "decide", ![r].verdict = v]
           ELSE req' = [req EXCEPT ![r].txs = Tail(@)]
    /\ UNCHANGED <<doc, spend, indexed, abandoned>>

\* setOrderToCompleted, setOrderToCanceled, setOrderToFailedVerification
Decision(r) ==
    LET o == req[r].order
        tx == IF req[r].txs = <<>> THEN "none" ELSE Head(req[r].txs)
        buyer == CHOOSE w \in Wallets : spend.senders = {w}
    IN  CASE req[r].verdict = "bought" -> [status |-> "COMPLETED", buyer |-> buyer, sendTx |-> tx]
          [] req[r].verdict = "withdrawn" -> [doc[o] EXCEPT !.status = "CANCELED", !.sendTx = tx]
          [] OTHER -> WithStatus(o, "FAILED_VERIFICATION")

Decide(r) ==
    /\ At(r, "decide")
    /\ Transition(req[r].order, "VERIFYING", Decision(r))
    /\ Return(r)
    /\ UNCHANGED <<spend, indexed, abandoned>>

-----------------------------------------------------------------------------
(* Crashes, and exceptions of database and Kasplex calls: nothing takes    *)
(* the order out of VERIFYING.                                             *)

Holds(r) == req[r].pc \in {"market", "reopen", "search", "check", "decide"}

PsktFail(r) ==
    /\ PsktFaults /\ ~At(r, "idle")
    /\ abandoned' = IF Holds(r) THEN abandoned \cup {req[r].order} ELSE abandoned
    /\ Return(r)
    /\ UNCHANGED <<doc, spend, indexed>>

VerifySteps(r) ==
    LockListed(r) \/ LockFailed(r) \/ Market(r) \/ Reopen(r) \/ Search(r) \/ CheckTx(r) \/ Decide(r)

PsktNext ==
    \/ \E o \in Pskts : BuyListing(o)
    \/ SpendListing \/ IndexSpend
    \/ \E r \in Requests, o \in Pskts : VerifyPskt(r, o) \/ VerifyRequest(r, o)
    \/ \E r \in Requests : Insert(r) \/ VerifySteps(r) \/ PsktFail(r)

PsktSpec == PsktInit /\ [][PsktNext]_psktVars

\* A request that began goes on until it returns or fails.
PsktFairness == \A r \in Requests : WF_psktVars(VerifySteps(r))

-----------------------------------------------------------------------------
(* Properties                                                              *)

Documents == [status: PsktStatuses, buyer: Wallets \cup {NoWallet}, sendTx: TxIds \cup {"none"}]
Locals == [pc: {"idle", "insert", "lock", "lockFailed", "market", "reopen", "search", "check", "decide"},
           order: Pskts, txs: Seq(TxIds), verified: BOOLEAN, verdict: Verdicts]

\* Every variable has its type.
PsktTypeOK ==
    /\ doc \in [Pskts -> Documents]
    /\ spend \in Spends \cup {Unspent}
    /\ indexed \in BOOLEAN
    /\ req \in [Requests -> Locals]
    /\ abandoned \subseteq Pskts

\* VERIFYING is a lock: an order is in it exactly while one request verifies the order, or for
\* ever after a request failed while it did (providers/p2p-v2.provider.ts:82-155).
VerifyingHeld ==
    \A o \in Pskts :
        LET holders == {r \in Requests : Holds(r) /\ req[r].order = o} IN
        /\ \A r1, r2 \in holders : r1 = r2
        /\ Status(o) = "VERIFYING" <=> holders # {} \/ o \in abandoned

\* The order book implements the sale of the listing: what it says of a closed order is what
\* happened on the chain, and stays (services/p2p-orders-v2.service.ts:67-101).
Sale == INSTANCE PsktSale WITH
    taken <- spend,
    outcome <- [o \in Pskts |-> CASE Status(o) = "COMPLETED" -> "sold"
                                  [] Status(o) = "CANCELED" -> "withdrawn"
                                  [] OTHER -> "open"],
    soldTo <- [o \in Pskts |-> doc[o].buyer]

ImplementsSale == Sale!SaleSpec

\* A verification ends: the order leaves VERIFYING unless a request fails
\* (providers/p2p-v2.provider.ts:101-146).
VerifyingEnds ==
    \A o \in Pskts : Status(o) = "VERIFYING" ~> (Status(o) # "VERIFYING" \/ o \in abandoned)
=============================================================================
