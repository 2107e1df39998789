-------------------------- MODULE P2pOrderV2_proofs --------------------------
(***************************************************************************)
(* Proofs about PSKT orders, for any requests, PSKTs, prices and buyers,   *)
(* with failing calls and crashes.                                         *)
(*                                                                         *)
(* VERIFYING is a lock because the transition into it is a compare-and-set *)
(* from a status in which nobody holds the order, and every way out of it  *)
(* is its holder's.  The refinement rests on one more fact: the verdict a  *)
(* request decides by says what the listing's one spending transaction is. *)
(***************************************************************************)
EXTENDS P2pOrderV2, SequenceTheorems, TLAPS

\* A transaction is checked only when there is one.
TxToCheck == \A r \in Requests : At(r, "check") => req[r].txs # <<>>

\* VerifyingHeld, said of the requests one by one.
HoldersApart ==
    \A r1, r2 \in Requests :
        Holds(r1) /\ Holds(r2) /\ req[r1].order = req[r2].order => r1 = r2
HoldersVerifying ==
    \A r \in Requests : Holds(r) => Status(req[r].order) = "VERIFYING" /\ req[r].order \notin abandoned
VerifyingLocked ==
    \A o \in Pskts : Status(o) = "VERIFYING" =>
        o \in abandoned \/ \E r \in Requests : Holds(r) /\ req[r].order = o
AbandonedVerifying == \A o \in abandoned : Status(o) = "VERIFYING"

Locks == HoldersApart /\ HoldersVerifying /\ VerifyingLocked /\ AbandonedVerifying

\* A verdict is about the transaction that spent the listing.
VerdictsTrue ==
    \A r \in Requests :
        /\ ~At(r, "decide") => req[r].verdict = "unverified"
        /\ req[r].verdict = "bought" => Sale!Buys(spend, req[r].order)
        /\ req[r].verdict = "withdrawn" => Sale!Withdraws(spend)

PsktInv == PsktTypeOK /\ TxToCheck /\ Locks /\ VerdictsTrue

-----------------------------------------------------------------------------
(* Facts about the data.                                                   *)

LEMMA TxSequences ==
  ASSUME NEW s \in Seq(TxIds), s # <<>>
  PROVE  /\ Head(s) \in TxIds /\ Tail(s) \in Seq(TxIds)
         /\ Len(s) # 1 => Tail(s) # <<>>
<1>1. Head(s) \in TxIds /\ Tail(s) \in Seq(TxIds) /\ Len(Tail(s)) = Len(s) - 1 /\ Len(s) \in Nat
  BY HeadTailProperties
<1>2. Tail(s) = <<>> => Len(Tail(s)) = 0
  BY EmptySeq
<1> QED
  BY <1>1, <1>2

LEMMA ShortSequences == <<>> \in Seq(TxIds) /\ \A t \in TxIds : <<t>> \in Seq(TxIds)
  OBVIOUS

LEMMA PricesPositive == (\A m \in Prices : m \in Nat \ {0}) /\ (\A o \in Pskts : PriceOf[o] \in Prices)
  BY PsktAssumption DEF Prices

LEMMA VerdictType ==
  ASSUME NEW t, NEW o
  PROVE  Verdict(t, o) \in Verdicts
  BY DEF Verdict, Verdicts

\* What verifySendTransactionAndGetCommission finds is what the transaction is.
LEMMA VerdictMeans ==
  ASSUME PsktTypeOK, NEW t, NEW o \in Pskts
  PROVE  /\ Verdict(t, o) = "bought" => Sale!Buys(spend, o)
         /\ Verdict(t, o) = "withdrawn" => Sale!Withdraws(spend)
<1>1. spend.toSeller \in Nat
  <2>1. CASE spend = Unspent
    BY <2>1 DEF Unspent
  <2>2. CASE spend \in Spends
    <3>1. spend.toSeller \in Prices \cup {0}
      BY <2>2 DEF Spends
    <3> QED
      BY <3>1, PricesPositive
  <2> QED
    BY <2>1, <2>2 DEF PsktTypeOK
<1> QED
  BY <1>1 DEF Verdict, Sale!Buys, Sale!Withdraws

LEMMA IdleType == PsktIdle \in Locals
<1>1. (CHOOSE o \in Pskts : TRUE) \in Pskts
  BY PsktAssumption
<1> QED
  BY <1>1 DEF PsktIdle, Locals, Verdicts

LEMMA PsktInvInit == PsktInit => PsktInv
<1> SUFFICES ASSUME PsktInit PROVE PsktInv
  OBVIOUS
<1>1. PsktTypeOK
  BY IdleType DEF PsktInit, PsktTypeOK, Documents, PsktStatuses
<1>2. TxToCheck
  BY DEF PsktInit, TxToCheck, At, PsktIdle
<1>3. Locks
  BY DEF PsktInit, Locks, HoldersApart, HoldersVerifying, VerifyingLocked, AbandonedVerifying,
         Holds, PsktIdle, Status
<1>4. VerdictsTrue
  BY DEF PsktInit, VerdictsTrue, PsktIdle
<1> QED
  BY <1>1, <1>2, <1>3, <1>4 DEF PsktInv

-----------------------------------------------------------------------------
(* The types.                                                              *)

LEMMA ChainType ==
  ASSUME PsktTypeOK, SpendListing \/ IndexSpend \/ \E o \in Pskts : BuyListing(o)
  PROVE  PsktTypeOK'
<1>1. CASE SpendListing
  <2>1. PICK S \in SUBSET {Seller}, m \in Prices \cup {0} : spend' = [senders |-> S, toSeller |-> m]
    BY <1>1 DEF SpendListing
  <2>2. spend' \in Spends
    BY <2>1 DEF Spends, Wallets
  <2> QED
    BY <1>1, <2>2 DEF SpendListing, PsktTypeOK
<1>2. ASSUME NEW o \in Pskts, BuyListing(o) PROVE PsktTypeOK'
  <2>1. PICK S \in (SUBSET Buyers) \ {{}} : spend' = [senders |-> S, toSeller |-> PriceOf[o]]
    BY <1>2 DEF BuyListing
  <2>2. spend' \in Spends
    BY <2>1, PricesPositive DEF Spends, Wallets
  <2> QED
    BY <1>2, <2>2 DEF BuyListing, PsktTypeOK
<1>3. CASE IndexSpend
  BY <1>3 DEF IndexSpend, PsktTypeOK
<1> QED
  BY <1>1, <1>2, <1>3

\* The local states.
LEMMA ReturnType ==
  ASSUME PsktTypeOK, NEW r \in Requests, Return(r)
  PROVE  req' \in [Requests -> Locals]
  BY IdleType DEF PsktTypeOK, Return

LEMMA GotoType ==
  ASSUME PsktTypeOK, NEW r \in Requests, NEW pc, Goto(r, pc),
         pc \in {"idle", "insert", "lock", "lockFailed", "market", "reopen", "search", "check", "decide"}
  PROVE  req' \in [Requests -> Locals]
  BY DEF PsktTypeOK, Goto, Locals

LEMMA SearchType ==
  ASSUME PsktTypeOK, NEW r \in Requests, Search(r)
  PROVE  req' \in [Requests -> Locals]
<1>1. PICK txs \in Candidates(req[r].order) :
         req' = [req EXCEPT ![r].txs = txs, ![r].pc = IF txs = <<>> THEN "decide" ELSE "check"]
  BY DEF Search
<1>2. txs \in Seq(TxIds)
  <2> DEFINE found == IF spend.senders = {} \/ spend.toSeller >= PriceOf[req[r].order]
                      THEN <<"spend">> ELSE <<>>
  <2>1. found \in Seq(TxIds) /\ <<"other">> \in Seq(TxIds)
    <3>1. {"spend", "other"} \subseteq TxIds
      BY DEF TxIds
    <3>2. <<>> \in Seq(TxIds) /\ <<"spend">> \in Seq(TxIds) /\ <<"other">> \in Seq(TxIds)
      BY <3>1, ShortSequences
    <3> QED
      BY <3>2
  <2>2. <<"other">> \o found \in Seq(TxIds)
    BY <2>1, ConcatProperties
  <2> QED
    BY <1>1, <2>1, <2>2 DEF Candidates
<1> QED
  BY ZenonT(60), <1>1, <1>2 DEF PsktTypeOK, Locals

LEMMA CheckTxType ==
  ASSUME PsktTypeOK, TxToCheck, NEW r \in Requests, CheckTx(r)
  PROVE  req' \in [Requests -> Locals]
<1>1. req[r].txs \in Seq(TxIds) /\ req[r].txs # <<>>
  BY DEF PsktTypeOK, Locals, CheckTx, TxToCheck
<1>2. PICK v \in {Verdict(Head(req[r].txs), req[r].order)}
                  \cup (IF PsktFaults THEN {"unverified"} ELSE {}) :
         IF v # "unverified" \/ Len(req[r].txs) = 1
         THEN req' = [req EXCEPT ![r].pc = "decide", ![r].verdict = v]
         ELSE req' = [req EXCEPT ![r].txs = Tail(@)]
  BY DEF CheckTx
<1>3. v \in Verdicts
  BY <1>2, VerdictType DEF Verdicts
<1>4. Tail(req[r].txs) \in Seq(TxIds)
  BY <1>1, TxSequences
<1>5. \/ req' = [req EXCEPT ![r].pc = "decide", ![r].verdict = v]
      \/ req' = [req EXCEPT ![r].txs = Tail(req[r].txs)]
  BY <1>2
<1>6. CASE req' = [req EXCEPT ![r].pc = "decide", ![r].verdict = v]
  BY <1>3, <1>6 DEF PsktTypeOK, Locals
<1>7. ASSUME NEW s \in Seq(TxIds), req' = [req EXCEPT ![r].txs = s]
      PROVE  req' \in [Requests -> Locals]
  BY <1>7 DEF PsktTypeOK, Locals
<1> QED
  BY <1>4, <1>5, <1>6, <1>7

LEMMA BeginType ==
  ASSUME PsktTypeOK, NEW r \in Requests, NEW o \in Pskts, VerifyPskt(r, o) \/ VerifyRequest(r, o)
  PROVE  req' \in [Requests -> Locals]
<1>1. CASE VerifyPskt(r, o)
  <2>1. PICK ok \in BOOLEAN :
           req' = [req EXCEPT ![r].pc = "insert", ![r].order = o, ![r].verified = ok]
    BY <1>1 DEF VerifyPskt
  <2> QED
    BY ZenonT(60), <2>1 DEF PsktTypeOK, Locals
<1>2. CASE VerifyRequest(r, o)
  <2>1. PICK txs \in {<<>>} \cup {<<t>> : t \in TxIds} :
           req' = [req EXCEPT ![r].pc = "lock", ![r].order = o, ![r].txs = txs]
    BY <1>2 DEF VerifyRequest
  <2>2. txs \in Seq(TxIds)
    BY <2>1, ShortSequences
  <2> QED
    BY ZenonT(60), <2>1, <2>2 DEF PsktTypeOK, Locals
<1> QED
  BY <1>1, <1>2

LEMMA BeginLocal ==
  ASSUME PsktTypeOK, NEW r \in Requests, NEW o \in Pskts, VerifyPskt(r, o) \/ VerifyRequest(r, o)
  PROVE  /\ req[r].pc = "idle" /\ req'[r].pc \in {"insert", "lock"}
         /\ req'[r].verdict = req[r].verdict
         /\ \A q \in Requests \ {r} : req'[q] = req[q]
<1>1. CASE VerifyPskt(r, o)
  <2>1. PICK ok \in BOOLEAN :
           req' = [req EXCEPT ![r].pc = "insert", ![r].order = o, ![r].verified = ok]
    BY <1>1 DEF VerifyPskt
  <2> QED
    BY <1>1, <2>1 DEF VerifyPskt, At, PsktTypeOK, Locals
<1>2. CASE VerifyRequest(r, o)
  <2>1. PICK txs : req' = [req EXCEPT ![r].pc = "lock", ![r].order = o, ![r].txs = txs]
    BY <1>2 DEF VerifyRequest
  <2> QED
    BY <1>2, <2>1 DEF VerifyRequest, At, PsktTypeOK, Locals
<1> QED
  BY <1>1, <1>2

\* The buyer of a completed order is a wallet: the one that sent the transaction.
LEMMA BuyerFound ==
  ASSUME NEW o, Sale!Buys(spend, o)
  PROVE  LET buyer == CHOOSE w \in Wallets : spend.senders = {w}
         IN  buyer \in Wallets /\ spend.senders = {buyer}
  BY DEF Sale!Buys

LEMMA DecisionType ==
  ASSUME PsktTypeOK, VerdictsTrue, NEW r \in Requests
  PROVE  Decision(r) \in Documents
<1> DEFINE o == req[r].order
           tx == IF req[r].txs = <<>> THEN "none" ELSE Head(req[r].txs)
           buyer == CHOOSE w \in Wallets : spend.senders = {w}
<1>1. o \in Pskts /\ doc[o] \in Documents
  BY DEF PsktTypeOK, Locals
<1>2. tx \in TxIds \cup {"none"}
  <2>1. req[r].txs \in Seq(TxIds)
    BY DEF PsktTypeOK, Locals
  <2> QED
    BY <2>1, TxSequences
<1>3. req[r].verdict = "bought" => buyer \in Wallets
  BY BuyerFound DEF VerdictsTrue
<1> HIDE DEF o, tx, buyer
<1>4. Decision(r) = CASE req[r].verdict = "bought" -> [status |-> "COMPLETED", buyer |-> buyer, sendTx |-> tx]
                      [] req[r].verdict = "withdrawn" -> [doc[o] EXCEPT !.status = "CANCELED", !.sendTx = tx]
                      [] OTHER -> [doc[o] EXCEPT !.status = "FAILED_VERIFICATION"]
  BY DEF Decision, o, tx, buyer, WithStatus
<1>5. CASE req[r].verdict = "bought"
  BY <1>2, <1>3, <1>4, <1>5 DEF Documents, PsktStatuses
<1>6. CASE req[r].verdict = "withdrawn"
  BY <1>1, <1>2, <1>4, <1>6 DEF Documents, PsktStatuses
<1>7. CASE req[r].verdict \notin {"bought", "withdrawn"}
  BY <1>1, <1>4, <1>7 DEF Documents, PsktStatuses
<1> QED
  BY <1>5, <1>6, <1>7

LEMMA PsktTypeStep ==
  ASSUME PsktTypeOK, TxToCheck, VerdictsTrue, [PsktNext]_psktVars
  PROVE  PsktTypeOK'
<1>1. CASE SpendListing \/ IndexSpend \/ \E o \in Pskts : BuyListing(o)
  BY <1>1, ChainType
<1>2. ASSUME NEW r \in Requests, NEW o \in Pskts, VerifyPskt(r, o) \/ VerifyRequest(r, o) PROVE PsktTypeOK'
  <2>1. req' \in [Requests -> Locals]
    BY <1>2, BeginType
  <2> QED
    BY <1>2, <2>1 DEF VerifyPskt, VerifyRequest, PsktTypeOK
<1>3. ASSUME NEW r \in Requests, Insert(r) \/ VerifySteps(r) \/ PsktFail(r) PROVE PsktTypeOK'
  <2>1. req' \in [Requests -> Locals]
    <3>1. CASE Insert(r) \/ Reopen(r) \/ Decide(r) \/ PsktFail(r)
      BY <3>1, ReturnType DEF Insert, Reopen, Decide, PsktFail
    <3>2. CASE LockListed(r) \/ LockFailed(r) \/ Market(r)
      BY <3>2, ReturnType, GotoType DEF LockListed, LockFailed, Market
    <3>3. CASE Search(r) \/ CheckTx(r)
      BY <3>3, SearchType, CheckTxType
    <3> QED
      BY <1>3, <3>1, <3>2, <3>3 DEF VerifySteps
  <2>2. req[r].order \in Pskts
    BY DEF PsktTypeOK, Locals
  <2>3. doc' \in [Pskts -> Documents]
    <3>1. CASE Insert(r)
      BY <2>2, <3>1 DEF Insert, PsktTypeOK, Documents, PsktStatuses
    <3>2. CASE LockListed(r) \/ LockFailed(r) \/ Reopen(r)
      BY <2>2, <3>2 DEF LockListed, LockFailed, Reopen, Transition, WithStatus, PsktTypeOK, Documents, PsktStatuses
    <3>3. CASE Decide(r)
      BY <2>2, <3>3, DecisionType DEF Decide, Transition, PsktTypeOK
    <3>4. CASE Market(r) \/ Search(r) \/ CheckTx(r) \/ PsktFail(r)
      BY <3>4 DEF Market, Search, CheckTx, PsktFail, PsktTypeOK
    <3> QED
      BY <1>3, <3>1, <3>2, <3>3, <3>4 DEF VerifySteps
  <2>4. UNCHANGED <<spend, indexed>>
    BY <1>3 DEF VerifySteps, Insert, LockListed, LockFailed, Reopen, Market, Search, CheckTx, Decide, PsktFail
  <2>5. abandoned' \subseteq Pskts
    BY <1>3, <2>2 DEF VerifySteps, Insert, LockListed, LockFailed, Reopen, Market, Search, CheckTx, Decide,
       PsktFail, PsktTypeOK
  <2> QED
    BY <2>1, <2>3, <2>4, <2>5 DEF PsktTypeOK
<1>4. CASE UNCHANGED psktVars
  BY <1>4 DEF psktVars, PsktTypeOK
<1> QED
  BY <1>1, <1>2, <1>3, <1>4 DEF PsktNext

-----------------------------------------------------------------------------
(* The lock.  In each step of a request the others are left as they are.   *)

OthersSame(r) == \A q \in Requests \ {r} : req'[q] = req[q]

\* A step in which nobody's hold, and no status that matters to it, changes.
LEMMA LocksSame ==
  ASSUME PsktTypeOK, Locks, UNCHANGED abandoned,
         \A q \in Requests : (Holds(q)' <=> Holds(q)) /\ (Holds(q) => req'[q].order = req[q].order),
         \A o \in Pskts : Status(o)' = "VERIFYING" <=> Status(o) = "VERIFYING"
  PROVE  Locks'
  BY DEF PsktTypeOK, Locals, Locks, HoldersApart, HoldersVerifying, VerifyingLocked, AbandonedVerifying

\* A request that is in no verification takes an order that is not verified.
LEMMA LocksTaken ==
  ASSUME PsktTypeOK, Locks, UNCHANGED abandoned, NEW r \in Requests, OthersSame(r),
         ~Holds(r), Holds(r)', req'[r].order = req[r].order, Status(req[r].order) # "VERIFYING",
         \A o \in Pskts : Status(o)' = "VERIFYING" <=> Status(o) = "VERIFYING" \/ o = req[r].order
  PROVE  Locks'
<1>1. \A q \in Requests : (Holds(q)' <=> Holds(q) \/ q = r) /\ (Holds(q)' => req'[q].order = req[q].order)
  BY DEF OthersSame, Holds
<1>2. \A q \in Requests : req[q].order \in Pskts
  BY DEF PsktTypeOK, Locals
<1>3. req[r].order \notin abandoned
  BY DEF Locks, AbandonedVerifying
<1>4. HoldersApart'
  BY <1>1, <1>2 DEF Locks, HoldersApart, HoldersVerifying
<1>5. HoldersVerifying'
  BY <1>1, <1>2, <1>3 DEF Locks, HoldersVerifying
<1>6. VerifyingLocked' /\ AbandonedVerifying'
  BY <1>1, <1>2 DEF PsktTypeOK, Locks, VerifyingLocked, AbandonedVerifying
<1> QED
  BY <1>4, <1>5, <1>6 DEF Locks

\* The holder of an order ends, and takes it out of VERIFYING or abandons it.
LEMMA LocksGiven ==
  ASSUME PsktTypeOK, Locks, NEW r \in Requests, OthersSame(r), Holds(r), ~Holds(r)',
         \/ UNCHANGED abandoned
            /\ \A o \in Pskts : Status(o)' = "VERIFYING" <=> Status(o) = "VERIFYING" /\ o # req[r].order
         \/ abandoned' = abandoned \cup {req[r].order}
            /\ \A o \in Pskts : Status(o)' = "VERIFYING" <=> Status(o) = "VERIFYING"
  PROVE  Locks'
<1>1. \A q \in Requests : (Holds(q)' <=> Holds(q) /\ q # r) /\ (Holds(q)' => req'[q].order = req[q].order)
  BY DEF OthersSame, Holds
<1>2. \A q \in Requests : req[q].order \in Pskts
  BY DEF PsktTypeOK, Locals
<1>3. \A q \in Requests : Holds(q)' => req[q].order # req[r].order
  BY <1>1 DEF Locks, HoldersApart
<1>4. HoldersApart'
  BY <1>1 DEF Locks, HoldersApart
<1>5. HoldersVerifying'
  BY <1>1, <1>2, <1>3 DEF Locks, HoldersVerifying
<1>6. VerifyingLocked'
  BY <1>1, <1>2 DEF Locks, VerifyingLocked
<1>7. AbandonedVerifying'
  BY <1>2 DEF PsktTypeOK, Locks, AbandonedVerifying, HoldersVerifying
<1> QED
  BY <1>4, <1>5, <1>6, <1>7 DEF Locks

LEMMA LocksStep ==
  ASSUME PsktTypeOK, Locks, VerdictsTrue, [PsktNext]_psktVars
  PROVE  Locks'
<1>1. CASE SpendListing \/ IndexSpend \/ \E o \in Pskts : BuyListing(o)
  BY <1>1, LocksSame DEF SpendListing, IndexSpend, BuyListing, Holds, Status
<1>2. ASSUME NEW r \in Requests, NEW o \in Pskts, VerifyPskt(r, o) \/ VerifyRequest(r, o) PROVE Locks'
  <2>1. ~Holds(r) /\ ~Holds(r)' /\ OthersSame(r) /\ UNCHANGED <<doc, abandoned>>
    BY <1>2, BeginLocal DEF VerifyPskt, VerifyRequest, Holds, OthersSame
  <2> QED
    BY <2>1, LocksSame DEF OthersSame, Holds, Status
<1>3. ASSUME NEW r \in Requests, Insert(r) \/ VerifySteps(r) \/ PsktFail(r) PROVE Locks'
  <2>1. req[r].order \in Pskts /\ req \in [Requests -> Locals]
    BY DEF PsktTypeOK, Locals
  <2>2. OthersSame(r)
    BY <1>3, <2>1 DEF OthersSame, VerifySteps, Insert, LockListed, LockFailed, Reopen, Market, Search,
       CheckTx, Decide, PsktFail, Return, Goto
  <2>3. CASE Insert(r)
    <3>1. ~Holds(r) /\ ~Holds(r)' /\ UNCHANGED abandoned
      BY <2>1, <2>3 DEF Insert, At, Holds, Return, PsktIdle
    <3>2. \A o \in Pskts : Status(o)' = "VERIFYING" <=> Status(o) = "VERIFYING"
      BY <2>1, <2>3 DEF Insert, Status, PsktTypeOK, Documents
    <3> QED
      BY <2>2, <3>1, <3>2, LocksSame DEF OthersSame, Holds
  <2>4. CASE LockListed(r) \/ LockFailed(r)
    <3>1. ~Holds(r) /\ UNCHANGED abandoned
      BY <2>4 DEF LockListed, LockFailed, At, Holds
    <3>2. CASE UNCHANGED doc
      <4>1. ~Holds(r)'
        <5>1. \A s : [doc EXCEPT ![req[r].order] = WithStatus(req[r].order, s)][req[r].order].status = s
          BY <2>1 DEF WithStatus, PsktTypeOK, Documents
        <5>2. Return(r) \/ Goto(r, "lockFailed")
          BY <2>4, <3>2, <5>1 DEF LockListed, LockFailed, Transition, Status
        <5> QED
          BY <2>1, <5>2 DEF Return, Goto, Holds, PsktIdle, Locals
      <4> QED
        BY <2>2, <3>1, <3>2, <4>1, LocksSame DEF OthersSame, Holds, Status
    <3>3. CASE /\ Status(req[r].order) # "VERIFYING" /\ Goto(r, "market")
               /\ doc' = [doc EXCEPT ![req[r].order] = WithStatus(req[r].order, "VERIFYING")]
      <4>1. Holds(r)' /\ req'[r].order = req[r].order
        BY <2>1, <3>3 DEF Goto, Holds, Locals
      <4>2. \A o \in Pskts : Status(o)' = "VERIFYING" <=> Status(o) = "VERIFYING" \/ o = req[r].order
        BY <2>1, <3>3 DEF Status, WithStatus, PsktTypeOK, Documents
      <4> QED
        BY <2>2, <3>1, <3>3, <4>1, <4>2, LocksTaken
    <3> QED
      BY <2>4, <3>2, <3>3 DEF LockListed, LockFailed, Transition
  <2>5. CASE Market(r) \/ Search(r) \/ CheckTx(r)
    <3>1. Holds(r) /\ Holds(r)' /\ req'[r].order = req[r].order /\ UNCHANGED <<doc, abandoned>>
      BY ZenonT(60), <2>1, <2>5 DEF Market, Search, CheckTx, At, Holds, Goto, Locals
    <3> QED
      BY <2>2, <3>1, LocksSame DEF OthersSame, Holds, Status
  <2>6. CASE Reopen(r) \/ Decide(r)
    <3>1. Holds(r) /\ ~Holds(r)' /\ UNCHANGED abandoned
      BY <2>1, <2>6 DEF Reopen, Decide, At, Holds, Return, PsktIdle
    <3>2. PICK d : d.status # "VERIFYING" /\ doc' = [doc EXCEPT ![req[r].order] = d]
      <4>1. CASE Reopen(r)
        BY <2>1, <4>1 DEF Reopen, Transition, WithStatus, PsktTypeOK, Documents
      <4>2. CASE Decide(r)
        <5>1. Decision(r).status # "VERIFYING"
          BY <2>1 DEF Decision, WithStatus, PsktTypeOK, Documents
        <5> QED
          BY <4>2, <5>1 DEF Decide, Transition
      <4> QED
        BY <2>6, <4>1, <4>2
    <3>3. \A o \in Pskts : Status(o)' = "VERIFYING" <=> Status(o) = "VERIFYING" /\ o # req[r].order
      BY <2>1, <3>2 DEF Status, PsktTypeOK
    <3> QED
      BY <2>2, <3>1, <3>3, LocksGiven
  <2>7. CASE PsktFail(r)
    <3>1. ~Holds(r)' /\ UNCHANGED doc
      BY <2>1, <2>7 DEF PsktFail, Return, Holds, PsktIdle
    <3>2. CASE Holds(r)
      BY <2>2, <2>7, <3>1, <3>2, LocksGiven DEF PsktFail, Status
    <3>3. CASE ~Holds(r)
      BY <2>2, <2>7, <3>1, <3>3, LocksSame DEF PsktFail, Status, OthersSame, Holds
    <3> QED
      BY <3>2, <3>3
  <2> QED
    BY <1>3, <2>3, <2>4, <2>5, <2>6, <2>7 DEF VerifySteps
<1>4. CASE UNCHANGED psktVars
  BY <1>4, LocksSame DEF psktVars, Holds, Status
<1> QED
  BY <1>1, <1>2, <1>3, <1>4 DEF PsktNext

-----------------------------------------------------------------------------
(* The verdicts.                                                           *)

LEMMA TxToCheckStep ==
  ASSUME PsktTypeOK, TxToCheck, [PsktNext]_psktVars
  PROVE  TxToCheck'
<1> USE DEF TxToCheck, At
<1>1. CASE UNCHANGED req
  BY <1>1
<1>2. ASSUME NEW r \in Requests, NEW o \in Pskts, VerifyPskt(r, o) \/ VerifyRequest(r, o) PROVE TxToCheck'
  BY <1>2, BeginLocal
<1>3. ASSUME NEW r \in Requests, Insert(r) \/ VerifySteps(r) \/ PsktFail(r) PROVE TxToCheck'
  <2>1. req[r].order \in Pskts /\ req \in [Requests -> Locals]
    BY DEF PsktTypeOK, Locals
  <2>2. CASE Return(r)
    BY <2>1, <2>2 DEF Return, PsktIdle
  <2>3. CASE LockListed(r) \/ LockFailed(r) \/ Market(r)
    BY <2>1, <2>2, <2>3 DEF LockListed, LockFailed, Market, Goto, Locals
  <2>4. CASE Search(r)
    BY <2>1, <2>4 DEF Search, Locals
  <2>5. CASE CheckTx(r)
    <3>1. req[r].txs \in Seq(TxIds) /\ req[r].txs # <<>>
      BY <2>1, <2>5 DEF CheckTx, Locals
    <3>2. PICK v : IF v # "unverified" \/ Len(req[r].txs) = 1
                   THEN req' = [req EXCEPT ![r].pc = "decide", ![r].verdict = v]
                   ELSE req' = [req EXCEPT ![r].txs = Tail(@)]
      BY <2>5 DEF CheckTx
    <3>3. CASE req' = [req EXCEPT ![r].pc = "decide", ![r].verdict = v]
      BY <2>1, <3>3 DEF Locals
    <3>4. ASSUME NEW s, s # <<>>, req' = [req EXCEPT ![r].txs = s] PROVE TxToCheck'
      BY <2>1, <3>4 DEF Locals
    <3>5. Len(req[r].txs) # 1 => Tail(req[r].txs) # <<>>
      BY <3>1, TxSequences
    <3> QED
      BY <3>2, <3>3, <3>4, <3>5
  <2> QED
    BY <1>3, <2>2, <2>3, <2>4, <2>5 DEF VerifySteps, Insert, Reopen, Decide, PsktFail
<1> QED
  BY <1>1, <1>2, <1>3 DEF PsktNext, psktVars, BuyListing, SpendListing, IndexSpend

\* The listing is spent once.
LEMMA SpentOnce ==
  ASSUME [PsktNext]_psktVars
  PROVE  spend' = spend \/ spend = Unspent
  BY DEF PsktNext, psktVars, BuyListing, SpendListing, IndexSpend, VerifyPskt, VerifyRequest, Insert,
     VerifySteps, LockListed, LockFailed, Reopen, Market, Search, CheckTx, Decide, PsktFail

LEMMA VerdictsStep ==
  ASSUME PsktTypeOK, TxToCheck, VerdictsTrue, [PsktNext]_psktVars
  PROVE  VerdictsTrue'
<1>1. CASE UNCHANGED req
  <2>1. \A o : ~Sale!Buys(Unspent, o)
    BY DEF Sale!Buys, Unspent
  <2>2. ~Sale!Withdraws(Unspent)
    BY DEF Sale!Withdraws, Unspent
  <2> QED
    BY <1>1, <2>1, <2>2, SpentOnce DEF VerdictsTrue, At
<1>2. ASSUME NEW r \in Requests, NEW o \in Pskts, VerifyPskt(r, o) \/ VerifyRequest(r, o) PROVE VerdictsTrue'
  <2>1. spend' = spend /\ OthersSame(r) /\ req'[r].verdict = "unverified"
    BY <1>2, BeginLocal DEF VerifyPskt, VerifyRequest, OthersSame, VerdictsTrue, At
  <2> QED
    BY <2>1 DEF OthersSame, VerdictsTrue, At
<1>3. ASSUME NEW r \in Requests, Insert(r) \/ VerifySteps(r) \/ PsktFail(r) PROVE VerdictsTrue'
  <2>1. req[r].order \in Pskts /\ req \in [Requests -> Locals]
    BY DEF PsktTypeOK, Locals
  <2>2. OthersSame(r) /\ UNCHANGED spend
    BY <1>3, <2>1 DEF OthersSame, VerifySteps, Insert, LockListed, LockFailed, Reopen, Market, Search,
       CheckTx, Decide, PsktFail, Return, Goto
  <2>3. CASE req'[r].verdict = "unverified"
    BY <2>2, <2>3 DEF OthersSame, VerdictsTrue, At
  <2>4. CASE CheckTx(r)
    <3>1. PICK v \in {Verdict(Head(req[r].txs), req[r].order)}
                       \cup (IF PsktFaults THEN {"unverified"} ELSE {}) :
            IF v # "unverified" \/ Len(req[r].txs) = 1
            THEN req' = [req EXCEPT ![r].pc = "decide", ![r].verdict = v]
            ELSE req' = [req EXCEPT ![r].txs = Tail(@)]
      BY <2>4 DEF CheckTx
    <3>2. /\ v = "bought" => Sale!Buys(spend, req[r].order)
          /\ v = "withdrawn" => Sale!Withdraws(spend)
      BY <2>1, <3>1, VerdictMeans
    <3>3. CASE req' = [req EXCEPT ![r].pc = "decide", ![r].verdict = v]
      <4>1. req'[r].pc = "decide" /\ req'[r].verdict = v /\ req'[r].order = req[r].order
        BY <2>1, <3>3 DEF Locals
      <4> QED
        BY <2>2, <3>2, <4>1 DEF OthersSame, VerdictsTrue, At
    <3>4. ASSUME NEW s, req' = [req EXCEPT ![r].txs = s] PROVE VerdictsTrue'
      <4>1. req'[r].verdict = req[r].verdict
        BY <2>1, <3>4 DEF Locals
      <4>2. req[r].verdict = "unverified"
        BY <2>4 DEF CheckTx, VerdictsTrue, At
      <4> QED
        BY <2>3, <4>1, <4>2
    <3> QED
      BY <3>1, <3>3, <3>4
  <2>5. CASE Return(r)
    BY <2>1, <2>3, <2>5 DEF Return, PsktIdle
  <2>6. CASE LockListed(r) \/ LockFailed(r) \/ Market(r) \/ Search(r)
    <3>1. Return(r) \/ req'[r].verdict = req[r].verdict
      BY <2>1, <2>6 DEF LockListed, LockFailed, Market, Search, Goto, Locals
    <3>2. req[r].verdict = "unverified"
      BY <2>6 DEF LockListed, LockFailed, Market, Search, VerdictsTrue, At
    <3> QED
      BY <2>3, <2>5, <3>1, <3>2
  <2> QED
    BY <1>3, <2>4, <2>5, <2>6 DEF VerifySteps, Insert, Reopen, Decide, PsktFail
<1> QED
  BY <1>1, <1>2, <1>3 DEF PsktNext, psktVars, BuyListing, SpendListing, IndexSpend

-----------------------------------------------------------------------------
LEMMA PsktInvariant == PsktSpec => []PsktInv
<1>1. PsktInv /\ [PsktNext]_psktVars => PsktInv'
  BY PsktTypeStep, LocksStep, TxToCheckStep, VerdictsStep DEF PsktInv
<1> QED
  BY PsktInvInit, <1>1, PTL DEF PsktSpec

\* Every variable keeps its type.
THEOREM PsktTypeCorrect == PsktSpec => []PsktTypeOK
<1>1. PsktInv => PsktTypeOK
  BY DEF PsktInv
<1> QED
  BY PsktInvariant, <1>1, PTL

\* An order is VERIFYING exactly while one request verifies it, or for ever after one failed
\* while it did (providers/p2p-v2.provider.ts:82-155).
THEOREM VerifyingHeldHolds == PsktSpec => []VerifyingHeld
<1>1. PsktInv => VerifyingHeld
  <2> SUFFICES ASSUME PsktInv, NEW o \in Pskts
               PROVE  LET holders == {r \in Requests : Holds(r) /\ req[r].order = o} IN
                      /\ \A r1, r2 \in holders : r1 = r2
                      /\ Status(o) = "VERIFYING" <=> holders # {} \/ o \in abandoned
    BY DEF VerifyingHeld
  <2> DEFINE holders == {r \in Requests : Holds(r) /\ req[r].order = o}
  <2>1. \A r : r \in holders <=> r \in Requests /\ Holds(r) /\ req[r].order = o
    OBVIOUS
  <2> HIDE DEF holders
  <2>2. \A r1, r2 \in holders : r1 = r2
    BY <2>1 DEF PsktInv, Locks, HoldersApart
  <2>3. holders # {} \/ o \in abandoned => Status(o) = "VERIFYING"
    BY <2>1 DEF PsktInv, Locks, HoldersVerifying, AbandonedVerifying
  <2>4. Status(o) = "VERIFYING" => holders # {} \/ o \in abandoned
    BY <2>1 DEF PsktInv, Locks, VerifyingLocked
  <2> QED
    BY <2>2, <2>3, <2>4 DEF holders
<1> QED
  BY PsktInvariant, <1>1, PTL

-----------------------------------------------------------------------------
(* The refinement: outcome and soldTo of the sale, as P2pOrderV2!Sale maps *)
(* them.                                                                   *)

OutcomeOf(s) == CASE s = "COMPLETED" -> "sold" [] s = "CANCELED" -> "withdrawn" [] OTHER -> "open"
OutcomesNow == [o \in Pskts |-> OutcomeOf(Status(o))]
BuyersNow == [o \in Pskts |-> doc[o].buyer]
SaleVars == <<spend, OutcomesNow, BuyersNow>>

LEMMA SaleInitially == PsktInit => Sale!SaleInit
  BY DEF PsktInit, Sale!SaleInit, Status

\* A step that closes no order changes nothing of the sale.
LEMMA SaleStutters ==
  ASSUME UNCHANGED spend,
         \A o \in Pskts : OutcomeOf(Status(o))' = OutcomeOf(Status(o)) /\ doc'[o].buyer = doc[o].buyer
  PROVE  UNCHANGED SaleVars
  BY DEF SaleVars, OutcomesNow, BuyersNow

\* A write to the order o that keeps its buyer and does not close it.
LEMMA WriteStutters ==
  ASSUME PsktTypeOK, UNCHANGED spend, NEW o \in Pskts, NEW s,
         doc' = [doc EXCEPT ![o].status = s], OutcomeOf(s) = OutcomeOf(Status(o))
  PROVE  UNCHANGED SaleVars
  BY SaleStutters DEF PsktTypeOK, Documents, Status

LEMMA DecideRefines ==
  ASSUME PsktInv, NEW r \in Requests, Decide(r)
  PROVE  Sale!SaleNext \/ UNCHANGED SaleVars
<1> DEFINE buyer == CHOOSE w \in Wallets : spend.senders = {w}
<1>1. PICK o \in Pskts : o = req[r].order
  BY DEF PsktInv, PsktTypeOK, Locals
<1>2. /\ doc \in [Pskts -> Documents] /\ Status(o) = "VERIFYING"
      /\ doc' = [doc EXCEPT ![o] = Decision(r)] /\ UNCHANGED spend
  BY <1>1 DEF Decide, Transition, PsktInv, PsktTypeOK
<1>3. \A u \in Pskts : doc'[u] = IF u = o THEN Decision(r) ELSE doc[u]
  BY <1>2
<1>4. CASE req[r].verdict = "bought"
  <2>1. Sale!Buys(spend, o) /\ spend # Unspent
    BY <1>1, <1>4 DEF PsktInv, VerdictsTrue, Sale!Buys, Unspent
  <2>2. buyer \in Wallets /\ spend.senders = {buyer}
    BY <2>1, BuyerFound
  <2>3. Decision(r).status = "COMPLETED" /\ Decision(r).buyer = buyer
    BY <1>4 DEF Decision
  <2> HIDE DEF buyer
  <2>4. OutcomesNow[o] = "open" /\ OutcomesNow' = [OutcomesNow EXCEPT ![o] = "sold"]
    BY <1>1, <1>2, <1>3, <2>3 DEF OutcomesNow, OutcomeOf, Status
  <2>5. \E w \in spend.senders : BuyersNow' = [BuyersNow EXCEPT ![o] = w]
    BY ZenonT(60), <1>1, <1>3, <2>2, <2>3 DEF BuyersNow
  <2>6. Sale!Sold(o)
    BY <1>2, <2>1, <2>4, <2>5 DEF Sale!Sold, OutcomesNow, OutcomeOf, BuyersNow
  <2> QED
    BY <1>1, <2>6 DEF Sale!SaleNext
<1>5. CASE req[r].verdict = "withdrawn"
  <2>1. Sale!Withdraws(spend) /\ spend # Unspent
    BY <1>5 DEF PsktInv, VerdictsTrue, Sale!Withdraws, Unspent
  <2>2. Decision(r).status = "CANCELED" /\ Decision(r).buyer = doc[o].buyer
    BY <1>1, <1>2, <1>5 DEF Decision, Documents
  <2>3. OutcomesNow[o] = "open" /\ OutcomesNow' = [OutcomesNow EXCEPT ![o] = "withdrawn"]
    BY <1>1, <1>2, <1>3, <2>2 DEF OutcomesNow, OutcomeOf, Status
  <2>4. BuyersNow' = BuyersNow
    BY <1>1, <1>3, <2>2 DEF BuyersNow
  <2>5. Sale!Withdrawn(o)
    BY <1>2, <2>1, <2>3, <2>4 DEF Sale!Withdrawn, OutcomesNow, OutcomeOf, BuyersNow
  <2> QED
    BY <1>1, <2>5 DEF Sale!SaleNext
<1>6. CASE req[r].verdict \notin {"bought", "withdrawn"}
  <2>1. Decision(r).status = "FAILED_VERIFICATION" /\ Decision(r).buyer = doc[o].buyer
    BY <1>1, <1>2, <1>6 DEF Decision, WithStatus, Documents
  <2> QED
    BY <1>1, <1>2, <1>3, <2>1, SaleStutters DEF Status, OutcomeOf
<1> QED
  BY <1>4, <1>5, <1>6

LEMMA SaleStep ==
  ASSUME PsktInv, PsktInv', [PsktNext]_psktVars
  PROVE  Sale!SaleNext \/ UNCHANGED SaleVars
<1>1. CASE UNCHANGED <<doc, spend>>
  BY <1>1, SaleStutters DEF Status
<1>2. CASE SpendListing \/ \E o \in Pskts : BuyListing(o)
  <2>1. spend = Unspent /\ UNCHANGED doc
    BY <1>2 DEF SpendListing, BuyListing
  <2>2. CASE spend' = Unspent
    BY <1>1, <2>1, <2>2
  <2>3. CASE spend' \in Spends
    <3>1. OutcomesNow' = OutcomesNow /\ BuyersNow' = BuyersNow
      BY <2>1 DEF OutcomesNow, BuyersNow, Status
    <3> QED
      BY <2>1, <2>3, <3>1 DEF Sale!SaleNext, Sale!Take, OutcomesNow, OutcomeOf, BuyersNow
  <2> QED
    BY <2>2, <2>3 DEF PsktInv, PsktTypeOK
<1>3. ASSUME NEW r \in Requests, Insert(r) \/ LockListed(r) \/ LockFailed(r) \/ Reopen(r)
      PROVE  UNCHANGED SaleVars
  <2>1. req[r].order \in Pskts /\ PsktTypeOK /\ UNCHANGED spend
    BY <1>3 DEF PsktInv, PsktTypeOK, Locals, Insert, LockListed, LockFailed, Reopen
  <2>2. ASSUME NEW s, doc' = [doc EXCEPT ![req[r].order] = WithStatus(req[r].order, s)],
               OutcomeOf(s) = "open", OutcomeOf(Status(req[r].order)) = "open"
        PROVE  UNCHANGED SaleVars
    BY <2>1, <2>2, WriteStutters DEF WithStatus
  <2>3. CASE doc' = doc
    BY <2>1, <2>3, SaleStutters DEF Status
  <2>4. OutcomeOf("NONE") = "open" /\ OutcomeOf("LISTED_FOR_SALE") = "open" /\ OutcomeOf("VERIFYING") = "open"
        /\ OutcomeOf("FAILED_VERIFICATION") = "open" /\ OutcomeOf("PSKT_VERIFICATION_ERROR") = "open"
    BY DEF OutcomeOf
  <2>5. CASE Insert(r)
    <3> DEFINE s == IF req[r].verified THEN "LISTED_FOR_SALE" ELSE "PSKT_VERIFICATION_ERROR"
    <3>1. doc' = doc \/ (Status(req[r].order) = "NONE"
                         /\ doc' = [doc EXCEPT ![req[r].order] = WithStatus(req[r].order, s)])
      BY <2>5 DEF Insert, WithStatus
    <3>2. OutcomeOf(s) = "open"
      BY <2>4
    <3> QED
      BY <2>2, <2>3, <2>4, <3>1, <3>2
  <2>6. CASE LockListed(r)
    BY <2>2, <2>3, <2>4, <2>6 DEF LockListed, Transition
  <2>7. CASE LockFailed(r)
    BY <2>2, <2>3, <2>4, <2>7 DEF LockFailed, Transition
  <2>8. CASE Reopen(r)
    BY <2>2, <2>4, <2>8 DEF Reopen, Transition
  <2> QED
    BY <1>3, <2>5, <2>6, <2>7, <2>8
<1>4. ASSUME NEW r \in Requests, Decide(r) PROVE Sale!SaleNext \/ UNCHANGED SaleVars
  BY <1>4, DecideRefines
<1> QED
  BY <1>1, <1>2, <1>3, <1>4 DEF PsktNext, psktVars, VerifyPskt, VerifyRequest, IndexSpend, VerifySteps,
     Market, Search, CheckTx, PsktFail

\* What the order book says of a closed order is what happened on the chain, and stays
\* (services/p2p-orders-v2.service.ts:67-101, providers/p2p-v2.provider.ts:82-155).
THEOREM PsktImplementsSale == PsktSpec => ImplementsSale
<1>1. PsktInv /\ PsktInv' /\ [PsktNext]_psktVars
      => [Sale!SaleNext]_<<spend, [o \in Pskts |-> CASE Status(o) = "COMPLETED" -> "sold"
                                                     [] Status(o) = "CANCELED" -> "withdrawn"
                                                     [] OTHER -> "open"],
                           [o \in Pskts |-> doc[o].buyer]>>
  BY SaleStep DEF SaleVars, OutcomesNow, OutcomeOf, BuyersNow
<1> QED
  BY SaleInitially, PsktInvariant, <1>1, PTL DEF PsktSpec, ImplementsSale, Sale!SaleSpec
=============================================================================
