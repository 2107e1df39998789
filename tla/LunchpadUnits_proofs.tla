------------------------ MODULE LunchpadUnits_proofs ------------------------
(***************************************************************************)
(* Theorems about the lunchpad's units, which are sums over its orders:    *)
(* the type invariant, the status, the limit of a wallet, the units of a   *)
(* round and the count of its tokens, for every set of processes, wallets  *)
(* and payments and every number of orders, rounds and units.              *)
(*                                                                         *)
(* UInv adds to the invariant of Lunchpad_proofs what a process knows of   *)
(* units: Asks says that the process whose transaction holds the lunchpad  *)
(* still finds it as it read it, and Books that no two hold it and that no *)
(* order has units without a wallet and a round.  A step is one of four    *)
(* kinds: it reads, writes the lunchpad, edits one order, or reserves.     *)
(* WInv, SInv and CountedOnce are kept by each kind; what a step does to a *)
(* sum comes from the lemmas of Sums_proofs.                               *)
(***************************************************************************)
EXTENDS Lunchpad_proofs, Sums_proofs

-----------------------------------------------------------------------------
(* The inductive invariant *)

\* Steps at which a process counts on what it read or wrote of units.
Guarded == {"startTokens", "startStatus", "resLock", "resWallet", "resCommit",
            "canLock", "canOrder", "canUnits", "notifyCommit", "reduce"}

\* What it then knows: the holder of the lock found the lunchpad's units as they still are.
Asks(p) ==
    /\ proc[p].pc \in {"startTokens", "startStatus"} =>
          p = Owner /\ proc[p].round = lp.round /\ lp.round < MaxRounds
    /\ At(p, "startStatus") => proc[p].n >= MinUnits
    /\ proc[p].pc \in {"resLock", "resWallet", "resCommit"} =>
          proc[p].w \in Wallets /\ proc[p].u > 0 /\ lp.round > 0
    /\ At(p, "resWallet") => proc[p].n >= 0 /\ (p \in lock => proc[p].n = lp.avail)
    /\ At(p, "resCommit") => proc[p].n > 0 /\ (p \in lock => proc[p].n <= lp.avail)
    /\ \A o \in proc[p].list : orders[o].status # "none"
    /\ proc[p].pc \in {"canLock", "canOrder", "canUnits"} =>
          proc[p].o \in OrderIds /\ orders[proc[p].o].status # "none"
    /\ At(p, "canUnits") => orders[proc[p].o].status = "TOKENS_NOT_SENT"
    /\ proc[p].pc \in {"notifyCommit", "reduce"} => orders[proc[p].o].status = "PROCESSING"

\* The lunchpad's and the orders' books: one transaction at most holds the lunchpad, no units are
\* missing, an order has a round, a wallet and units of its own.
Books ==
    /\ \A p, q \in lock : p = q
    /\ lp.avail >= 0 /\ lp.round <= MaxRounds
    /\ lp.status # "INACTIVE" => lp.round > 0
    /\ StatusFollowsUnits
    /\ \A o \in OrderIds :
          IF orders[o].status = "none" THEN orders[o] = NoOrder
          ELSE orders[o].round \in 1..lp.round /\ orders[o].wallet \in Wallets /\ orders[o].units > 0

UInv == PInv /\ TypeOK /\ Books /\ \A p \in Procs : Asks(p)

\* A transaction that ends leaves the lunchpad to nobody.
LEMMA SoleHolder ==
  ASSUME UInv, NEW p \in Procs, p \in lock
  PROVE  lock \ {p} = {}
  BY DEF UInv, Books

\* Of the processes only p changes, and is one still.
Moves(p) ==
    /\ proc' \in [Procs -> Jobs] /\ \A q \in Procs : q # p => proc'[q] = proc[q]

\* A process that goes on, ends or returns is still one.
LEMMA JobSet ==
  ASSUME TypeOK, NEW p \in Procs, NEW j \in Jobs, proc' = [proc EXCEPT ![p] = j]
  PROVE  Moves(p) /\ proc'[p] = j
  BY DEF TypeOK, Moves

LEMMA JobGoto ==
  ASSUME TypeOK, NEW p \in Procs, NEW l \in Labels, Goto(p, l)
  PROVE  /\ Moves(p) /\ proc'[p].pc = l
         /\ proc'[p].n = proc[p].n /\ proc'[p].round = proc[p].round /\ proc'[p].list = proc[p].list
         /\ proc'[p].w = proc[p].w /\ proc'[p].u = proc[p].u /\ proc'[p].o = proc[p].o
  BY SMTT(30) DEF TypeOK, Moves, Goto, Jobs

LEMMA IdleJob == Idle \in Jobs
  BY DEF Idle, Jobs, Labels, LunchpadStatuses, OrderIds

LEMMA JobEnd ==
  ASSUME TypeOK, NEW p \in Procs, End(p)
  PROVE  Moves(p) /\ proc'[p].pc = "idle" /\ proc'[p].list = {}
<1>1. Moves(p) /\ proc'[p] = Idle
  BY JobSet, IdleJob DEF End
<1> QED
  BY <1>1 DEF Idle

LEMMA JobReturn ==
  ASSUME TypeOK, NEW p \in Procs, Return(p)
  PROVE  Moves(p) /\ proc'[p].pc = proc[p].back /\ proc'[p].list = proc[p].list
<1> DEFINE j == [Idle EXCEPT !.pc = proc[p].back, !.back = proc[p].back, !.list = proc[p].list]
<1>1. j \in Jobs /\ j.pc = proc[p].back /\ j.list = proc[p].list
  BY ZenonT(60), IdleJob DEF TypeOK, Jobs, Idle, Labels
<1> QED
  BY <1>1, JobSet DEF Return

LEMMA JobClose ==
  ASSUME TypeOK, NEW p \in Procs, NEW doc, doc.round \in Nat, CloseIfStopping(p, doc)
  PROVE  Moves(p) /\ proc'[p].pc \in {"openOrders", proc[p].back} /\ proc'[p].list = proc[p].list
<1>1. CASE doc.status = "STOPPING"
  <2> DEFINE j == [Idle EXCEPT !.pc = "openOrders", !.round = doc.round,
                               !.list = proc[p].list, !.back = proc[p].back]
  <2>1. j \in Jobs /\ j.pc = "openOrders" /\ j.list = proc[p].list
    BY IdleJob DEF TypeOK, Jobs, Idle, Labels
  <2> QED
    BY <1>1, <2>1, JobSet DEF CloseIfStopping
<1>2. CASE doc.status # "STOPPING"
  BY <1>2, JobReturn DEF CloseIfStopping
<1> QED
  BY <1>1, <1>2


-----------------------------------------------------------------------------
(* Steps of a process that has nothing to know of units, before or after *)

Carefree(p) ==
    /\ Moves(p) /\ proc'[p].pc \notin Guarded
    /\ \A o \in proc'[p].list : orders[o].status # "none"

LEMMA RequestsCarefree ==
  ASSUME UInv, NEW p \in Procs, 
         \/ StopLunchpad(p) \/ RetrieveFunds(p)
         \/ \E o \in OrderIds : CancelOrder(p, o) \/ \E t \in paid : VerifyOrder(p, o, t)
  PROVE  Carefree(p)
<1>0. TypeOK /\ paid \subseteq Payments
  BY DEF UInv, TypeOK
<1>1. CASE StopLunchpad(p)
  <2> DEFINE j == [Idle EXCEPT !.pc = "stopStatus", !.status = lp.status]
  <2>1. j \in Jobs /\ j.pc = "stopStatus" /\ j.list = {}
    BY <1>0, IdleJob DEF TypeOK, Jobs, Lunchpads, Labels, Idle
  <2> QED
    BY <1>0, <1>1, <2>1, JobSet DEF StopLunchpad, Carefree, Guarded
<1>2. CASE RetrieveFunds(p)
  <2> DEFINE j == [Idle EXCEPT !.pc = "retOpen", !.round = lp.round]
  <2>1. j \in Jobs /\ j.pc = "retOpen" /\ j.list = {}
    BY <1>0, IdleJob DEF TypeOK, Jobs, Lunchpads, Labels, Idle
  <2> QED
    BY <1>0, <1>2, <2>1, JobSet DEF RetrieveFunds, Carefree, Guarded
<1>3. ASSUME NEW o \in OrderIds, CancelOrder(p, o)
      PROVE  Carefree(p)
  <2> DEFINE j == [Idle EXCEPT !.pc = "canLunchpad", !.o = o, !.had = orders[o].tx]
  <2>1. j \in Jobs /\ j.pc = "canLunchpad" /\ j.list = {}
    BY <1>0, IdleJob DEF TypeOK, Jobs, Orders, Labels, Idle
  <2> QED
    BY <1>0, <1>3, <2>1, JobSet DEF CancelOrder, Carefree, Guarded
<1>4. ASSUME NEW o \in OrderIds, NEW t \in paid, VerifyOrder(p, o, t)
      PROVE  Carefree(p)
  <2> DEFINE j == [Idle EXCEPT !.pc = "verLunchpad", !.o = o, !.had = orders[o].tx, !.tx = t]
  <2>1. j \in Jobs /\ j.pc = "verLunchpad" /\ j.list = {}
    BY <1>0, IdleJob DEF TypeOK, Jobs, Orders, Labels, Idle
  <2> QED
    BY <1>0, <1>4, <2>1, JobSet DEF VerifyOrder, Carefree, Guarded
<1> QED
  BY <1>1, <1>2, <1>3, <1>4

LEMMA GotoCarefree ==
  ASSUME UInv, NEW p \in Procs, NEW l \in Labels \ Guarded, Goto(p, l)
  PROVE  Carefree(p)
  BY JobGoto DEF UInv, Asks, Carefree

LEMMA EndCarefree ==
  ASSUME UInv, NEW p \in Procs, End(p)
  PROVE  Carefree(p)
  BY JobEnd DEF UInv, Carefree, Guarded

LEMMA ReturnCarefree ==
  ASSUME UInv, NEW p \in Procs, Return(p)
  PROVE  Carefree(p)
<1>1. proc[p].back \in {"idle", "wCancel"}
  BY DEF UInv, TypeOK, Jobs
<1> QED
  BY <1>1, JobReturn DEF UInv, Asks, Carefree, Guarded

LEMMA CloseCarefree ==
  ASSUME UInv, NEW p \in Procs, NEW doc, doc.round \in Nat, CloseIfStopping(p, doc)
  PROVE  Carefree(p)
<1>1. proc[p].back \in {"idle", "wCancel"}
  BY DEF UInv, TypeOK, Jobs
<1> QED
  BY <1>1, JobClose DEF UInv, Asks, Carefree, Guarded

LEMMA NextCarefree ==
  ASSUME UInv, NEW p \in Procs, NextOrder(p)
  PROVE  Carefree(p)
<1>1. proc \in [Procs -> Jobs]
  BY DEF UInv, TypeOK
<1> DEFINE rest == proc[p].list \ {proc[p].o}
           l == IF rest = {} THEN "runFetch" ELSE "runOrder"
           j == [proc[p] EXCEPT !.pc = l, !.list = rest, !.o = 0, !.sold = FALSE]
<1>2. proc[p] \in Jobs /\ l \in Labels
  BY <1>1 DEF Labels
<1>3. j \in Jobs /\ j.pc = l /\ j.list = rest
  <2> HIDE DEF l
  <2> QED
    BY <1>2 DEF Jobs
<1>4. proc' = [proc EXCEPT ![p] = j]
  BY <1>1 DEF NextOrder, Jobs
<1>5. Moves(p) /\ proc'[p] = j
  BY <1>3, <1>4, JobSet DEF UInv
<1> QED
  BY <1>3, <1>5 DEF UInv, Asks, Carefree, Guarded

LEMMA OwnerCarefree ==
  ASSUME UInv, NEW p \in Procs,
         \/ StartStatus(p) \/ StopStatus(p) \/ OpenOrders(p) \/ Inactivate(p)
         \/ RetrieveOpenOrders(p) \/ RetrieveMove(p)
  PROVE  Carefree(p)
<1>1. CASE StopStatus(p)
  <2>1. ASSUME lp' = [lp EXCEPT !.status = "STOPPING"]
        PROVE  lp'.round \in Nat
    BY <2>1 DEF UInv, TypeOK, Lunchpads
  <2> QED
    BY <1>1, <2>1, EndCarefree, CloseCarefree DEF StopStatus, Write
<1>2. {"inactive", "retMove"} \subseteq Labels \ Guarded
  BY DEF Labels, Guarded
<1> QED
  BY <1>1, <1>2, EndCarefree, GotoCarefree, ReturnCarefree
  DEF StartStatus, OpenOrders, Inactivate, RetrieveOpenOrders, RetrieveMove

LEMMA OrderCarefree ==
  ASSUME UInv, NEW p \in Procs,
         \/ ReserveCommit(p) \/ ReserveLost(p)
         \/ VerifyLunchpad(p) \/ VerifyPayment(p) \/ VerifyRecord(p) \/ VerifyStatus(p)
         \/ CancelLunchpad(p)
  PROVE  Carefree(p)
<1>1. {"verPayment", "verRecord", "verStatus", "canPayment"} \subseteq Labels \ Guarded
  BY DEF Labels, Guarded
<1>2. CASE VerifyRecord(p)
  <2> DEFINE j == [Idle EXCEPT !.pc = "verStatus", !.o = proc[p].o]
  <2>0. TypeOK
    BY DEF UInv
  <2>1. j \in Jobs /\ j.pc = "verStatus" /\ j.list = {}
    BY <2>0, IdleJob DEF TypeOK, Jobs, Labels, Idle
  <2>2. CASE proc' = [proc EXCEPT ![p] = j]
    BY <2>0, <2>1, <2>2, JobSet DEF Carefree, Guarded
  <2> QED
    BY <1>2, <2>2, EndCarefree DEF VerifyRecord
<1> QED
  BY <1>1, <1>2, EndCarefree, GotoCarefree
  DEF ReserveCommit, ReserveLost, VerifyLunchpad, VerifyPayment, VerifyStatus, CancelLunchpad

LEMMA WaitingCarefree ==
  ASSUME UInv, WaitingKasOrders \/ WaitingOrders \/ UsedTransactions \/ FreeUtxos \/ MatchUtxo
  PROVE  Cron \in Procs /\ Carefree(Cron)
<1>0. TypeOK /\ Cron \in Procs /\ proc \in [Procs -> Jobs] /\ \A o \in proc[Cron].list : orders[o].status # "none"
  BY DEF UInv, TypeOK, Procs, Asks
<1>a. proc[Cron] \in Jobs /\ {"wUsed", "wUtxos", "wMatch"} \subseteq Labels
  BY <1>0 DEF Labels
<1>1. CASE WaitingKasOrders
  <2> DEFINE j == [Idle EXCEPT !.pc = "wOrders", !.back = "wCancel"]
  <2>1. j \in Jobs /\ j.pc = "wOrders" /\ j.list = {}
    BY IdleJob DEF Jobs, Labels, Idle
  <2> QED
    BY <1>0, <1>1, <2>1, JobSet DEF WaitingKasOrders, Carefree, Guarded
<1>2. CASE WaitingOrders
  <2> DEFINE S == {o \in OrderIds : orders[o].status = "WAITING_FOR_KAS"}
             j == [proc[Cron] EXCEPT !.pc = "wUsed", !.list = S]
  <2>1. j \in Jobs /\ j.pc = "wUsed" /\ j.list = S
    BY <1>a DEF Jobs
  <2>2. proc' = [proc EXCEPT ![Cron] = j]
    BY <1>0, <1>2 DEF WaitingOrders, Jobs
  <2> QED
    BY <1>0, <2>1, <2>2, JobSet DEF Carefree, Guarded
<1>3. CASE UsedTransactions
  <2> DEFINE j == [proc[Cron] EXCEPT !.pc = "wUtxos", !.free = {t \in Payments : Unused(t, 0)}]
  <2>1. j \in Jobs /\ j.pc = "wUtxos" /\ j.list = proc[Cron].list
    BY <1>a DEF Jobs
  <2>2. proc' = [proc EXCEPT ![Cron] = j]
    BY <1>0, <1>3 DEF UsedTransactions, Jobs
  <2> QED
    BY <1>0, <2>1, <2>2, JobSet DEF Carefree, Guarded
<1>4. CASE FreeUtxos
  <2> DEFINE j == [proc[Cron] EXCEPT !.pc = "wMatch", !.free = @ \cap inbox]
  <2>1. j \in Jobs /\ j.pc = "wMatch" /\ j.list = proc[Cron].list
    BY <1>a DEF Jobs
  <2>2. proc' = [proc EXCEPT ![Cron] = j]
    BY <1>0, <1>4 DEF FreeUtxos, Jobs
  <2> QED
    BY <1>0, <2>1, <2>2, JobSet DEF Carefree, Guarded
<1>5. CASE MatchUtxo
  <2>1. "wCancel" \in Labels \ Guarded
    BY DEF Labels, Guarded
  <2>2. ASSUME NEW t \in proc[Cron].free, NEW done,
               proc' = [proc EXCEPT ![Cron].free = @ \ {t}, ![Cron].list = @ \ done]
        PROVE  Carefree(Cron)
    <3> DEFINE j == [proc[Cron] EXCEPT !.free = @ \ {t}, !.list = @ \ done]
    <3>1. j \in Jobs /\ j.pc = proc[Cron].pc /\ j.list \subseteq proc[Cron].list
      BY <1>a DEF Jobs
    <3>2. proc' = [proc EXCEPT ![Cron] = j]
      BY <1>0, <2>2 DEF Jobs
    <3>3. proc[Cron].pc = "wMatch"
      BY <1>5 DEF MatchUtxo, At
    <3> QED
      BY <1>0, <3>1, <3>2, <3>3, JobSet DEF Carefree, Guarded
  <2> QED
    BY <1>0, <1>5, <2>1, <2>2, GotoCarefree, EndCarefree DEF MatchUtxo
<1> QED
  BY <1>0, <1>1, <1>2, <1>3, <1>4, <1>5

LEMMA RunCarefree ==
  ASSUME UInv, NEW p \in Procs,
         \/ StartProcessing(p) \/ RunRead(p) \/ RunTokens(p) \/ RunStart(p) \/ RunFetch(p)
         \/ AwaitReceipt(p) \/ ReduceTokens(p) \/ SubmitCommit(p) \/ NotifyReveal(p)
         \/ SubmitReveal(p) \/ SoldOut(p) \/ Complete(p) \/ RunError(p) \/ RunStop(p)
         \/ RunFails(p) \/ RunClosing(p) \/ Stop(p)
  PROVE  Carefree(p)
<1>0. TypeOK /\ proc \in [Procs -> Jobs] /\ proc[p] \in Jobs
  BY DEF UInv, TypeOK
<1>a. {"runStart", "notifyReveal", "submitReveal", "received", "soldOut", "complete", "runError",
       "runStop"} \subseteq Labels \ Guarded
  BY DEF Labels, Guarded
<1>b. {"runTokens", "runFetch", "runOrder", "submitCommit", "openOrders"} \subseteq Labels \ Guarded
  BY DEF Labels, Guarded
<1>1. ASSUME NEW j \in Jobs, j.pc \notin Guarded, \A o \in j.list : orders[o].status # "none",
             proc' = [proc EXCEPT ![p] = j]
      PROVE  Carefree(p)
  BY <1>0, <1>1, JobSet DEF Carefree
<1>2. CASE EnterRun(p)
  <2> DEFINE j == [Idle EXCEPT !.pc = "runTokens", !.status = lp.status, !.round = lp.round,
                               !.n = lp.tokens]
  <2>1. j \in Jobs /\ j.pc = "runTokens" /\ j.list = {}
    BY <1>0, <1>b, IdleJob DEF TypeOK, Jobs, Lunchpads, Idle
  <2>2. proc' = [proc EXCEPT ![p] = j]
    BY <1>2 DEF EnterRun
  <2> HIDE DEF j
  <2> QED
    BY <1>1, <1>b, <2>1, <2>2
<1>3. CASE RunStart(p)
  <2> DEFINE j == [Idle EXCEPT !.pc = "runFetch", !.round = proc[p].round]
  <2>1. j \in Jobs /\ j.pc = "runFetch" /\ j.list = {}
    BY <1>0, <1>b, IdleJob DEF Jobs, Idle
  <2>2. End(p) \/ proc' = [proc EXCEPT ![p] = j]
    BY <1>3 DEF RunStart
  <2> HIDE DEF j
  <2> QED
    BY <1>1, <1>b, <2>1, <2>2, EndCarefree
<1>4. CASE RunFetch(p)
  <2> DEFINE ready == OfRound(proc[p].round, Ready)
             l == IF ready = {} THEN "runStop" ELSE "runOrder"
             again == {o \in ready : orders[o].status = "PROCESSING"}
             j == [proc[p] EXCEPT !.pc = l, !.list = ready, !.again = again]
  <2>0. /\ l \in Labels \ Guarded /\ ready \subseteq OrderIds /\ again \subseteq OrderIds
        /\ \A o \in ready : orders[o].status # "none"
    BY <1>a, <1>b DEF OfRound, Ready
  <2>2. proc' = [proc EXCEPT ![p] = j]
    BY <1>0, <1>4 DEF RunFetch, Jobs
  <2> HIDE DEF l, ready, again
  <2>1. j \in Jobs /\ j.pc = l /\ j.list = ready
    BY <1>0, <2>0 DEF Jobs
  <2> QED
    BY <1>1, <2>0, <2>1, <2>2
<1>5. CASE AwaitReceipt(p)
  <2> DEFINE j == [proc[p] EXCEPT !.pc = "runFetch", !.list = {}, !.o = 0, !.sold = FALSE]
  <2>2. proc' = [proc EXCEPT ![p] = j]
    BY <1>0, <1>5 DEF AwaitReceipt, Jobs
  <2>1. j \in Jobs /\ j.pc = "runFetch" /\ j.list = {}
    BY <1>0, <1>b DEF Jobs
  <2> HIDE DEF j
  <2> QED
    BY <1>1, <1>b, <2>1, <2>2
<1>6. CASE ReduceTokens(p)
  <2> DEFINE sold == lp.avail < MinUnits /\ lp.status = "NO_UNITS_LEFT"
             j == [proc[p] EXCEPT !.pc = "submitCommit", !.sold = sold]
  <2>0. sold \in BOOLEAN
    OBVIOUS
  <2>2. proc' = [proc EXCEPT ![p] = j]
    BY <1>0, <1>6 DEF ReduceTokens, Jobs
  <2> HIDE DEF sold
  <2>1. j \in Jobs /\ j.pc = "submitCommit" /\ j.list = proc[p].list
    BY <1>0, <1>b, <2>0 DEF Jobs
  <2> HIDE DEF j
  <2> QED
    BY <1>1, <1>b, <2>1, <2>2 DEF UInv, Asks
<1>7. CASE RunStop(p)
  <2> DEFINE j == [Idle EXCEPT !.pc = "openOrders", !.round = lp.round]
  <2>1. j \in Jobs /\ j.pc = "openOrders" /\ j.list = {}
    BY <1>0, <1>b, IdleJob DEF TypeOK, Jobs, Lunchpads, Idle
  <2>2. End(p) \/ proc' = [proc EXCEPT ![p] = j]
    BY <1>7 DEF RunStop, End
  <2> HIDE DEF j
  <2> QED
    BY <1>1, <1>b, <2>1, <2>2, EndCarefree
<1> QED
  BY <1>a, <1>b, <1>2, <1>3, <1>4, <1>5, <1>6, <1>7, EndCarefree, GotoCarefree, NextCarefree
  DEF StartProcessing, RunRead, RunTokens, SubmitCommit, NotifyReveal, SubmitReveal, SoldOut,
      Complete, RunError, RunFails, RunClosing, Stop, Missed

Onward(p) ==
    /\ lock' = {} \/ (lp' = lp /\ (lock' \subseteq lock \/ lock' = {p}))
    /\ lp'.round \in Nat /\ lp'.round >= lp.round /\ (lp'.round = lp.round \/ p = Owner)
    /\ \A o \in OrderIds :
         /\ orders[o].status # "none" => orders'[o].status # "none"
         /\ orders[o].status = "TOKENS_NOT_SENT" => orders'[o].status = "TOKENS_NOT_SENT"
         /\ orders[o].status = "PROCESSING" => orders'[o].status = "PROCESSING" \/ Running(p)

\* What the other processes know is not changed by a step of one.
LEMMA OthersAsk ==
  ASSUME UInv, NEW p \in Procs, Moves(p), Onward(p), NEW q \in Procs, q # p
  PROVE  Asks(q)'
<1>1. /\ proc'[q] = proc[q] /\ Asks(q) /\ proc[q].list \subseteq OrderIds
      /\ lp.round \in Nat /\ lp'.round \in Nat /\ lp'.round >= lp.round
  BY DEF Moves, UInv, TypeOK, Jobs, Onward, Lunchpads
<1>2. q \in lock' => q \in lock /\ lp' = lp
  BY DEF Onward
<1>3. proc[q].pc \in {"startTokens", "startStatus"} => lp'.round = lp.round
  BY <1>1 DEF Onward, Asks
<1>4. proc[q].pc \in {"notifyCommit", "reduce"} =>
        proc[q].o \in OrderIds /\ orders'[proc[q].o].status = "PROCESSING"
  <2> SUFFICES ASSUME proc[q].pc \in {"notifyCommit", "reduce"}
               PROVE  proc[q].o \in OrderIds /\ orders'[proc[q].o].status = "PROCESSING"
    OBVIOUS
  <2>1. Running(q) /\ Sends(q)
    BY DEF Running, Sends
  <2>2. ~Running(p) /\ proc[q].o \in OrderIds
    BY <2>1 DEF UInv, PInv, IInv, RunExclusion, Stages, Stage
  <2> QED
    BY <1>1, <2>2 DEF Asks, Onward
<1>5. lp.round > 0 => lp'.round > 0
  BY <1>1
<1>6. /\ \A o \in proc[q].list : orders'[o].status # "none"
      /\ proc[q].pc \in {"canLock", "canOrder", "canUnits"} =>
           proc[q].o \in OrderIds /\ orders'[proc[q].o].status # "none"
      /\ At(q, "canUnits") => orders'[proc[q].o].status = "TOKENS_NOT_SENT"
  BY <1>1 DEF Onward, Asks, At
<1> QED
  BY <1>1, <1>2, <1>3, <1>4, <1>5, <1>6 DEF Asks, At

LEMMA CarefreeAsks ==
  ASSUME UInv, NEW p \in Procs, Carefree(p), Onward(p)
  PROVE  Asks(p)'
<1>1. proc'[p].list \subseteq OrderIds
  BY DEF Carefree, Moves, Jobs
<1> QED
  BY <1>1 DEF Carefree, Guarded, Asks, At, Onward

\* What a step of p that keeps the invariant does to the documents.
Stored(p) ==
    /\ Onward(p) /\ Books'
    /\ lp' \in Lunchpads /\ lock' \subseteq Procs /\ orders' \in [OrderIds -> Orders]

LEMMA ReadingStores ==
  ASSUME UInv, NEW p \in Procs, UNCHANGED <<lp, orders>>, (lock' \subseteq lock \/ lock' = {p})
  PROVE  Stored(p)
<1>1. lp \in Lunchpads /\ lock \subseteq Procs /\ orders \in [OrderIds -> Orders] /\ lp.round \in Nat
  BY DEF UInv, TypeOK, Lunchpads
<1> QED
  BY <1>1 DEF UInv, Stored, Onward, Books, StatusFollowsUnits

\* The lunchpad is written, and no order.
LEMMA WritingStores ==
  ASSUME UInv, NEW p \in Procs, UNCHANGED orders, lock' = {}, lp' \in Lunchpads,
         lp'.avail >= 0, lp'.round \in lp.round..MaxRounds, lp'.round = lp.round \/ p = Owner,
         lp'.status # "INACTIVE" => lp'.round > 0,
         lp'.status = "ACTIVE" => lp'.avail >= MinUnits,
         lp'.status = "NO_UNITS_LEFT" => lp'.avail < MinUnits
  PROVE  Stored(p)
<1>1. orders \in [OrderIds -> Orders] /\ lp.round \in Nat /\ MaxRounds \in Nat
  BY ConstantsAssumption DEF ConstantsAssumption, UInv, TypeOK, Lunchpads
<1>2. lp'.round \in Nat /\ lp'.round >= lp.round /\ lp'.round <= MaxRounds
  BY <1>1
<1>3. 1..lp.round \subseteq 1..lp'.round
  BY <1>1, <1>2
<1>4. Books'
  BY <1>1, <1>2, <1>3 DEF UInv, Books, StatusFollowsUnits
<1> QED
  BY <1>1, <1>2, <1>4 DEF Stored, Onward

\* An order's document is edited: its status among those of created orders that are not
\* cancelled, or from there to cancelled, and its transactions.
Edited(p) ==
    /\ orders' \in [OrderIds -> Orders]
    /\ \A o \in OrderIds :
         /\ orders'[o].units = orders[o].units /\ orders'[o].wallet = orders[o].wallet
         /\ orders'[o].round = orders[o].round
         /\ orders'[o].status = "none" => orders[o].status = "none"
         /\ orders[o].status = "none" => orders'[o] = orders[o]
         /\ orders[o].status = "TOKENS_NOT_SENT" => orders'[o].status = "TOKENS_NOT_SENT"
         /\ orders[o].status = "PROCESSING" => orders'[o].status = "PROCESSING" \/ Running(p)

LEMMA EditingStores ==
  ASSUME UInv, NEW p \in Procs, lp' = lp, (lock' \subseteq lock \/ lock' = {p}), Edited(p)
  PROVE  Stored(p)
<1>1. lp \in Lunchpads /\ lock \subseteq Procs /\ lp.round \in Nat
  BY DEF UInv, TypeOK, Lunchpads
<1>2. Books'
  BY <1>1 DEF UInv, Edited, Books, StatusFollowsUnits
<1>3. Onward(p)
  BY <1>1 DEF Edited, Onward
<1> QED
  BY <1>1, <1>2, <1>3 DEF Edited, Stored

LEMMA TransitionEdits ==
  ASSUME UInv, NEW p \in Procs, NEW o, NEW required, NEW new \in OrderStatuses \ {"none"},
         required \notin {"none", "TOKENS_NOT_SENT"},
         required = "PROCESSING" => new = "PROCESSING" \/ Running(p),
         OrderTransition(o, required, new)
  PROVE  Edited(p)
<1>1. orders \in [OrderIds -> Orders]
  BY DEF UInv, TypeOK
<1>2. CASE o \in OrderIds
  <2> DEFINE d == [orders[o] EXCEPT !.status = new]
  <2>1. orders' = [orders EXCEPT ![o] = d] /\ orders[o].status = required
    BY <1>1 DEF OrderTransition, Orders
  <2>2. d \in Orders /\ d.status = new /\ d.units = orders[o].units
        /\ d.wallet = orders[o].wallet /\ d.round = orders[o].round
    BY <1>1, <1>2 DEF Orders
  <2> HIDE DEF d
  <2>3. orders' \in [OrderIds -> Orders] /\ orders'[o] = d
        /\ \A q \in OrderIds : q # o => orders'[q] = orders[q]
    BY <1>1, <1>2, <2>1, <2>2
  <2> QED
    BY <2>1, <2>2, <2>3 DEF Edited
<1>3. CASE o \notin OrderIds
  <2>1. orders' = orders
    BY <1>1, <1>3 DEF OrderTransition
  <2> QED
    BY <1>1, <2>1 DEF Edited
<1> QED
  BY <1>2, <1>3

\* Only the recorded ids of an order are edited.
LEMMA RecordingEdits ==
  ASSUME UInv, NEW p \in Procs, NEW o \in OrderIds, orders[o].status # "none",
         \/ \E t \in Payments : orders' = [orders EXCEPT ![o].tx = t]
         \/ \E S \in SUBSET {"commit", "reveal"} : orders' = [orders EXCEPT ![o].txs = S]
  PROVE  Edited(p)
<1>1. orders \in [OrderIds -> Orders]
  BY DEF UInv, TypeOK
<1>2. ASSUME NEW d \in Orders, orders' = [orders EXCEPT ![o] = d], d.status = orders[o].status,
             d.units = orders[o].units, d.wallet = orders[o].wallet, d.round = orders[o].round
      PROVE  Edited(p)
  <2>1. orders' \in [OrderIds -> Orders] /\ orders'[o] = d
        /\ \A q \in OrderIds : q # o => orders'[q] = orders[q]
    BY <1>1, <1>2
  <2> QED
    BY <1>2, <2>1 DEF Edited
<1>3. ASSUME NEW t \in Payments, orders' = [orders EXCEPT ![o].tx = t]
      PROVE  Edited(p)
  <2> DEFINE d == [orders[o] EXCEPT !.tx = t]
  <2>1. d \in Orders /\ d.status = orders[o].status /\ d.units = orders[o].units
        /\ d.wallet = orders[o].wallet /\ d.round = orders[o].round
    BY <1>1 DEF Orders
  <2>2. orders' = [orders EXCEPT ![o] = d]
    BY <1>1, <1>3 DEF Orders
  <2> HIDE DEF d
  <2> QED
    BY <1>2, <2>1, <2>2
<1>4. ASSUME NEW S \in SUBSET {"commit", "reveal"}, orders' = [orders EXCEPT ![o].txs = S]
      PROVE  Edited(p)
  <2> DEFINE d == [orders[o] EXCEPT !.txs = S]
  <2>1. d \in Orders /\ d.status = orders[o].status /\ d.units = orders[o].units
        /\ d.wallet = orders[o].wallet /\ d.round = orders[o].round
    BY <1>1 DEF Orders
  <2>2. orders' = [orders EXCEPT ![o] = d]
    BY <1>1, <1>4 DEF Orders
  <2> HIDE DEF d
  <2> QED
    BY <1>2, <2>1, <2>2
<1> QED
  BY <1>3, <1>4

\* Every step of a process reads only, writes the lunchpad, edits an order, or reserves one.
Reads(p) ==
    \/ Requests(p) \/ StartProcessing(p) \/ StartTokens(p) \/ OpenOrders(p)
    \/ RetrieveOpenOrders(p) \/ RetrieveMove(p)
    \/ ReserveLock(p) \/ ReserveWallet(p) \/ VerifyLunchpad(p)
    \/ VerifyPayment(p) \/ CancelLunchpad(p) \/ CancelPayment(p) \/ CancelLock(p)
    \/ RunRead(p) \/ RunTokens(p) \/ RunFetch(p) \/ AwaitReceipt(p) \/ SubmitCommit(p)
    \/ SubmitReveal(p) \/ RunFails(p) \/ RunClosing(p) \/ Stop(p)
    \/ /\ p = Cron
       /\ WaitingKasOrders \/ WaitingOrders \/ UsedTransactions \/ FreeUtxos \/ CancelWaiting

Writes(p) ==
    \/ StartStatus(p) \/ StopStatus(p) \/ Inactivate(p) \/ CancelUnits(p)
    \/ RunStart(p) \/ ReduceTokens(p) \/ SoldOut(p) \/ RunStop(p)

Edits(p) ==
    \/ VerifyRecord(p) \/ VerifyStatus(p) \/ CancelStatus(p) \/ RunOrder(p)
    \/ NotifyCommit(p) \/ NotifyReveal(p) \/ Complete(p) \/ RunError(p)
    \/ p = Cron /\ MatchUtxo

Reserves(p) == ReserveCommit(p) \/ ReserveLost(p)

Step(p) == Reads(p) \/ Writes(p) \/ Edits(p) \/ Reserves(p)

\* What is no step of a process leaves the documents and the processes alone.
LEMMA Steps ==
  ASSUME [Next]_vars
  PROVE  UNCHANGED <<lp, lock, orders, proc>> \/ \E p \in Procs : Step(p)
<1>1. ASSUME NEW p \in Procs, Requests(p) \/ StartProcessing(p) \/ Continue(p) \/ Failures(p)
      PROVE  Step(p)
  BY <1>1 DEF Step, Reads, Writes, Edits, Reserves, Continue, OwnerSteps, OrderSteps, RunSteps, Failures
<1>2. CASE WaitingKasOrders \/ WaitingSteps
  BY <1>2 DEF Step, Reads, Edits, WaitingSteps, Procs
<1>3. CASE Deposit \/ (\E t \in Payments : Pay(t)) \/ UNCHANGED vars
  BY <1>3 DEF Deposit, Pay, vars, book
<1> QED
  BY <1>1, <1>2, <1>3 DEF Next

LEMMA ReadsStores ==
  ASSUME UInv, NEW p \in Procs, Reads(p)
  PROVE  Stored(p)
<1>1. UNCHANGED <<lp, orders>> /\ (lock' \subseteq lock \/ lock' = {p})
  BY DEF Reads, Requests, StartLunchpad, StopLunchpad, RetrieveFunds, CreateOrder, CancelOrder,
         VerifyOrder, StartProcessing, StartTokens, OpenOrders, RetrieveOpenOrders, RetrieveMove,
         ReserveLock, ReserveWallet, VerifyLunchpad, VerifyPayment,
         CancelLunchpad, CancelPayment, CancelLock, RunRead, RunTokens, RunFetch, AwaitReceipt,
         SubmitCommit, SubmitReveal, RunFails, RunClosing, Stop, book, Begin, Abort,
         WaitingKasOrders, WaitingOrders, UsedTransactions, FreeUtxos, CancelWaiting
<1> QED
  BY <1>1, ReadingStores

LEMMA WritesStores ==
  ASSUME UInv, NEW p \in Procs, Writes(p)
  PROVE  Stored(p)
<1> USE DEF Writes
<1>0. /\ lp \in Lunchpads /\ proc \in [Procs -> Jobs] /\ orders \in [OrderIds -> Orders]
      /\ lp.avail \in Int /\ lp.avail >= 0 /\ lp.round \in Nat /\ lp.round <= MaxRounds
      /\ lp.status # "INACTIVE" => lp.round > 0
      /\ lp.status = "ACTIVE" => lp.avail >= MinUnits
      /\ lp.status = "NO_UNITS_LEFT" => lp.avail < MinUnits
      /\ MinUnits \in Nat /\ MinUnits > 0 /\ MaxRounds \in Nat
  BY ConstantsAssumption
  DEF ConstantsAssumption, UInv, TypeOK, Lunchpads, Books, StatusFollowsUnits
<1>1. UNCHANGED orders
  BY DEF StartStatus, StopStatus, Inactivate, CancelUnits, RunStart, ReduceTokens, SoldOut, RunStop
<1>2. CASE UNCHANGED book
  BY <1>1, <1>2, ReadingStores DEF book
<1>3. ASSUME NEW s \in LunchpadStatuses \ {"ACTIVE", "NO_UNITS_LEFT"}, lp.status # "INACTIVE",
             lp' = [lp EXCEPT !.status = s], lock' = {}
      PROVE  Stored(p)
  <2>1. /\ lp' \in Lunchpads /\ lp'.avail = lp.avail /\ lp'.round = lp.round /\ lp'.status = s
    BY <1>0, <1>3 DEF Lunchpads
  <2> QED
    BY <1>0, <1>1, <1>3, <2>1, WritingStores
<1>4. ASSUME NEW b \in BOOLEAN, lp' = [lp EXCEPT !.running = b], lock' = {}
      PROVE  Stored(p)
  <2>1. lp' \in Lunchpads /\ lp'.avail = lp.avail /\ lp'.round = lp.round /\ lp'.status = lp.status
    BY <1>0, <1>4 DEF Lunchpads
  <2> QED
    BY <1>0, <1>1, <1>4, <2>1, WritingStores
<1>5. CASE StartStatus(p)
  <2>1. /\ proc[p].round = lp.round /\ lp.round < MaxRounds /\ p = Owner
        /\ proc[p].n \in Int /\ proc[p].n >= MinUnits
    BY <1>0, <1>5 DEF UInv, Asks, StartStatus, At, Jobs
  <2>2. CASE lp' = [lp EXCEPT !.status = "ACTIVE", !.avail = proc[p].n, !.total = proc[p].n,
                              !.tokens = proc[p].n, !.round = proc[p].round + 1] /\ lock' = {}
    <3>a. lp' = [status |-> "ACTIVE", avail |-> proc[p].n, total |-> proc[p].n,
                 round |-> lp.round + 1, tokens |-> proc[p].n, running |-> lp.running]
      BY <1>0, <2>1, <2>2 DEF Lunchpads
    <3>1. /\ lp' \in Lunchpads /\ lp'.avail = proc[p].n /\ lp'.status = "ACTIVE"
          /\ lp'.round = lp.round + 1
      BY <1>0, <2>1, <3>a DEF Lunchpads, LunchpadStatuses
    <3>2. lp'.round \in lp.round..MaxRounds /\ lp'.round > 0 /\ lp'.avail >= 0
      BY <1>0, <2>1, <3>1
    <3> QED
      BY <1>0, <1>1, <2>1, <2>2, <3>1, <3>2, WritingStores
  <2> QED
    BY <1>2, <1>5, <2>2 DEF StartStatus, Write
<1>6. CASE StopStatus(p)
  <2>1. "STOPPING" \in LunchpadStatuses \ {"ACTIVE", "NO_UNITS_LEFT"}
    BY DEF LunchpadStatuses
  <2> QED
    BY <1>2, <1>3, <1>6, <2>1 DEF StopStatus, Write
<1>7. CASE Inactivate(p)
  <2>1. CASE lp' = [lp EXCEPT !.status = "INACTIVE", !.avail = 0, !.total = 0] /\ lock' = {}
    <3>1. lp' \in Lunchpads /\ lp'.avail = 0 /\ lp'.status = "INACTIVE" /\ lp'.round = lp.round
      <4>1. lp' = [status |-> "INACTIVE", avail |-> 0, total |-> 0, round |-> lp.round,
                   tokens |-> lp.tokens, running |-> lp.running]
        BY <1>0, <2>1 DEF Lunchpads
      <4> QED
        BY <1>0, <4>1 DEF Lunchpads, LunchpadStatuses
    <3> QED
      BY <1>0, <1>1, <2>1, <3>1, WritingStores
  <2> QED
    BY <1>2, <1>7, <2>1 DEF Inactivate, Write
<1>8. CASE CancelUnits(p)
  <2> DEFINE units == orders[proc[p].o].units
             s == IF lp.status = "NO_UNITS_LEFT" /\ lp.avail + units >= MinUnits
                  THEN "ACTIVE" ELSE lp.status
  <2>1. proc[p].o \in OrderIds /\ units \in Nat
    BY <1>0, <1>8 DEF UInv, Asks, CancelUnits, At, Orders
  <2>2. CASE lp' = [lp EXCEPT !.avail = @ + units, !.status = s] /\ lock' = {}
    <3>1. s \in LunchpadStatuses
      BY <1>0 DEF Lunchpads, LunchpadStatuses
    <3>2. /\ lp' \in Lunchpads /\ lp'.avail = lp.avail + units /\ lp'.round = lp.round
          /\ lp'.status = s
      <4> HIDE DEF s, units
      <4> QED
        <5>1. lp' = [status |-> s, avail |-> lp.avail + units, total |-> lp.total,
                     round |-> lp.round, tokens |-> lp.tokens, running |-> lp.running]
          BY <1>0, <2>2 DEF Lunchpads
        <5> QED
          BY <1>0, <2>1, <3>1, <5>1 DEF Lunchpads
    <3> QED
      BY <1>0, <1>1, <2>1, <2>2, <3>2, WritingStores
  <2>3. lp' = [lp EXCEPT !.avail = @ + units, !.status = s] /\ lock' = {}
    BY <1>0, <1>8, SoleHolder DEF CancelUnits, Commit, Lunchpads
  <2> QED
    BY <2>2, <2>3
<1>9. CASE RunStart(p) \/ RunStop(p)
  BY <1>2, <1>4, <1>9 DEF RunStart, RunStop, Write
<1>10. CASE ReduceTokens(p)
  <2> DEFINE units == orders[proc[p].o].units
  <2>1. units \in Nat
    <3>1. proc[p].o \in OrderIds
      BY <1>10 DEF UInv, PInv, IInv, Stages, Stage, ReduceTokens, At, Sends
    <3> QED
      BY <1>0, <3>1 DEF Orders
  <2>2. lp' = [lp EXCEPT !.tokens = @ - units] /\ lock' = {}
    BY <1>10 DEF ReduceTokens, Write
  <2>3. lp' \in Lunchpads /\ lp'.avail = lp.avail /\ lp'.round = lp.round /\ lp'.status = lp.status
    <3> HIDE DEF units
    <3> QED
      BY <1>0, <2>1, <2>2 DEF Lunchpads
  <2> QED
    BY <1>0, <1>1, <2>2, <2>3, WritingStores
<1>11. CASE SoldOut(p)
  <2>1. "SOLD_OUT" \in LunchpadStatuses \ {"ACTIVE", "NO_UNITS_LEFT"}
    BY DEF LunchpadStatuses
  <2> QED
    BY <1>2, <1>3, <1>11, <2>1 DEF SoldOut, Write
<1> QED
  BY <1>5, <1>6, <1>7, <1>8, <1>9, <1>10, <1>11

LEMMA EditsStores ==
  ASSUME UInv, NEW p \in Procs, Edits(p)
  PROVE  Stored(p) /\ (UNCHANGED orders \/ Edited(p))
<1> USE DEF Edits
<1>0. lp' = lp /\ (lock' \subseteq lock \/ lock' = {p})
  BY DEF VerifyRecord, VerifyStatus, CancelStatus, RunOrder, NotifyCommit, NotifyReveal, Complete,
         RunError, MatchUtxo, book, Abort
<1>1. SUFFICES UNCHANGED orders \/ Edited(p)
  BY <1>0, ReadingStores, EditingStores
<1>2. {"VERIFIED_AND_WAITING_FOR_PROCESSING", "PROCESSING", "COMPLETED", "ERROR", "TOKENS_NOT_SENT"}
        \subseteq OrderStatuses \ {"none"}
  BY DEF OrderStatuses
<1>3. CASE VerifyRecord(p)
  <2>1. Pays(proc[p].tx, orders[proc[p].o]) /\ proc[p].o \in OrderIds /\ orders[proc[p].o].status # "none"
    BY <1>3 DEF UInv, PInv, Knows, VerifyRecord, At
  <2>2. proc[p].tx \in Payments
    BY <2>1 DEF UInv, TypeOK, Pays
  <2> QED
    BY <1>3, <2>1, <2>2, RecordingEdits DEF VerifyRecord
<1>4. CASE VerifyStatus(p) \/ CancelStatus(p)
  BY <1>2, <1>4, TransitionEdits DEF VerifyStatus, CancelStatus
<1>5. CASE RunOrder(p)
  BY <1>2, <1>5, TransitionEdits DEF RunOrder
<1>6. CASE NotifyCommit(p) \/ NotifyReveal(p)
  <2>1. proc[p].o \in OrderIds /\ orders[proc[p].o].status # "none"
    BY <1>6 DEF UInv, PInv, IInv, Stages, Stage, Sends, NotifyCommit, NotifyReveal, At
  <2> QED
    BY <1>6, <2>1, RecordingEdits DEF NotifyCommit, NotifyReveal
<1>7. CASE Complete(p) \/ RunError(p)
  BY <1>2, <1>7, TransitionEdits DEF Complete, RunError, At, Running
<1>8. CASE MatchUtxo /\ p = Cron
  <2>0. orders \in [OrderIds -> Orders] /\ proc[Cron].free \subseteq Payments
    BY DEF UInv, TypeOK, Jobs, Procs
  <2>1. ASSUME NEW t \in Payments, NEW done, \A o \in done : orders[o].status = "WAITING_FOR_KAS",
               orders' = [o \in OrderIds |->
                 IF o \in done
                 THEN [orders[o] EXCEPT !.tx = t, !.status = "VERIFIED_AND_WAITING_FOR_PROCESSING"]
                 ELSE orders[o]]
        PROVE  Edited(p)
    <3>1. ASSUME NEW o \in OrderIds
          PROVE  /\ orders'[o] \in Orders
                 /\ o \notin done => orders'[o] = orders[o]
                 /\ o \in done => /\ orders'[o].units = orders[o].units
                                  /\ orders'[o].wallet = orders[o].wallet
                                  /\ orders'[o].round = orders[o].round
                                  /\ orders'[o].status # "none"
      <4> DEFINE d == [orders[o] EXCEPT !.tx = t, !.status = "VERIFIED_AND_WAITING_FOR_PROCESSING"]
      <4>1. orders[o] \in Orders
        BY <2>0
      <4>2. /\ d \in Orders /\ d.units = orders[o].units /\ d.wallet = orders[o].wallet
            /\ d.round = orders[o].round /\ d.status = "VERIFIED_AND_WAITING_FOR_PROCESSING"
        BY <1>2, <4>1 DEF Orders
      <4>3. orders'[o] = IF o \in done THEN d ELSE orders[o]
        BY <2>1
      <4> HIDE DEF d
      <4> QED
        BY <4>1, <4>2, <4>3
    <3>2. orders' \in [OrderIds -> Orders]
      <4>1. orders' = [o \in OrderIds |-> orders'[o]]
        BY <2>1
      <4> QED
        BY <3>1, <4>1
    <3> QED
      BY <2>1, <3>1, <3>2 DEF Edited
  <2> QED
    BY <1>8, <2>0, <2>1 DEF MatchUtxo
<1> QED
  BY <1>3, <1>4, <1>5, <1>6, <1>7, <1>8

\* What a reservation makes of the orders.
LEMMA ReservationMakes ==
  ASSUME UInv, NEW p \in Procs, At(p, "resCommit"), NewOrder(p)
  PROVE  \E o \in OrderIds :
           /\ orders[o] = NoOrder
           /\ orders'[o] \in Orders /\ orders'[o].status = "WAITING_FOR_KAS"
           /\ orders'[o].units = proc[p].n /\ orders'[o].wallet = proc[p].w
           /\ orders'[o].round = lp.round /\ orders'[o].txs = {}
           /\ orders' \in [OrderIds -> Orders]
           /\ \A q \in OrderIds : q # o => orders'[q] = orders[q]
<1>0. /\ orders \in [OrderIds -> Orders] /\ lp.round \in Nat
      /\ proc[p].n \in Nat /\ proc[p].w \in Wallets
  BY DEF UInv, TypeOK, Jobs, Lunchpads, Asks, At
<1>1. PICK o \in OrderIds :
        /\ orders[o].status = "none"
        /\ orders' = [orders EXCEPT ![o] = [NoOrder EXCEPT
                        !.status = "WAITING_FOR_KAS", !.units = proc[p].n,
                        !.wallet = proc[p].w, !.round = lp.round]]
  BY DEF NewOrder, Oldest, OfRound
<1> DEFINE d == [NoOrder EXCEPT !.status = "WAITING_FOR_KAS", !.units = proc[p].n,
                                !.wallet = proc[p].w, !.round = lp.round]
<1>2. /\ d \in Orders /\ d.status = "WAITING_FOR_KAS" /\ d.units = proc[p].n
      /\ d.wallet = proc[p].w /\ d.round = lp.round /\ d.txs = {}
  BY <1>0 DEF NoOrder, Orders, OrderStatuses
<1>3. orders' = [orders EXCEPT ![o] = d]
  BY <1>1
<1> HIDE DEF d
<1>4. orders' \in [OrderIds -> Orders] /\ orders'[o] = d
      /\ \A q \in OrderIds : q # o => orders'[q] = orders[q]
  BY <1>0, <1>2, <1>3
<1>5. orders[o] = NoOrder
  BY <1>1 DEF UInv, Books
<1> QED
  BY <1>2, <1>4, <1>5

LEMMA ReservesStores ==
  ASSUME UInv, NEW p \in Procs, Reserves(p)
  PROVE  Stored(p)
<1> USE DEF Reserves
<1>0. /\ lp \in Lunchpads /\ lock \subseteq Procs
      /\ lp.avail \in Int /\ lp.avail >= 0 /\ lp.round \in Nat /\ lp.round <= MaxRounds
      /\ lp.status # "INACTIVE" => lp.round > 0
      /\ lp.status = "ACTIVE" => lp.avail >= MinUnits
      /\ lp.status = "NO_UNITS_LEFT" => lp.avail < MinUnits
      /\ MinUnits \in Nat
  BY ConstantsAssumption
  DEF ConstantsAssumption, UInv, TypeOK, Lunchpads, Books, StatusFollowsUnits
<1>1. At(p, "resCommit") /\ NewOrder(p) /\ p \in lock
  BY DEF ReserveCommit, Commit, ReserveLost
<1>2. /\ proc[p].n \in Int /\ proc[p].n > 0 /\ proc[p].n <= lp.avail
      /\ proc[p].w \in Wallets /\ lp.round > 0
  BY <1>1 DEF UInv, TypeOK, Jobs, Asks, At
<1>3. PICK o \in OrderIds :
        /\ orders[o] = NoOrder
        /\ orders'[o] \in Orders /\ orders'[o].status = "WAITING_FOR_KAS"
        /\ orders'[o].units = proc[p].n /\ orders'[o].wallet = proc[p].w
        /\ orders'[o].round = lp.round
        /\ orders' \in [OrderIds -> Orders]
        /\ \A q \in OrderIds : q # o => orders'[q] = orders[q]
  BY <1>1, ReservationMakes
<1>4. orders[o].status = "none"
  BY <1>3 DEF NoOrder
<1>5. /\ lp' \in Lunchpads /\ lp'.avail \in Int /\ lp'.avail >= 0 /\ lp'.round = lp.round
      /\ lp'.status # "INACTIVE" => lp'.round > 0
      /\ lp'.status = "ACTIVE" => lp'.avail >= MinUnits
      /\ lp'.status = "NO_UNITS_LEFT" => lp'.avail < MinUnits
      /\ lock' = {} \/ (lp' = lp /\ lock' \subseteq lock)
  <2>1. CASE ReserveLost(p)
    BY <1>0, <2>1 DEF ReserveLost, Abort
  <2>2. CASE ReserveCommit(p)
    <3> DEFINE s == IF lp.avail - proc[p].n < MinUnits THEN "NO_UNITS_LEFT" ELSE lp.status
    <3>1. s \in LunchpadStatuses
      BY <1>0 DEF Lunchpads, LunchpadStatuses
    <3>2. lp' = [status |-> s, avail |-> lp.avail - proc[p].n, total |-> lp.total,
                 round |-> lp.round, tokens |-> lp.tokens, running |-> lp.running]
          /\ lock' = {}
      BY <1>0, <2>2, SoleHolder DEF ReserveCommit, Commit, Lunchpads
    <3>3. lp' \in Lunchpads /\ lp'.status = s /\ lp'.avail = lp.avail - proc[p].n
          /\ lp'.round = lp.round
      <4> HIDE DEF s
      <4> QED
        BY <1>0, <1>2, <3>1, <3>2 DEF Lunchpads
    <3>4. lp.status = "NO_UNITS_LEFT" => lp.avail - proc[p].n < MinUnits
      BY <1>0, <1>2
    <3> QED
      BY <1>0, <1>2, <3>2, <3>3, <3>4
  <2> QED
    BY <2>1, <2>2
<1>6. Onward(p)
  BY <1>0, <1>3, <1>4, <1>5 DEF Onward
<1>7. Books'
  <2>1. ASSUME NEW q \in OrderIds
        PROVE  IF orders'[q].status = "none" THEN orders'[q] = NoOrder
               ELSE /\ orders'[q].round \in 1..lp'.round /\ orders'[q].wallet \in Wallets
                    /\ orders'[q].units > 0
    <3>1. CASE q = o
      BY <1>0, <1>2, <1>3, <1>5, <3>1
    <3>2. CASE q # o
      BY <1>3, <1>5, <3>2 DEF UInv, Books
    <3> QED
      BY <3>1, <3>2
  <2> QED
    <3>1. \A q, r \in lock' : q = r
      BY <1>5 DEF UInv, Books
    <3> QED
      BY <1>0, <1>5, <2>1, <3>1 DEF Books, StatusFollowsUnits
<1> QED
  BY <1>0, <1>3, <1>5, <1>6, <1>7 DEF Stored

\* Orders can be counted, and their units added up.
LEMMA OrderIdsFinite == IsFiniteSet(OrderIds)
  BY ConstantsAssumption, FS_Interval DEF ConstantsAssumption, OrderIds

\* Some orders' units are a natural number.
LEMMA UnitsNat ==
  ASSUME TypeOK, NEW S \in SUBSET OrderIds
  PROVE  Units(S) \in Nat /\ IsFiniteSet(S)
<1> DEFINE f == [o \in OrderIds |-> orders[o].units]
<1>1. IsFiniteSet(S) /\ \A o \in S : f[o] \in Nat
  BY OrderIdsFinite, FS_Subset DEF TypeOK, Orders
<1> HIDE DEF f
<1>2. SumFunctionOnSet(f, S) \in Nat
  BY <1>1, SumNat
<1> QED
  BY <1>1, <1>2 DEF f, Units

\* The units of an order: what it asks for, what is left, what the wallet may still buy.
LEMMA LeastOfThree ==
  ASSUME NEW a \in Int, NEW b \in Int, NEW c \in Int
  PROVE  /\ Min({a, b, c}) \in {a, b, c}
         /\ Min({a, b, c}) <= a /\ Min({a, b, c}) <= b /\ Min({a, b, c}) <= c
<1>1. \E x \in {a, b, c} : \A y \in {a, b, c} : x =< y
  <2>1. CASE a <= b /\ a <= c
    BY <2>1
  <2>2. CASE b <= a /\ b <= c
    BY <2>2
  <2>3. CASE c <= a /\ c <= b
    BY <2>3
  <2> QED
    BY <2>1, <2>2, <2>3
<1> QED
  BY <1>1 DEF Min

\* What a reservation is granted.
LEMMA GrantedIs ==
  ASSUME UInv, NEW p \in Procs, At(p, "resWallet"), WalletMax > Bought(proc[p].w), Granted(p) # 0
  PROVE  /\ Granted(p) \in Nat /\ Granted(p) > 0 /\ Granted(p) <= proc[p].n
         /\ Granted(p) <= WalletMax - Bought(proc[p].w) /\ Bought(proc[p].w) \in Nat
<1>1. proc[p].u \in Nat /\ proc[p].n \in Nat /\ proc[p].u > 0 /\ WalletMax \in Nat
  BY ConstantsAssumption DEF ConstantsAssumption, UInv, TypeOK, Jobs, Asks, At
<1>2. Bought(proc[p].w) \in Nat
  BY UnitsNat DEF Bought, UInv
<1>3. PICK r \in Int : r = WalletMax - Bought(proc[p].w) /\ r > 0
  BY <1>1, <1>2
<1>4. Granted(p) = Min({proc[p].u, proc[p].n, r})
  BY <1>3, Zenon DEF Granted
<1>5. Granted(p) \in {proc[p].u, proc[p].n, r} /\ Granted(p) <= proc[p].n /\ Granted(p) <= r
  <2>1. proc[p].u \in Int /\ proc[p].n \in Int
    BY <1>1
  <2>2. PICK u \in Int, n \in Int : u = proc[p].u /\ n = proc[p].n
    BY <2>1
  <2>3. Min({u, n, r}) \in {u, n, r} /\ Min({u, n, r}) <= n /\ Min({u, n, r}) <= r
    BY LeastOfThree
  <2>4. Granted(p) = Min({u, n, r})
    BY <1>4, <2>2, Zenon
  <2> QED
    BY <2>2, <2>3, <2>4
<1>6. Granted(p) \in Nat
  BY <1>1, <1>3, <1>5
<1> QED
  BY <1>2, <1>3, <1>5, <1>6

\* The steps after which a process has something to know.
LEMMA ReservationAsks ==
  ASSUME UInv, NEW p \in Procs,
         \/ StartLunchpad(p) \/ StartTokens(p)
         \/ \E w \in Wallets, u \in MinUnits..MaxUnits : CreateOrder(p, w, u)
         \/ ReserveLock(p) \/ ReserveWallet(p)
  PROVE  Moves(p) /\ Stored(p) /\ Asks(p)'
<1>0. /\ TypeOK /\ lp \in Lunchpads /\ proc[p] \in Jobs /\ proc \in [Procs -> Jobs]
      /\ lp.round \in Nat /\ lp.avail \in Int /\ lp.avail >= 0 /\ Asks(p)
  BY DEF UInv, TypeOK, Lunchpads, Books
<1>a. {"startTokens", "startStatus", "resLock", "resWallet", "resCommit"} \subseteq Labels
  BY DEF Labels
<1>1. UNCHANGED orders /\ Stored(p)
  BY ReadsStores
  DEF Reads, Requests, StartLunchpad, StartTokens, CreateOrder, ReserveLock, ReserveWallet
<1>2. CASE End(p)
  BY <1>1, <1>2, EndCarefree, CarefreeAsks DEF Carefree, Stored
<1>3. CASE StartLunchpad(p)
  <2> DEFINE j == [Idle EXCEPT !.pc = "startTokens", !.round = lp.round]
  <2>1. j \in Jobs /\ j.pc = "startTokens" /\ j.round = lp.round /\ j.list = {}
    BY <1>0, <1>a, IdleJob DEF Jobs, Idle
  <2>2. p = Owner /\ lp.round < MaxRounds /\ proc' = [proc EXCEPT ![p] = j] /\ lp' = lp
    BY <1>3 DEF StartLunchpad, book
  <2> HIDE DEF j
  <2>3. Moves(p) /\ proc'[p] = j
    BY <1>0, <2>1, <2>2, JobSet
  <2> QED
    BY <1>1, <2>1, <2>2, <2>3 DEF Asks, At
<1>4. CASE StartTokens(p) /\ ~End(p)
  <2> DEFINE j == [proc[p] EXCEPT !.pc = "startStatus", !.n = stock]
  <2>0. stock \in Nat /\ stock >= MinUnits /\ At(p, "startTokens") /\ lp' = lp
    BY <1>0, <1>4 DEF StartTokens, TypeOK, book
  <2>a. stock \in Int /\ "startStatus" \in Labels
    BY <1>a, <2>0
  <2>1. j \in Jobs /\ j.pc = "startStatus" /\ j.n = stock /\ j.round = proc[p].round
        /\ j.list = proc[p].list
    BY <1>0, <2>a DEF Jobs
  <2>2. proc' = [proc EXCEPT ![p] = j]
    BY <1>0, <1>4 DEF StartTokens, Jobs
  <2> HIDE DEF j
  <2>3. Moves(p) /\ proc'[p] = j
    BY <1>0, <2>1, <2>2, JobSet
  <2> QED
    BY <1>0, <1>1, <2>0, <2>1, <2>3 DEF Asks, At
<1>5. ASSUME NEW w \in Wallets, NEW u \in MinUnits..MaxUnits, CreateOrder(p, w, u)
      PROVE  Moves(p) /\ Asks(p)'
  <2> DEFINE j == [Idle EXCEPT !.pc = "resLock", !.w = w, !.u = u]
  <2>0. u \in Nat /\ u > 0 /\ lp.round > 0 /\ lp' = lp
    <3>1. MinUnits \in Nat /\ MaxUnits \in Nat /\ MinUnits > 0
      BY ConstantsAssumption DEF ConstantsAssumption
    <3>2. u \in Nat /\ u > 0
      BY <3>1
    <3> QED
      BY <1>5, <3>2 DEF CreateOrder, UInv, Books, book
  <2>1. j \in Jobs /\ j.pc = "resLock" /\ j.w = w /\ j.u = u /\ j.list = {}
    BY <1>a, <2>0, IdleJob DEF Jobs, Idle
  <2>2. proc' = [proc EXCEPT ![p] = j]
    BY <1>5 DEF CreateOrder
  <2> HIDE DEF j
  <2>3. Moves(p) /\ proc'[p] = j
    BY <1>0, <2>1, <2>2, JobSet
  <2> QED
    BY <2>0, <2>1, <2>3 DEF Asks, At
<1>6. CASE ReserveLock(p) /\ ~End(p)
  <2> DEFINE j == [proc[p] EXCEPT !.pc = "resWallet", !.n = lp.avail]
  <2>0. At(p, "resLock") /\ lp' = lp
    BY <1>6 DEF ReserveLock, Begin
  <2>1. j \in Jobs /\ j.pc = "resWallet" /\ j.n = lp.avail /\ j.w = proc[p].w /\ j.u = proc[p].u
        /\ j.list = proc[p].list
    BY <1>0, <1>a DEF Jobs
  <2>2. proc' = [proc EXCEPT ![p] = j]
    BY <1>0, <1>6 DEF ReserveLock, Jobs
  <2> HIDE DEF j
  <2>3. Moves(p) /\ proc'[p] = j
    BY <1>0, <2>1, <2>2, JobSet
  <2> QED
    BY <1>0, <1>1, <2>0, <2>1, <2>3 DEF Asks, At
<1>7. CASE ReserveWallet(p) /\ ~End(p)
  <2> DEFINE g == Granted(p)
             j == [proc[p] EXCEPT !.pc = "resCommit", !.n = g]
  <2>0. /\ At(p, "resWallet") /\ lp' = lp /\ lock' = lock
        /\ g \in Nat /\ g > 0 /\ g <= proc[p].n
    BY <1>7, GrantedIs DEF ReserveWallet, book
  <2>2. proc' = [proc EXCEPT ![p] = j]
    BY <1>0, <1>7 DEF ReserveWallet, Jobs
  <2> HIDE DEF g
  <2>a. g \in Int /\ "resCommit" \in Labels
    BY <1>a, <2>0
  <2>1. j \in Jobs /\ j.pc = "resCommit" /\ j.n = g /\ j.w = proc[p].w /\ j.u = proc[p].u
        /\ j.list = proc[p].list
    BY <1>0, <2>a DEF Jobs
  <2> HIDE DEF j
  <2>3. Moves(p) /\ proc'[p] = j
    BY <1>0, <2>1, <2>2, JobSet
  <2> QED
    BY <1>0, <1>1, <2>0, <2>1, <2>3 DEF Asks, At
<1> QED
  BY <1>1, <1>2, <1>3, <1>4, <1>5, <1>6, <1>7

LEMMA CancellationAsks ==
  ASSUME UInv, NEW p \in Procs,
         \/ CancelPayment(p) \/ CancelLock(p) \/ CancelStatus(p) \/ CancelUnits(p)
         \/ p = Cron /\ CancelWaiting
  PROVE  Moves(p) /\ Stored(p) /\ Asks(p)'
<1>0. /\ TypeOK /\ proc[p] \in Jobs /\ proc \in [Procs -> Jobs] /\ orders \in [OrderIds -> Orders]
      /\ Asks(p) /\ lp.round \in Nat
  BY DEF UInv, TypeOK, Lunchpads
<1>a. {"canLock", "canOrder", "canUnits", "runRead", "verStatus"} \subseteq Labels
  BY DEF Labels
<1>1. Stored(p)
  BY ReadsStores, WritesStores, EditsStores DEF Reads, Writes, Edits
<1>2. CASE Carefree(p)
  BY <1>1, <1>2, CarefreeAsks DEF Carefree, Stored
<1>3. ASSUME NEW l \in {"canLock", "canOrder"}, Goto(p, l), proc[p].o \in OrderIds,
             orders[proc[p].o].status # "none"
      PROVE  Moves(p) /\ Asks(p)'
  <2>1. Moves(p) /\ proc'[p].pc = l /\ proc'[p].o = proc[p].o /\ proc'[p].list = proc[p].list
    BY <1>0, <1>a, <1>3, JobGoto
  <2> QED
    BY <1>0, <1>1, <1>3, <2>1 DEF Asks, At, Stored, Onward, Jobs
<1>4. CASE CancelPayment(p)
  <2>1. proc[p].o \in OrderIds /\ orders[proc[p].o].status # "none"
    BY <1>4 DEF UInv, PInv, Knows, CancelPayment, At
  <2>2. "verStatus" \in Labels \ Guarded
    BY DEF Labels, Guarded
  <2> QED
    BY <1>1, <1>2, <1>3, <1>4, <2>1, <2>2, GotoCarefree DEF CancelPayment
<1>5. CASE CancelLock(p)
  BY <1>0, <1>1, <1>3, <1>5 DEF CancelLock, Asks, At
<1>6. CASE CancelStatus(p)
  <2>1. CASE OrderTransition(proc[p].o, "WAITING_FOR_KAS", "TOKENS_NOT_SENT") /\ Goto(p, "canUnits")
    <3>1. proc[p].o \in OrderIds /\ orders'[proc[p].o].status = "TOKENS_NOT_SENT"
      BY <1>0, <1>6, <2>1 DEF CancelStatus, OrderTransition, Asks, At, Orders
    <3>2. /\ Moves(p) /\ proc'[p].pc = "canUnits" /\ proc'[p].o = proc[p].o
          /\ proc'[p].list = proc[p].list
      BY <1>0, <1>a, <2>1, JobGoto
    <3> QED
      BY <1>0, <1>1, <3>1, <3>2 DEF Asks, At, Stored, Onward, Jobs
  <2> QED
    BY <1>1, <1>2, <1>6, <2>1, ReturnCarefree DEF CancelStatus
<1>7. CASE CancelUnits(p)
  <2>1. lp'.round \in Nat
    BY <1>1 DEF Stored, Onward
  <2> QED
    BY <1>1, <1>2, <1>7, <2>1, CloseCarefree DEF CancelUnits
<1>8. CASE p = Cron /\ CancelWaiting
  <2>1. CASE proc' = [proc EXCEPT ![p] = [Idle EXCEPT !.pc = "runRead"]]
    <3> DEFINE j == [Idle EXCEPT !.pc = "runRead"]
    <3>1. j \in Jobs /\ j.pc = "runRead" /\ j.list = {}
      BY <1>a, IdleJob DEF Jobs, Idle
    <3> HIDE DEF j
    <3>2. Moves(p) /\ proc'[p] = j
      BY <1>0, <2>1, <3>1, JobSet DEF j
    <3>3. Carefree(p)
      BY <3>1, <3>2 DEF Carefree, Guarded
    <3> QED
      BY <1>1, <1>2, <3>3
  <2>2. ASSUME NEW o \in proc[p].list,
               proc' = [proc EXCEPT ![p].pc = "canLock", ![p].o = o, ![p].list = @ \ {o}]
        PROVE  Moves(p) /\ Asks(p)'
    <3> DEFINE j == [proc[p] EXCEPT !.pc = "canLock", !.o = o, !.list = @ \ {o}]
    <3>0. o \in OrderIds /\ orders[o].status # "none"
      BY <1>0 DEF Jobs, Asks
    <3>1. j \in Jobs /\ j.pc = "canLock" /\ j.o = o /\ j.list = proc[p].list \ {o}
      BY <1>0, <1>a, <3>0 DEF Jobs
    <3>2. proc' = [proc EXCEPT ![p] = j]
      BY <1>0, <2>2 DEF Jobs
    <3> HIDE DEF j
    <3>3. Moves(p) /\ proc'[p] = j
      BY <1>0, <3>1, <3>2, JobSet
    <3> QED
      BY <1>0, <1>1, <3>0, <3>1, <3>3 DEF Asks, At, Stored, Onward, Jobs
  <2> QED
    BY <1>1, <1>8, <2>1, <2>2 DEF CancelWaiting, Oldest
<1> QED
  BY <1>4, <1>5, <1>6, <1>7, <1>8

LEMMA ProcessingAsks ==
  ASSUME UInv, NEW p \in Procs, RunOrder(p) \/ NotifyCommit(p)
  PROVE  Moves(p) /\ Stored(p) /\ Asks(p)'
<1>0. /\ TypeOK /\ proc[p] \in Jobs /\ proc \in [Procs -> Jobs] /\ orders \in [OrderIds -> Orders]
      /\ Asks(p)
  BY DEF UInv, TypeOK
<1>1. Stored(p)
  BY EditsStores DEF Edits
<1>2. CASE RunOrder(p)
  <2>1. PICK o \in proc[p].list, l \in {"received", "notifyCommit", "runError"} :
          /\ proc' = [proc EXCEPT ![p].o = o, ![p].pc = l]
          /\ l = "notifyCommit" => \E s : OrderTransition(o, s, "PROCESSING")
    BY <1>2 DEF RunOrder, Oldest
  <2>2. o \in OrderIds /\ l \in Labels
    BY <1>0 DEF Jobs, Labels
  <2> DEFINE j == [proc[p] EXCEPT !.o = o, !.pc = l]
  <2>3. j \in Jobs /\ j.o = o /\ j.pc = l /\ j.list = proc[p].list
    BY <1>0, <2>2 DEF Jobs
  <2>4. proc' = [proc EXCEPT ![p] = j]
    BY <1>0, <2>1 DEF Jobs
  <2> HIDE DEF j
  <2>5. Moves(p) /\ proc'[p] = j
    BY <1>0, <2>3, <2>4, JobSet
  <2>6. l = "notifyCommit" => orders'[o].status = "PROCESSING"
    BY <1>0, <2>1, <2>2 DEF OrderTransition, Orders
  <2> QED
    BY <1>0, <1>1, <2>1, <2>3, <2>5, <2>6 DEF Asks, At, Stored, Onward, Jobs
<1>3. CASE NotifyCommit(p)
  <2>1. {"submitCommit", "reduce"} \subseteq Labels
    BY DEF Labels
  <2>2. /\ Moves(p) /\ proc'[p].pc \in {"submitCommit", "reduce"} /\ proc'[p].o = proc[p].o
        /\ proc'[p].list = proc[p].list
    BY <1>0, <1>3, <2>1, JobGoto DEF NotifyCommit
  <2>3. orders'[proc[p].o].status = orders[proc[p].o].status /\ proc[p].o \in OrderIds
    BY <1>0, <1>3 DEF NotifyCommit, Orders, UInv, PInv, IInv, Stages, Stage, Sends, At
  <2> QED
    BY <1>0, <1>1, <1>3, <2>2, <2>3 DEF Asks, At, Stored, Onward, Jobs, NotifyCommit
<1> QED
  BY <1>2, <1>3

\* A step of a process that has nothing to know after it.
LEMMA CarefreeSteps ==
  ASSUME UInv, NEW p \in Procs, Carefree(p), Stored(p)
  PROVE  Moves(p) /\ Stored(p) /\ Asks(p)'
  BY CarefreeAsks DEF Carefree, Stored

\* Every step of a process keeps what processes know of units, and the documents.
LEMMA StepKnows ==
  ASSUME UInv, NEW p \in Procs, Step(p)
  PROVE  Moves(p) /\ Stored(p) /\ Asks(p)'
<1>0. Stored(p)
  BY ReadsStores, WritesStores, EditsStores, ReservesStores DEF Step
<1>1. CASE \/ StartLunchpad(p) \/ StartTokens(p)
           \/ \E w \in Wallets, u \in MinUnits..MaxUnits : CreateOrder(p, w, u)
           \/ ReserveLock(p) \/ ReserveWallet(p)
  BY <1>1, ReservationAsks
<1>2. CASE \/ CancelPayment(p) \/ CancelLock(p) \/ CancelStatus(p) \/ CancelUnits(p)
           \/ p = Cron /\ CancelWaiting
  BY <1>2, CancellationAsks
<1>3. CASE RunOrder(p) \/ NotifyCommit(p)
  BY <1>3, ProcessingAsks
<1>4. CASE \/ StopLunchpad(p) \/ RetrieveFunds(p)
           \/ \E o \in OrderIds : CancelOrder(p, o) \/ \E t \in paid : VerifyOrder(p, o, t)
  BY <1>0, <1>4, RequestsCarefree, CarefreeSteps
<1>5. CASE \/ StartStatus(p) \/ StopStatus(p) \/ OpenOrders(p) \/ Inactivate(p)
           \/ RetrieveOpenOrders(p) \/ RetrieveMove(p)
  BY <1>0, <1>5, OwnerCarefree, CarefreeSteps
<1>6. CASE \/ ReserveCommit(p) \/ ReserveLost(p)
           \/ VerifyLunchpad(p) \/ VerifyPayment(p) \/ VerifyRecord(p) \/ VerifyStatus(p)
           \/ CancelLunchpad(p)
  BY <1>0, <1>6, OrderCarefree, CarefreeSteps
<1>7. CASE \/ StartProcessing(p) \/ RunRead(p) \/ RunTokens(p) \/ RunStart(p) \/ RunFetch(p)
           \/ AwaitReceipt(p) \/ ReduceTokens(p) \/ SubmitCommit(p) \/ NotifyReveal(p)
           \/ SubmitReveal(p) \/ SoldOut(p) \/ Complete(p) \/ RunError(p) \/ RunStop(p)
           \/ RunFails(p) \/ RunClosing(p) \/ Stop(p)
  BY <1>0, <1>7, RunCarefree, CarefreeSteps
<1>8. CASE /\ p = Cron
           /\ WaitingKasOrders \/ WaitingOrders \/ UsedTransactions \/ FreeUtxos \/ MatchUtxo
  BY <1>0, <1>8, WaitingCarefree, CarefreeSteps
<1> QED
  BY <1>1, <1>2, <1>3, <1>4, <1>5, <1>6, <1>7, <1>8
  DEF Step, Reads, Writes, Edits, Reserves, Requests

\* The transfers, and the tokens in the sender wallet.
LEMMA WorldTyped ==
  ASSUME UInv, [Next]_vars
  PROVE  paid' \subseteq Payments /\ inbox' \subseteq paid' /\ stock' \in Nat
<1>0. /\ paid \subseteq Payments /\ inbox \subseteq paid /\ stock \in Nat
      /\ orders \in [OrderIds -> Orders]
  BY DEF UInv, TypeOK
<1>1. CASE UNCHANGED <<paid, inbox, stock>>
  BY <1>0, <1>1
<1>2. ASSUME NEW p \in Procs, RetrieveMove(p)
      PROVE  paid' \subseteq Payments /\ inbox' \subseteq paid' /\ stock' \in Nat
  BY <1>0, <1>2 DEF RetrieveMove
<1>3. ASSUME NEW p \in Procs, SubmitReveal(p)
      PROVE  paid' \subseteq Payments /\ inbox' \subseteq paid' /\ stock' \in Nat
  <2>1. proc[p].o \in OrderIds
    BY <1>3 DEF UInv, PInv, IInv, Stages, Stage, Sends, SubmitReveal, At
  <2>2. orders[proc[p].o].units \in Nat
    BY <1>0, <2>1 DEF Orders
  <2> QED
    BY <1>0, <1>3, <2>2 DEF SubmitReveal
<1>4. CASE Deposit \/ \E t \in Payments : Pay(t)
  BY <1>0, <1>4, ConstantsAssumption DEF ConstantsAssumption, Deposit, Pay
<1>5. ASSUME NEW p \in Procs, Requests(p) \/ StartProcessing(p) \/ Continue(p) \/ Failures(p),
             ~RetrieveMove(p), ~SubmitReveal(p)
      PROVE  UNCHANGED <<paid, inbox, stock>>
  <2>1. CASE Requests(p) \/ StartProcessing(p)
    BY <2>1 DEF Requests, StartLunchpad, StopLunchpad, RetrieveFunds, CreateOrder, CancelOrder,
                VerifyOrder, StartProcessing, world
  <2>2. CASE OwnerSteps(p)
    BY <1>5, <2>2 DEF OwnerSteps, StartTokens, StartStatus, StopStatus, OpenOrders, Inactivate,
                      RetrieveOpenOrders, world
  <2>3. CASE OrderSteps(p)
    BY <2>3 DEF OrderSteps, ReserveLock, ReserveWallet, ReserveCommit,
                VerifyLunchpad, VerifyPayment, VerifyRecord, VerifyStatus, CancelLunchpad,
                CancelPayment, CancelLock, CancelStatus, CancelUnits, world
  <2>4. CASE RunSteps(p)
    BY <1>5, <2>4 DEF RunSteps, RunRead, RunTokens, RunStart, RunFetch, RunOrder, AwaitReceipt,
                      NotifyCommit, ReduceTokens, SubmitCommit, NotifyReveal, SoldOut, Complete,
                      RunError, RunStop, world
  <2>5. CASE Failures(p)
    BY <2>5 DEF Failures, ReserveLost, RunFails, RunClosing, Stop, world
  <2> QED
    BY <1>5, <2>1, <2>2, <2>3, <2>4, <2>5 DEF Continue
<1>6. CASE WaitingKasOrders \/ WaitingSteps
  BY <1>1, <1>6 DEF WaitingSteps, WaitingKasOrders, WaitingOrders, UsedTransactions, FreeUtxos,
                    MatchUtxo, CancelWaiting, world
<1>7. CASE UNCHANGED vars
  BY <1>1, <1>7 DEF vars
<1> QED
  BY <1>1, <1>2, <1>3, <1>4, <1>5, <1>6, <1>7 DEF Next

\* The three facts about the invariant.
LEMMA InitUnits == Init => UInv
<1> SUFFICES ASSUME Init PROVE UInv
  OBVIOUS
<1>1. PInv
  BY InitPays
<1>2. TypeOK
  BY IdleJob DEF Init, TypeOK, Lunchpads, LunchpadStatuses, NoLunchpad, Orders, OrderStatuses, NoOrder
<1>3. Books
  BY ConstantsAssumption
  DEF ConstantsAssumption, Init, Books, StatusFollowsUnits, NoLunchpad, NoOrder
<1>4. \A p \in Procs : Asks(p)
  BY DEF Init, Asks, At, Idle
<1> QED
  BY <1>1, <1>2, <1>3, <1>4 DEF UInv

LEMMA NextUnits ==
  ASSUME UInv, [Next]_vars
  PROVE  UInv'
<1>1. PInv'
  BY NextKind DEF UInv
<1>2. /\ paid' \subseteq Payments /\ inbox' \subseteq paid' /\ stock' \in Nat
      /\ sent' \in [OrderIds -> [commit: Nat, reveal: Nat]]
  BY <1>1, WorldTyped DEF PInv, IInv, Shape
<1>3. ASSUME NEW p \in Procs, Moves(p), Stored(p), Asks(p)'
      PROVE  UInv'
  BY <1>1, <1>2, <1>3, OthersAsk DEF UInv, TypeOK, Moves, Stored
<1>4. ASSUME UNCHANGED <<lp, lock, orders, proc>>
      PROVE  UInv'
  BY <1>1, <1>2, <1>4 DEF UInv, TypeOK, Books, StatusFollowsUnits, Asks, At
<1> QED
  BY <1>3, <1>4, Steps, StepKnows

LEMMA UnitsInvariant == Spec => []UInv
  BY InitUnits, NextUnits, PTL DEF Spec

\* Every variable of the lunchpad keeps its type, however many orders, rounds and processes
\* there are, and the units left are never negative, although reservations, cancellations and new
\* rounds (createLunchpadOrderAndLockLunchpadQty, cancelLunchpadOrderAndLockLunchpadQty,
\* startLunchpad) take and give them back in several steps, with crashes and failed calls between.
THEOREM TypesKept == Spec => [](TypeOK /\ lp.avail >= 0)
<1>1. UInv => TypeOK /\ lp.avail >= 0
  BY DEF UInv, Books
<1> QED
  BY UnitsInvariant, <1>1, PTL

\* A lunchpad sells only while it has units left, and one without says so: the status written
\* by a reservation or a cancellation is the one the units ask for, whoever wrote in between
\* (createLunchpadOrderAndLockLunchpadQty and cancelLunchpadOrderAndLockLunchpadQty write both
\* together, in a transaction that conflicts with every other write of the lunchpad since its
\* snapshot).
THEOREM StatusIsRight == Spec => []StatusFollowsUnits
<1>1. UInv => StatusFollowsUnits
  BY DEF UInv, Books
<1> QED
  BY UnitsInvariant, <1>1, PTL

-----------------------------------------------------------------------------
(* The limit of a wallet *)

\* The sum after a step that leaves the units of the orders in it alone, and adds none to it.
LEMMA FewerUnits ==
  ASSUME TypeOK, orders' \in [OrderIds -> Orders], NEW g, g = [o \in OrderIds |-> orders'[o].units],
         NEW S \in SUBSET OrderIds, NEW T \in SUBSET S,
         \A o \in T : orders'[o].units = orders[o].units
  PROVE  /\ SumFunctionOnSet(g, T) \in Nat /\ Units(S) \in Nat
         /\ SumFunctionOnSet(g, T) <= Units(S)
         /\ T = S => SumFunctionOnSet(g, T) = Units(S)
<1> DEFINE f == [o \in OrderIds |-> orders[o].units]
<1>1. /\ IsFiniteSet(S) /\ IsFiniteSet(T)
      /\ \A o \in S : f[o] \in Nat
      /\ \A o \in T : g[o] \in Nat /\ f[o] = g[o]
  BY OrderIdsFinite, FS_Subset DEF TypeOK, Orders
<1> HIDE DEF f
<1>2. SumFunctionOnSet(f, T) = SumFunctionOnSet(g, T)
  BY <1>1, SumSame
<1>3. SumFunctionOnSet(f, T) <= SumFunctionOnSet(f, S)
  BY <1>1, SumSubset
<1>4. SumFunctionOnSet(g, T) \in Nat /\ SumFunctionOnSet(f, S) \in Nat
  BY <1>1, SumNat
<1> QED
  BY <1>2, <1>3, <1>4 DEF f, Units

\* One order leaves the sum.
LEMMA OneFewer ==
  ASSUME TypeOK, orders' \in [OrderIds -> Orders], NEW g, g = [o \in OrderIds |-> orders'[o].units],
         NEW S \in SUBSET OrderIds, NEW z \in S, NEW T \in SUBSET (S \ {z}),
         \A o \in T : orders'[o].units = orders[o].units
  PROVE  SumFunctionOnSet(g, T) + orders[z].units <= Units(S)
<1> DEFINE f == [o \in OrderIds |-> orders[o].units]
<1>1. /\ IsFiniteSet(S) /\ \A o \in S : f[o] \in Int
      /\ f[z] = orders[z].units /\ orders[z].units \in Nat
  BY OrderIdsFinite, FS_Subset DEF TypeOK, Orders
<1>2. PICK R \in SUBSET OrderIds : R = S \ {z}
  OBVIOUS
<1>3. SumFunctionOnSet(g, T) <= Units(R) /\ SumFunctionOnSet(g, T) \in Nat /\ Units(R) \in Nat
  BY <1>2, FewerUnits
<1> HIDE DEF f
<1>4. SumFunctionOnSet(f, S) = f[z] + SumFunctionOnSet(f, R)
  BY <1>1, <1>2, SumRemove
<1>5. Units(S) = f[z] + Units(R)
  BY <1>4 DEF f, Units
<1> QED
  BY <1>1, <1>3, <1>5

\* One order enters the sum.
LEMMA OneMore ==
  ASSUME TypeOK, orders' \in [OrderIds -> Orders], NEW g, g = [o \in OrderIds |-> orders'[o].units],
         NEW S \in SUBSET OrderIds, NEW z \in OrderIds, z \notin S,
         \A o \in S : orders'[o].units = orders[o].units
  PROVE  SumFunctionOnSet(g, S \cup {z}) = Units(S) + orders'[z].units
<1>1. /\ IsFiniteSet(S) /\ \A o \in S \cup {z} : g[o] \in Int
      /\ g[z] = orders'[z].units /\ orders'[z].units \in Nat
  BY OrderIdsFinite, FS_Subset DEF Orders
<1>2. SumFunctionOnSet(g, S \cup {z}) = g[z] + SumFunctionOnSet(g, S)
  BY <1>1, SumAdd
<1>3. SumFunctionOnSet(g, S) = Units(S) /\ Units(S) \in Nat
  BY FewerUnits
<1> QED
  BY <1>1, <1>2, <1>3

\* What a process does that comes to reserve, to give units back, or to count tokens.
LEMMA Arrivals ==
  ASSUME UInv, NEW p \in Procs, Step(p)
  PROVE  /\ proc'[p].pc = "resCommit" => ReserveWallet(p)
         /\ proc'[p].pc = "canUnits" => CancelStatus(p)
         /\ proc'[p].pc = "reduce" => NotifyCommit(p)
<1>0. Shape /\ TypeOK /\ proc \in [Procs -> Jobs] /\ proc[p].back \in {"idle", "wCancel"}
  BY DEF UInv, PInv, IInv, Shape, TypeOK
<1>1. CASE Carefree(p)
  BY <1>1 DEF Carefree, Guarded
<1>2. CASE \/ StartLunchpad(p) \/ StartTokens(p) \/ ReserveLock(p) \/ ReserveWallet(p)
           \/ \E w \in Wallets, u \in MinUnits..MaxUnits : CreateOrder(p, w, u)
  <2>1. CASE StartLunchpad(p)
    BY <1>0, <2>1 DEF StartLunchpad, Idle
  <2>2. CASE StartTokens(p)
    BY <1>0, <2>2, EndLocal DEF StartTokens, Jobs
  <2>3. CASE ReserveLock(p)
    BY <1>0, <2>3, EndLocal DEF ReserveLock, Jobs
  <2>4. CASE ReserveWallet(p)
    BY <1>0, <2>4, EndLocal DEF ReserveWallet, Jobs
  <2>5. ASSUME NEW w \in Wallets, NEW u \in MinUnits..MaxUnits, CreateOrder(p, w, u)
        PROVE  proc'[p].pc = "resLock"
    BY <1>0, <2>5 DEF CreateOrder, Idle
  <2> QED
    BY <1>2, <2>1, <2>2, <2>3, <2>4, <2>5
<1>3. CASE \/ CancelPayment(p) \/ CancelLock(p) \/ CancelStatus(p) \/ CancelUnits(p)
           \/ RunOrder(p) \/ NotifyCommit(p)
  <2>1. CASE CancelUnits(p) \/ CancelStatus(p)
    BY <1>0, <2>1, GotoLocal, ReturnLocal, CloseLocal DEF CancelUnits, CancelStatus
  <2>2. CASE RunOrder(p)
    BY <1>0, <2>2 DEF RunOrder, Jobs
  <2> QED
    BY <1>0, <1>3, <2>1, <2>2, GotoLocal DEF CancelPayment, CancelLock, NotifyCommit
<1>4. CASE p = Cron /\ CancelWaiting
  <2>1. ASSUME NEW o, proc' = [proc EXCEPT ![p].pc = "canLock", ![p].o = o, ![p].list = @ \ {o}]
        PROVE  proc'[p].pc = "canLock"
    BY <1>0, <2>1 DEF Jobs
  <2>2. ASSUME proc' = [proc EXCEPT ![p] = [Idle EXCEPT !.pc = "runRead"]]
        PROVE  proc'[p].pc = "runRead"
    BY <1>0, <2>2 DEF Idle
  <2> QED
    BY <1>4, <2>1, <2>2 DEF CancelWaiting
<1> QED
  BY <1>1, <1>2, <1>3, <1>3, <1>4, RequestsCarefree, OwnerCarefree, OrderCarefree, RunCarefree,
     WaitingCarefree
  DEF Step, Reads, Writes, Edits, Reserves, Requests

\* The holder of the lock keeps what it read of the lunchpad through the steps of the others.
LEMMA HeldKept ==
  ASSUME UInv, NEW p \in Procs, Step(p), NEW q \in Procs, q \in lock', q # p
  PROVE  q \in lock /\ lp' = lp /\ proc'[q] = proc[q]
  BY StepKnows DEF Stored, Onward, Moves

\* A reservation that comes to its commit has not looked at units that were sold since.
WInv ==
    /\ WalletLimit
    /\ \A p \in Procs :
          At(p, "resCommit") /\ p \in lock => Bought(proc[p].w) + proc[p].n <= WalletMax

\* No process stops, or loses its commit, between writing an order and taking its units: the
\* order is written outside of the transaction that takes them.
NoReserveLost == \A p \in Procs : ~ReserveLost(p)

\* What a wallet has bought after a step that sells it nothing.
LEMMA BoughtLess ==
  ASSUME UInv, NEW p \in Procs, UNCHANGED orders \/ Edited(p), NEW w \in Wallets
  PROVE  Bought(w)' <= Bought(w) /\ Bought(w)' \in Nat /\ Bought(w) \in Nat
<1>0. TypeOK /\ orders \in [OrderIds -> Orders]
  BY DEF UInv, TypeOK
<1>1. PICK g : g = [o \in OrderIds |-> orders'[o].units]
  OBVIOUS
<1>2. PICK S : S = {o \in OrderIds : orders[o].wallet = w /\ orders[o].status # "TOKENS_NOT_SENT"}
  OBVIOUS
<1>3. PICK T : T = {o \in OrderIds : orders'[o].wallet = w /\ orders'[o].status # "TOKENS_NOT_SENT"}
  OBVIOUS
<1>4. /\ S \in SUBSET OrderIds /\ T \in SUBSET S /\ orders' \in [OrderIds -> Orders]
      /\ \A o \in T : orders'[o].units = orders[o].units
  BY <1>0, <1>2, <1>3 DEF Edited
<1>5. Bought(w) = Units(S) /\ Bought(w)' = SumFunctionOnSet(g, T)
  BY <1>1, <1>2, <1>3 DEF Bought, Units
<1> QED
  BY <1>0, <1>1, <1>4, <1>5, FewerUnits

\* What wallets have bought after a reservation.
LEMMA BoughtMore ==
  ASSUME UInv, NEW p \in Procs, At(p, "resCommit"), NewOrder(p), NEW w \in Wallets
  PROVE  /\ Bought(w)' = IF w = proc[p].w THEN Bought(w) + proc[p].n ELSE Bought(w)
         /\ Bought(w) \in Nat
<1>0. TypeOK /\ orders \in [OrderIds -> Orders] /\ proc[p].n \in Int
  BY DEF UInv, TypeOK, Jobs
<1>1. PICK o \in OrderIds :
           /\ orders[o] = NoOrder
           /\ orders'[o] \in Orders /\ orders'[o].status = "WAITING_FOR_KAS"
           /\ orders'[o].units = proc[p].n /\ orders'[o].wallet = proc[p].w
           /\ orders' \in [OrderIds -> Orders]
           /\ \A q \in OrderIds : q # o => orders'[q] = orders[q]
  BY ReservationMakes
<1>2. PICK g : g = [q \in OrderIds |-> orders'[q].units]
  OBVIOUS
<1>3. PICK S : S = {q \in OrderIds : orders[q].wallet = w /\ orders[q].status # "TOKENS_NOT_SENT"}
  OBVIOUS
<1>4. PICK T : T = {q \in OrderIds : orders'[q].wallet = w /\ orders'[q].status # "TOKENS_NOT_SENT"}
  OBVIOUS
<1>5. orders[o].wallet # w
  BY <1>1, ConstantsAssumption DEF ConstantsAssumption, NoOrder
<1>6. /\ S \in SUBSET OrderIds /\ o \notin S
      /\ T = IF w = proc[p].w THEN S \cup {o} ELSE S
      /\ \A q \in S : orders'[q].units = orders[q].units
  BY <1>1, <1>3, <1>4, <1>5
<1>7. Bought(w) = Units(S) /\ Bought(w)' = SumFunctionOnSet(g, T)
  BY <1>2, <1>3, <1>4 DEF Bought, Units
<1>8. CASE w = proc[p].w
  <2>1. SumFunctionOnSet(g, S \cup {o}) = Units(S) + orders'[o].units /\ Units(S) \in Nat
    BY <1>0, <1>1, <1>2, <1>6, OneMore, UnitsNat
  <2> QED
    BY <1>1, <1>6, <1>7, <1>8, <2>1
<1>9. CASE w # proc[p].w
  BY <1>0, <1>1, <1>2, <1>6, <1>7, <1>9, FewerUnits
<1> QED
  BY <1>8, <1>9

LEMMA WalletsStep ==
  ASSUME UInv, WInv, NEW p \in Procs, Step(p), ~ReserveLost(p)
  PROVE  WInv'
<1>0. /\ WalletMax \in Int
      /\ Moves(p) /\ \A q \in Procs : proc[q].n \in Int
      /\ \A q \in Procs : At(q, "resCommit") => proc[q].w \in Wallets
  BY ConstantsAssumption, StepKnows DEF ConstantsAssumption, UInv, TypeOK, Jobs, Asks, At
<1>1. CASE ReserveCommit(p)
  <2>0. At(p, "resCommit") /\ NewOrder(p) /\ p \in lock /\ lock' = {}
    BY <1>1, SoleHolder DEF ReserveCommit, Commit
  <2>1. Bought(proc[p].w) + proc[p].n <= WalletMax /\ proc[p].w \in Wallets
    BY <1>0, <2>0 DEF WInv
  <2>2. ASSUME NEW w \in Wallets
        PROVE  Bought(w)' <= WalletMax
    BY <1>0, <2>0, <2>1, BoughtMore DEF WInv, WalletLimit
  <2> QED
    BY <2>0, <2>2 DEF WInv, WalletLimit
<1>2. CASE UNCHANGED orders \/ Edited(p)
  <2>1. ASSUME NEW w \in Wallets
        PROVE  Bought(w)' <= Bought(w) /\ Bought(w)' \in Nat /\ Bought(w) \in Nat
    BY <1>2, BoughtLess
  <2>2. WalletLimit'
    BY <1>0, <2>1 DEF WInv, WalletLimit
  <2>3. ASSUME NEW q \in Procs, At(q, "resCommit")', q \in lock', q # p
        PROVE  (Bought(proc[q].w) + proc[q].n)' <= WalletMax
    <3>1. q \in lock /\ proc'[q] = proc[q]
      BY <2>3, HeldKept
    <3>2. PICK w \in Wallets : w = proc[q].w
      BY <1>0, <2>3, <3>1 DEF At
    <3>3. Bought(w) + proc[q].n <= WalletMax
      BY <2>3, <3>1, <3>2 DEF WInv, At
    <3>4. Bought(w)' + proc[q].n <= WalletMax
      BY <1>0, <2>1, <3>3
    <3> QED
      BY <3>1, <3>2, <3>4 DEF Bought
  <2>4. ASSUME At(p, "resCommit")', p \in lock'
        PROVE  (Bought(proc[p].w) + proc[p].n)' <= WalletMax
    <3>1. ReserveWallet(p)
      BY <2>4, Arrivals DEF At
    <3>2. /\ At(p, "resWallet") /\ WalletMax > Bought(proc[p].w) /\ Granted(p) # 0 /\ UNCHANGED orders
          /\ proc' = [proc EXCEPT ![p].pc = "resCommit", ![p].n = Granted(p)]
      <4>1. proc' = proc'
        OBVIOUS
      <4> QED
        BY <2>4, <3>1, JobEnd DEF ReserveWallet, UInv, At
    <3>3. Granted(p) \in Nat /\ Granted(p) <= WalletMax - Bought(proc[p].w) /\ Bought(proc[p].w) \in Nat
      BY <3>2, GrantedIs
    <3>4. proc'[p].w = proc[p].w /\ proc'[p].n = Granted(p)
      BY <3>2 DEF UInv, TypeOK, Jobs
    <3>5. PICK w : w = proc[p].w
      OBVIOUS
    <3>6. Bought(w)' = Bought(w)
      BY <3>2 DEF Bought, Units
    <3>7. Bought(w)' + Granted(p) <= WalletMax
      BY <1>0, <3>3, <3>5, <3>6
    <3> QED
      BY <3>4, <3>5, <3>7 DEF Bought
  <2> QED
    BY <2>2, <2>3, <2>4 DEF WInv
<1>3. Reads(p) \/ Writes(p) => UNCHANGED orders
  BY DEF Reads, Requests, StartLunchpad, StopLunchpad, RetrieveFunds, CreateOrder, CancelOrder,
         VerifyOrder, StartProcessing, StartTokens, OpenOrders, RetrieveOpenOrders, RetrieveMove,
         ReserveLock, ReserveWallet, VerifyLunchpad, VerifyPayment,
         CancelLunchpad, CancelPayment, CancelLock, RunRead, RunTokens, RunFetch, AwaitReceipt,
         SubmitCommit, SubmitReveal, RunFails, RunClosing, Stop,
         WaitingKasOrders, WaitingOrders, UsedTransactions, FreeUtxos, CancelWaiting,
         Writes, StartStatus, StopStatus, Inactivate, CancelUnits, RunStart, ReduceTokens,
         SoldOut, RunStop
<1> QED
  BY <1>1, <1>2, <1>3, EditsStores DEF Step, Reserves

LEMMA WalletsInitially == ASSUME Init PROVE WInv
<1>1. ASSUME NEW w \in Wallets
      PROVE  Bought(w) = 0
  <2>1. PICK f : f = [o \in OrderIds |-> orders[o].units]
    OBVIOUS
  <2>2. {o \in OrderIds : orders[o].wallet = w /\ orders[o].status # "TOKENS_NOT_SENT"} = {}
    BY ConstantsAssumption DEF ConstantsAssumption, Init, NoOrder
  <2>3. Bought(w) = SumFunctionOnSet(f, {})
    BY <2>1, <2>2 DEF Bought, Units
  <2> QED
    BY <2>3, SumEmpty
<1> QED
  BY <1>1, ConstantsAssumption DEF ConstantsAssumption, WInv, WalletLimit, Init, At, Idle

LEMMA WalletsNext ==
  ASSUME UInv, WInv, [Next]_vars, [NoReserveLost]_vars
  PROVE  WInv'
<1>1. ASSUME UNCHANGED <<lp, lock, orders, proc>>
      PROVE  WInv'
  BY <1>1 DEF WInv, WalletLimit, Bought, Units, At
<1>2. UNCHANGED vars => UNCHANGED <<lp, lock, orders, proc>>
  BY DEF vars, book
<1> QED
  BY <1>1, <1>2, Steps, WalletsStep DEF NoReserveLost

\* No wallet buys more than maxUnitsPerWallet, however many of its reservations run at once, in
\* whatever order, through crashes and failed calls of everything else, as long as none of them
\* is cut off between writing its order and taking the units for it
\* (createLunchpadOrderAndLockLunchpadQty).
\* Without that condition the property is false: the order is then left beside the transaction
\* that was to take its units, and a reservation that began before does not conflict with it.
THEOREM WalletsLimited == Spec /\ [][NoReserveLost]_vars => []WalletLimit
<1>1. WInv => WalletLimit
  BY DEF WInv
<1> QED
  BY UnitsInvariant, WalletsInitially, WalletsNext, <1>1, PTL DEF Spec

\* Where nothing fails no reservation is cut off, for any number of rounds.
THEOREM WalletsLimitedFaultless ==
  ASSUME ~Faults
  PROVE  Spec => []WalletLimit
<1>1. NoReserveLost
  BY DEF NoReserveLost, ReserveLost
<1> QED
  BY <1>1, WalletsLimited, PTL

-----------------------------------------------------------------------------
(* No unit of a round is sold twice *)

Sold == OfRound(lp.round, OrderStatuses \ {"none", "TOKENS_NOT_SENT"})

\* No order that may still be cancelled or processed is of a round that is over.
NoneLeftBehind ==
    \A o \in OrderIds :
        orders[o].status \in {"WAITING_FOR_KAS"} \cup Ready => orders[o].round = lp.round

\* Nor are the units of a cancelled order sold before they are given back.
SInv ==
    lp.total > 0 =>
        /\ lp.avail + Units(Sold) <= lp.total
        /\ \A p \in Procs :
              At(p, "canUnits") /\ p \in lock =>
                  lp.avail + Units(Sold) + orders[proc[p].o].units <= lp.total

\* What was sold after a step that sells nothing, in the same round.
LEMMA SoldLess ==
  ASSUME UInv, NEW p \in Procs, UNCHANGED orders \/ Edited(p), lp'.round = lp.round
  PROVE  /\ Units(Sold)' <= Units(Sold) /\ Units(Sold)' \in Nat /\ Units(Sold) \in Nat
         /\ UNCHANGED orders => Units(Sold)' = Units(Sold)
         /\ \A z \in Sold : orders'[z].status = "TOKENS_NOT_SENT" =>
               Units(Sold)' + orders[z].units <= Units(Sold) /\ orders[z].units \in Nat
<1>0. TypeOK /\ orders \in [OrderIds -> Orders]
  BY DEF UInv, TypeOK
<1>1. PICK g : g = [o \in OrderIds |-> orders'[o].units]
  OBVIOUS
<1>2. PICK S : S = Sold
  OBVIOUS
<1>3. PICK T : T = Sold'
  OBVIOUS
<1>4. /\ S \in SUBSET OrderIds /\ T \in SUBSET S /\ orders' \in [OrderIds -> Orders]
      /\ UNCHANGED orders => T = S
      /\ \A o \in T : orders'[o].units = orders[o].units /\ orders'[o].status # "TOKENS_NOT_SENT"
  BY <1>0, <1>2, <1>3 DEF Edited, Sold, OfRound, Orders
<1>5. Units(Sold) = Units(S) /\ Units(Sold)' = SumFunctionOnSet(g, T)
  BY <1>1, <1>2, <1>3 DEF Units
<1>6. /\ SumFunctionOnSet(g, T) \in Nat /\ Units(S) \in Nat
      /\ SumFunctionOnSet(g, T) <= Units(S)
      /\ T = S => SumFunctionOnSet(g, T) = Units(S)
  BY <1>0, <1>1, <1>4, FewerUnits
<1>7. ASSUME NEW z \in S, orders'[z].status = "TOKENS_NOT_SENT"
      PROVE  SumFunctionOnSet(g, T) + orders[z].units <= Units(S) /\ orders[z].units \in Nat
  <2>1. T \in SUBSET (S \ {z}) /\ orders[z].units \in Nat
    BY <1>0, <1>4, <1>7 DEF Orders
  <2> QED
    BY <1>0, <1>1, <1>4, <2>1, OneFewer
<1> QED
  BY <1>2, <1>4, <1>5, <1>6, <1>7

\* What was sold after a reservation.
LEMMA SoldMore ==
  ASSUME UInv, NEW p \in Procs, At(p, "resCommit"), NewOrder(p), lp'.round = lp.round
  PROVE  Units(Sold)' = Units(Sold) + proc[p].n /\ Units(Sold) \in Nat
<1>0. TypeOK /\ orders \in [OrderIds -> Orders] /\ lp.round > 0
  BY DEF UInv, TypeOK, Asks, At
<1>1. PICK o \in OrderIds :
           /\ orders[o] = NoOrder
           /\ orders'[o] \in Orders /\ orders'[o].status = "WAITING_FOR_KAS"
           /\ orders'[o].units = proc[p].n /\ orders'[o].wallet = proc[p].w
           /\ orders'[o].round = lp.round
           /\ orders' \in [OrderIds -> Orders]
           /\ \A q \in OrderIds : q # o => orders'[q] = orders[q]
  BY ReservationMakes
<1>2. PICK g : g = [q \in OrderIds |-> orders'[q].units]
  OBVIOUS
<1>3. PICK S : S = Sold
  OBVIOUS
<1>4. orders[o].status = "none"
  BY <1>1 DEF NoOrder
<1>5. /\ S \in SUBSET OrderIds /\ o \notin S /\ Sold' = S \cup {o}
      /\ \A q \in S : orders'[q].units = orders[q].units
  BY <1>1, <1>3, <1>4 DEF Sold, OfRound, OrderStatuses
<1>6. Units(Sold) = Units(S) /\ Units(Sold)' = SumFunctionOnSet(g, S \cup {o})
  BY <1>2, <1>3, <1>5 DEF Units
<1> QED
  BY <1>0, <1>1, <1>2, <1>5, <1>6, OneMore, UnitsNat

\* What a write does to the units of the round: what was not sold is left, and no more.
LEMMA WrittenUnits ==
  ASSUME UInv, NEW p \in Procs, Writes(p)
  PROVE  \/ lp'.total = 0 /\ lock' = {}
         \/ p = Owner /\ lp'.round = lp.round + 1 /\ lp'.avail = lp'.total /\ lock' = {}
         \/ /\ lp'.round = lp.round /\ lp'.total = lp.total /\ lp'.avail = lp.avail
            /\ lock' = {} \/ UNCHANGED lock
         \/ /\ At(p, "canUnits") /\ p \in lock /\ lock' = {}
            /\ lp'.round = lp.round /\ lp'.total = lp.total
            /\ lp'.avail = lp.avail + orders[proc[p].o].units
<1>0. lp \in Lunchpads
  BY DEF UInv, TypeOK
<1>1. CASE StartStatus(p)
  <2>1. proc[p].round = lp.round /\ p = Owner
    BY <1>1 DEF UInv, Asks, StartStatus, At
  <2> QED
    BY ZenonT(60), <1>0, <1>1, <2>1 DEF StartStatus, Write, book, Lunchpads
<1>2. CASE CancelUnits(p)
  BY <1>0, <1>2, SoleHolder DEF CancelUnits, Commit, Lunchpads
<1>3. CASE Inactivate(p)
  BY <1>0, <1>3 DEF Inactivate, Write, book, Lunchpads
<1>4. CASE StopStatus(p) \/ RunStart(p) \/ ReduceTokens(p) \/ SoldOut(p) \/ RunStop(p)
  BY <1>0, <1>4 DEF StopStatus, RunStart, ReduceTokens, SoldOut, RunStop, Write, book, Lunchpads
<1> QED
  BY <1>1, <1>2, <1>3, <1>4 DEF Writes

LEMMA ReadsKeep ==
  ASSUME UInv, NEW p \in Procs, Reads(p)
  PROVE  UNCHANGED <<lp, orders>>
  BY DEF Reads, Requests, StartLunchpad, StopLunchpad, RetrieveFunds, CreateOrder, CancelOrder,
         VerifyOrder, StartProcessing, StartTokens, OpenOrders, RetrieveOpenOrders, RetrieveMove,
         ReserveLock, ReserveWallet, VerifyLunchpad, VerifyPayment,
         CancelLunchpad, CancelPayment, CancelLock, RunRead, RunTokens, RunFetch, AwaitReceipt,
         SubmitCommit, SubmitReveal, RunFails, RunClosing, Stop, book, Begin, Abort,
         WaitingKasOrders, WaitingOrders, UsedTransactions, FreeUtxos, CancelWaiting

LEMMA EditsKeep ==
  ASSUME UInv, NEW p \in Procs, Edits(p)
  PROVE  UNCHANGED lp /\ (UNCHANGED orders \/ Edited(p))
<1>1. UNCHANGED lp
  BY DEF Edits, VerifyRecord, VerifyStatus, CancelStatus, RunOrder, NotifyCommit, NotifyReveal,
         Complete, RunError, MatchUtxo, book, Abort
<1> QED
  BY <1>1, EditsStores

\* An order cancelled is one of the units sold so far.
LEMMA CancelledWasSold ==
  ASSUME UInv, NoneLeftBehind, NEW p \in Procs, CancelStatus(p), proc'[p].pc = "canUnits"
  PROVE  /\ proc[p].o \in Sold /\ proc'[p].o = proc[p].o
         /\ orders'[proc[p].o].status = "TOKENS_NOT_SENT"
         /\ orders'[proc[p].o].units = orders[proc[p].o].units
<1>0. /\ Shape /\ orders \in [OrderIds -> Orders] /\ proc[p].back \in {"idle", "wCancel"}
      /\ proc[p].o \in OrderIds
  BY DEF UInv, PInv, IInv, Shape, TypeOK, CancelStatus, Asks, At
<1>1. ~Return(p)
  BY <1>0, ReturnLocal
<1>2. OrderTransition(proc[p].o, "WAITING_FOR_KAS", "TOKENS_NOT_SENT") /\ Goto(p, "canUnits")
  BY <1>1 DEF CancelStatus
<1> QED
  BY <1>0, <1>2, GotoLocal DEF OrderTransition, NoneLeftBehind, Sold, OfRound, OrderStatuses, Orders

LEMMA SoldStep ==
  ASSUME UInv, SInv, NoneLeftBehind, NEW p \in Procs, Step(p), ~ReserveLost(p)
  PROVE  SInv'
<1>0. /\ orders \in [OrderIds -> Orders] /\ lp.avail \in Int /\ lp.total \in Nat
      /\ \A q \in Procs : proc[q].n \in Int
      /\ \A q \in Procs : At(q, "canUnits") =>
            proc[q].o \in OrderIds /\ orders[proc[q].o].status = "TOKENS_NOT_SENT"
      /\ \A o \in OrderIds : orders[o].units \in Nat
  BY DEF UInv, TypeOK, Jobs, Lunchpads, Orders, Asks, At
<1>1. CASE ReserveCommit(p)
  <2>1. /\ At(p, "resCommit") /\ NewOrder(p) /\ lock' = {} /\ lp'.round = lp.round
        /\ lp'.total = lp.total /\ lp'.avail = lp.avail - proc[p].n
    BY <1>1, SoleHolder DEF ReserveCommit, Commit, UInv, TypeOK, Lunchpads
  <2>2. Units(Sold)' = Units(Sold) + proc[p].n /\ Units(Sold) \in Nat
    BY <2>1, SoldMore
  <2> QED
    BY <1>0, <2>1, <2>2 DEF SInv
\* q, at canUnits after the step, was there before, and knows the same.
<1>2. ASSUME NEW q \in Procs, At(q, "canUnits")', q \in lock', q # p
      PROVE  /\ At(q, "canUnits") /\ q \in lock /\ lp' = lp /\ proc'[q] = proc[q]
             /\ proc[q].o \in OrderIds /\ orders[proc[q].o].status = "TOKENS_NOT_SENT"
  BY <1>0, <1>2, HeldKept DEF At
<1>3. CASE lp' = lp /\ (UNCHANGED orders \/ Edited(p))
  <2>1. /\ Units(Sold)' <= Units(Sold) /\ Units(Sold)' \in Nat /\ Units(Sold) \in Nat
        /\ \A z \in Sold : orders'[z].status = "TOKENS_NOT_SENT" =>
               Units(Sold)' + orders[z].units <= Units(Sold) /\ orders[z].units \in Nat
    BY <1>3, SoldLess
  <2>2. SUFFICES ASSUME lp.total > 0
                 PROVE  /\ lp.avail + Units(Sold)' <= lp.total
                        /\ \A q \in Procs : At(q, "canUnits")' /\ q \in lock' =>
                             lp.avail + Units(Sold)' + orders'[proc'[q].o].units <= lp.total
    BY <1>3 DEF SInv
  <2>3. lp.avail + Units(Sold) <= lp.total
    BY <2>2 DEF SInv
  <2>4. ASSUME NEW q \in Procs, At(q, "canUnits")', q \in lock', q # p
        PROVE  lp.avail + Units(Sold)' + orders'[proc'[q].o].units <= lp.total
    <3>1. lp.avail + Units(Sold) + orders[proc[q].o].units <= lp.total
      BY <1>2, <2>2, <2>4 DEF SInv
    <3>2. orders'[proc'[q].o].units = orders[proc[q].o].units /\ orders[proc[q].o].units \in Nat
      BY <1>0, <1>2, <1>3, <2>4 DEF Edited
    <3> QED
      BY <1>0, <2>1, <3>1, <3>2
  <2>5. ASSUME At(p, "canUnits")', p \in lock'
        PROVE  lp.avail + Units(Sold)' + orders'[proc'[p].o].units <= lp.total
    <3>1. CancelStatus(p)
      BY <2>5, Arrivals DEF At
    <3>2. /\ proc[p].o \in Sold /\ proc'[p].o = proc[p].o
          /\ orders'[proc[p].o].status = "TOKENS_NOT_SENT"
          /\ orders'[proc[p].o].units = orders[proc[p].o].units
      BY <2>5, <3>1, CancelledWasSold DEF At
    <3>3. Units(Sold)' + orders[proc[p].o].units <= Units(Sold) /\ orders[proc[p].o].units \in Nat
      BY <2>1, <3>2
    <3> QED
      BY <1>0, <2>1, <2>3, <3>2, <3>3
  <2> QED
    BY <1>0, <2>1, <2>3, <2>4, <2>5
<1>4. CASE Writes(p)
  <2>0. UNCHANGED orders
    BY <1>4 DEF Writes, StartStatus, StopStatus, Inactivate, CancelUnits, RunStart, ReduceTokens,
                SoldOut, RunStop
  <2>1. CASE lp'.total = 0
    BY <2>1 DEF SInv
  <2>2. CASE lp'.round = lp.round + 1 /\ lp'.avail = lp'.total /\ lock' = {}
    <3>1. Sold' = {}
      <4>1. ASSUME NEW o \in OrderIds, orders[o].status # "none"
            PROVE  orders[o].round # lp.round + 1
        BY <4>1 DEF UInv, Books, TypeOK, Lunchpads
      <4> QED
        BY <2>0, <2>2, <4>1 DEF Sold, OfRound
    <3>2. PICK g : g = [o \in OrderIds |-> orders'[o].units]
      OBVIOUS
    <3>3. Units(Sold)' = SumFunctionOnSet(g, {})
      BY <3>1, <3>2 DEF Units
    <3>4. lp'.total \in Int
      BY StepKnows DEF Stored, Lunchpads
    <3> QED
      BY <2>2, <3>3, <3>4, SumEmpty DEF SInv
  <2>3. ASSUME lp'.round = lp.round
        PROVE  Units(Sold)' = Units(Sold) /\ Units(Sold) \in Nat
    BY <2>0, <2>3, SoldLess
  <2>4. CASE /\ lp'.round = lp.round /\ lp'.total = lp.total /\ lp'.avail = lp.avail
             /\ lock' = {} \/ UNCHANGED lock
    <3>1. p \in lock' => ~At(p, "canUnits")'
      BY <1>4, Arrivals DEF At, CancelStatus, Writes, StartStatus, StopStatus, Inactivate,
         CancelUnits, RunStart, ReduceTokens, SoldOut, RunStop
    <3>2. ASSUME NEW q \in Procs, At(q, "canUnits")', q \in lock'
          PROVE  /\ At(q, "canUnits") /\ q \in lock
                 /\ orders'[proc'[q].o].units = orders[proc[q].o].units
      BY <1>2, <2>0, <3>1, <3>2
    <3> QED
      BY <2>3, <2>4, <3>2 DEF SInv
  <2>5. CASE /\ At(p, "canUnits") /\ p \in lock /\ lock' = {}
             /\ lp'.round = lp.round /\ lp'.total = lp.total
             /\ lp'.avail = lp.avail + orders[proc[p].o].units
    <3>1. lp.total > 0 => lp.avail + Units(Sold) + orders[proc[p].o].units <= lp.total
      BY <2>5 DEF SInv
    <3>2. orders[proc[p].o].units \in Nat
      BY <1>0, <2>5
    <3> QED
      BY <1>0, <2>3, <2>5, <3>1, <3>2 DEF SInv
  <2> QED
    BY <1>4, <2>1, <2>2, <2>4, <2>5, WrittenUnits
<1> QED
  BY <1>1, <1>3, <1>4, ReadsKeep, EditsKeep DEF Step, Reserves

LEMMA SoldInitially == ASSUME Init PROVE SInv
  BY DEF Init, SInv, NoLunchpad

LEMMA SoldNext ==
  ASSUME UInv, SInv, NoneLeftBehind, [Next]_vars, [NoReserveLost]_vars
  PROVE  SInv'
<1>1. ASSUME UNCHANGED <<lp, lock, orders, proc>>
      PROVE  SInv'
  BY <1>1 DEF SInv, Sold, OfRound, Units, At
<1>2. UNCHANGED vars => UNCHANGED <<lp, lock, orders, proc>>
  BY DEF vars, book
<1> QED
  BY <1>1, <1>2, Steps, SoldStep DEF NoReserveLost

\* The units left and those of the round's orders are never more than the round began with, as
\* long as no reservation is cut off and no open or ready order of an earlier round is left when
\* a round begins: a cancelled order gives its units back once, and only after it gave up its
\* claim (cancelLunchpadOrderAndLockLunchpadQty).  An order left behind that is
\* cancelled later would give its units back to a round that never sold them.
THEOREM NeverOversold ==
    Spec /\ [][NoReserveLost]_vars /\ []NoneLeftBehind => []NoOversell
<1>1. UInv /\ SInv => NoOversell
  BY DEF UInv, Books, SInv, NoOversell, Sold
<1> QED
  BY UnitsInvariant, SoldInitially, SoldNext, <1>1, PTL DEF Spec

\* In one round no order can be of another.
LEMMA OneRound ==
  ASSUME MaxRounds <= 1
  PROVE  UInv => NoneLeftBehind
<1> SUFFICES ASSUME UInv, NEW o \in OrderIds, orders[o].status # "none"
             PROVE  orders[o].round = lp.round
  BY DEF NoneLeftBehind, Ready
<1>1. lp.round \in Nat /\ lp.round <= 1 /\ orders[o].round \in 1..lp.round
  BY ConstantsAssumption DEF ConstantsAssumption, UInv, TypeOK, Lunchpads, Books
<1> QED
  BY <1>1

\* A lunchpad of one round, where nothing fails, oversells in no interleaving of its requests.
THEOREM NeverOversoldInOneRound ==
  ASSUME ~Faults, MaxRounds <= 1
  PROVE  Spec => []NoOversell
<1>1. NoReserveLost
  BY DEF NoReserveLost, ReserveLost
<1> QED
  BY <1>1, OneRound, UnitsInvariant, NeverOversold, PTL

-----------------------------------------------------------------------------
(* The tokens of an order are counted once *)

Counted ==
    {o \in OfRound(lp.round, OrderStatuses) :
        /\ "commit" \in orders[o].txs
        /\ \A p \in Procs : ~(At(p, "reduce") /\ proc[p].o = o)}

\* No process stops, and no call fails, between recording a commit and counting its tokens.
NoCountLost == \A p \in Procs : At(p, "reduce") => ~RunFails(p) /\ ~Stop(p)

\* Whoever is about to count the tokens of an order counts them, or fails.
LEMMA Reducing ==
  ASSUME UInv, NEW p \in Procs, Step(p), At(p, "reduce")
  PROVE  ReduceTokens(p) \/ RunFails(p) \/ Stop(p)
<1> USE DEF At
<1>1. ~(Requests(p) \/ StartProcessing(p))
  BY DEF Requests, StartLunchpad, StopLunchpad, RetrieveFunds, CreateOrder, CancelOrder, VerifyOrder,
         StartProcessing
<1>2. ~OwnerSteps(p)
  BY DEF OwnerSteps, StartTokens, StartStatus, StopStatus, OpenOrders, Inactivate,
         RetrieveOpenOrders, RetrieveMove
<1>3. ~(OrderSteps(p) \/ ReserveLost(p))
  BY DEF OrderSteps, ReserveLost, ReserveLock, ReserveWallet, ReserveCommit,
         VerifyLunchpad, VerifyPayment, VerifyRecord, VerifyStatus, CancelLunchpad, CancelPayment,
         CancelLock, CancelStatus, CancelUnits
<1>4. RunSteps(p) \/ RunClosing(p) => ReduceTokens(p)
  BY DEF RunSteps, RunRead, RunTokens, RunStart, RunFetch, RunOrder, AwaitReceipt, NotifyCommit,
         SubmitCommit, NotifyReveal, SubmitReveal, SoldOut, Complete, RunError, RunStop, RunClosing
<1>5. ~(p = Cron /\ (WaitingKasOrders \/ WaitingSteps))
  BY DEF WaitingKasOrders, WaitingSteps, WaitingOrders, UsedTransactions, FreeUtxos, MatchUtxo,
         CancelWaiting
<1> QED
  BY <1>1, <1>2, <1>3, <1>4, <1>5
  DEF Step, Reads, Writes, Edits, Reserves, OwnerSteps, OrderSteps, RunSteps, WaitingSteps

\* The orders being counted stay the same.
LEMMA ReducingKept ==
  ASSUME UInv, NEW p \in Procs, Step(p), ~ReduceTokens(p), ~NotifyCommit(p),
         At(p, "reduce") => ~RunFails(p) /\ ~Stop(p), NEW q \in Procs
  PROVE  /\ At(q, "reduce")' <=> At(q, "reduce")
         /\ At(q, "reduce") => proc'[q].o = proc[q].o
<1>1. CASE q = p
  BY <1>1, Reducing, Arrivals DEF At
<1>2. CASE q # p
  BY <1>2, StepKnows DEF Moves, At
<1> QED
  BY <1>1, <1>2

\* A commit is recorded by NotifyCommit only, and never forgotten.
LEMMA CommitsKept ==
  ASSUME UInv, NEW p \in Procs, Step(p), ~NotifyCommit(p), NEW o \in OrderIds
  PROVE  "commit" \in orders'[o].txs <=> "commit" \in orders[o].txs
<1>0. IInv /\ Shape /\ orders \in [OrderIds -> Orders]
  BY DEF UInv, PInv, IInv, TypeOK
<1>1. CASE UNCHANGED orders \/ OrdersKept
  BY <1>1 DEF OrdersKept
<1>2. CASE \/ VerifyRecord(p) \/ VerifyStatus(p) \/ CancelStatus(p) \/ ReserveCommit(p)
           \/ ReserveLost(p) \/ (p = Cron /\ MatchUtxo)
  BY <1>0, <1>1, <1>2, OrderQuiet, FailureQuiet, WaitingQuiet DEF OrderSteps, WaitingSteps, Quiet
<1>3. CASE RunOrder(p) \/ Complete(p) \/ RunError(p)
  BY <1>0, <1>1, <1>3, TransitionKept, RunWorking DEF RunOrder, Working
<1>4. CASE NotifyReveal(p)
  <2>1. proc[p].o \in OrderIds /\ "commit" \in orders[proc[p].o].txs
    BY <1>0, <1>4 DEF IInv, Stages, Stage, Sends, NotifyReveal, At
  <2> QED
    BY <1>0, <1>4, <2>1 DEF NotifyReveal, Orders
<1>5. Writes(p) => UNCHANGED orders
  BY DEF Writes, StartStatus, StopStatus, Inactivate, CancelUnits, RunStart, ReduceTokens,
         SoldOut, RunStop
<1> QED
  BY <1>1, <1>2, <1>3, <1>4, <1>5, ReadsKeep DEF Step, Edits, Reserves

\* An order keeps its round and its units once it is created.
LEMMA CreatedKept ==
  ASSUME UInv, NEW p \in Procs, Step(p), NEW o \in OrderIds, orders[o].status # "none"
  PROVE  /\ orders'[o].round = orders[o].round /\ orders'[o].units = orders[o].units
<1>1. CASE Reserves(p)
  <2>1. orders[o] # NoOrder /\ At(p, "resCommit") /\ NewOrder(p)
    BY <1>1 DEF NoOrder, Reserves, ReserveCommit, ReserveLost
  <2> QED
    BY <2>1, ReservationMakes
<1>2. Writes(p) => UNCHANGED orders
  BY DEF Writes, StartStatus, StopStatus, Inactivate, CancelUnits, RunStart, ReduceTokens,
         SoldOut, RunStop
<1> QED
  BY <1>1, <1>2, ReadsKeep, EditsKeep DEF Step, Edited

\* The count stays when neither the lunchpad's numbers nor the orders counted change.
LEMMA CountSame ==
  ASSUME UInv, CountedOnce, orders' \in [OrderIds -> Orders],
         lp'.total = lp.total, lp'.tokens = lp.tokens, Counted' = Counted,
         \A o \in Counted : orders'[o].units = orders[o].units
  PROVE  CountedOnce'
<1>0. TypeOK
  BY DEF UInv
<1>1. PICK g : g = [o \in OrderIds |-> orders'[o].units]
  OBVIOUS
<1>2. PICK S : S = Counted
  OBVIOUS
<1>3. S \in SUBSET OrderIds /\ S \in SUBSET S
  BY <1>2 DEF Counted, OfRound
<1>4. SumFunctionOnSet(g, S) = Units(S)
  BY <1>0, <1>1, <1>2, <1>3, FewerUnits
<1>5. Units(Counted) = Units(S) /\ Units(Counted)' = SumFunctionOnSet(g, S)
  BY <1>1, <1>2 DEF Units
<1>6. lp.total > 0 => lp.tokens = lp.total - Units(Counted)
  BY DEF CountedOnce, Counted
<1>7. lp'.total > 0 => lp'.tokens = lp'.total - Units(Counted)'
  BY <1>4, <1>5, <1>6
<1> QED
  BY <1>7 DEF CountedOnce, Counted

\* The tokens of an order are counted.
LEMMA CountReduced ==
  ASSUME UInv, CountedOnce, NoneLeftBehind, NEW p \in Procs, Step(p), ReduceTokens(p)
  PROVE  CountedOnce'
<1> DEFINE z == proc[p].o
<1>0. /\ TypeOK /\ orders' = orders /\ At(p, "reduce") /\ Running(p)
      /\ orders \in [OrderIds -> Orders] /\ lp.tokens \in Int /\ lp.total \in Int
  BY DEF UInv, TypeOK, ReduceTokens, Lunchpads, At, Running
<1>1. /\ z \in OrderIds /\ "commit" \in orders[z].txs /\ orders[z].status = "PROCESSING"
      /\ orders[z].round = lp.round /\ orders[z].units \in Nat
  BY <1>0 DEF UInv, PInv, IInv, Stages, Stage, Sends, Asks, At, NoneLeftBehind, Ready, Orders
<1>2. /\ lp'.tokens = lp.tokens - orders[z].units /\ lp'.total = lp.total /\ lp'.round = lp.round
  BY DEF ReduceTokens, Write, UInv, TypeOK, Lunchpads
<1>3. \A q \in Procs : At(q, "reduce") => q = p
  BY <1>0 DEF UInv, PInv, IInv, RunExclusion, Running, At
<1>4. \A q \in Procs : ~At(q, "reduce")'
  BY <1>3, StepKnows, Arrivals, <1>0 DEF Moves, At, NotifyCommit
<1>5. PICK S : S = Counted
  OBVIOUS
<1>6. S \in SUBSET OrderIds /\ z \notin S
  BY <1>0, <1>5 DEF Counted, OfRound
<1>7. Counted' = S \cup {z}
  BY <1>0, <1>1, <1>2, <1>3, <1>4, <1>5 DEF Counted, OfRound, Orders
<1>8. PICK g : g = [o \in OrderIds |-> orders'[o].units]
  OBVIOUS
<1>9. SumFunctionOnSet(g, S \cup {z}) = Units(S) + orders[z].units /\ Units(S) \in Nat
  <2> HIDE DEF z
  <2> QED
    BY <1>0, <1>1, <1>6, <1>8, OneMore, UnitsNat
<1>10. Units(Counted) = Units(S) /\ Units(Counted)' = SumFunctionOnSet(g, S \cup {z})
  BY <1>5, <1>7, <1>8 DEF Units
<1>11. lp.total > 0 => lp.tokens = lp.total - Units(Counted)
  BY DEF CountedOnce, Counted
<1>12. lp'.total > 0 => lp'.tokens = lp'.total - Units(Counted)'
  BY <1>0, <1>1, <1>2, <1>9, <1>10, <1>11
<1> QED
  BY <1>12 DEF CountedOnce, Counted

\* The commit of an order is recorded, which is counted next.
LEMMA CountNotified ==
  ASSUME UInv, CountedOnce, NEW p \in Procs, Step(p), NotifyCommit(p)
  PROVE  CountedOnce'
<1> DEFINE z == proc[p].o
<1>0. /\ TypeOK /\ At(p, "notifyCommit") /\ Running(p) /\ Shape
      /\ orders \in [OrderIds -> Orders] /\ lp' = lp
      /\ orders' = [orders EXCEPT ![z].txs = {"commit"}]
  BY DEF UInv, PInv, IInv, TypeOK, NotifyCommit, At, Running, book
<1>1. z \in OrderIds /\ "commit" \notin orders[z].txs
  BY <1>0 DEF UInv, PInv, IInv, Stages, Stage, Sends, At
<1>2. At(p, "reduce")' /\ proc'[p].o = z
  BY <1>0, <1>1, GotoLocal DEF NotifyCommit, At
<1>3. \A q \in Procs : ~At(q, "reduce")
  BY <1>0 DEF UInv, PInv, IInv, RunExclusion, Running, At
<1>4. \A q \in Procs : At(q, "reduce")' => q = p
  BY <1>3, StepKnows DEF Moves, At
<1>5. /\ \A o \in OrderIds \ {z} : orders'[o] = orders[o]
      /\ orders'[z].units = orders[z].units
  BY <1>0, <1>1 DEF Orders
<1>6. orders' \in [OrderIds -> Orders]
  BY StepKnows DEF Stored
<1>7. Counted' = Counted
  <2> HIDE DEF z
  <2>1. \A o \in OrderIds : o # z =>
          /\ orders'[o] = orders[o] /\ \A q \in Procs : ~(At(q, "reduce")' /\ proc'[q].o = o)
    BY <1>2, <1>4, <1>5
  <2>2. z \notin Counted /\ z \notin Counted'
    BY <1>1, <1>2 DEF Counted
  <2> QED
    BY <1>0, <1>3, <2>1, <2>2 DEF Counted, OfRound
<1>8. \A o \in Counted : orders'[o].units = orders[o].units
  BY <1>5 DEF Counted, OfRound
<1> QED
  BY <1>0, <1>6, <1>7, <1>8, CountSame

LEMMA CountStep ==
  ASSUME UInv, CountedOnce, NoneLeftBehind, NEW p \in Procs, Step(p),
         At(p, "reduce") => ~RunFails(p) /\ ~Stop(p)
  PROVE  CountedOnce'
<1>0. /\ orders \in [OrderIds -> Orders] /\ orders' \in [OrderIds -> Orders]
      /\ lp \in Lunchpads /\ \A o \in OrderIds : orders[o].status = "none" => orders[o] = NoOrder
  BY StepKnows DEF UInv, TypeOK, Books, Stored
\* The orders counted stay the same while the round does.
<1>1. ASSUME lp'.round = lp.round, lp'.total = lp.total, lp'.tokens = lp.tokens,
             ~ReduceTokens(p), ~NotifyCommit(p)
      PROVE  CountedOnce'
  <2>1. ASSUME NEW o \in OrderIds
        PROVE  /\ "commit" \in orders'[o].txs <=> "commit" \in orders[o].txs
               /\ "commit" \in orders[o].txs =>
                     orders'[o].round = orders[o].round /\ orders'[o].units = orders[o].units
    BY <1>0, <1>1, CommitsKept, CreatedKept DEF NoOrder
  <2>2. \A q \in Procs :
          /\ At(q, "reduce")' <=> At(q, "reduce")
          /\ At(q, "reduce") => proc'[q].o = proc[q].o
    BY <1>1, ReducingKept
  <2>3. /\ Counted = {o \in OrderIds : /\ orders[o].round = lp.round /\ "commit" \in orders[o].txs
                                       /\ \A q \in Procs : ~(At(q, "reduce") /\ proc[q].o = o)}
        /\ Counted' = {o \in OrderIds : /\ orders'[o].round = lp'.round /\ "commit" \in orders'[o].txs
                                       /\ \A q \in Procs : ~(At(q, "reduce")' /\ proc'[q].o = o)}
    BY <1>0 DEF Counted, OfRound, Orders
  <2>4. Counted' = Counted
    BY <1>1, <2>1, <2>2, <2>3
  <2>5. \A o \in Counted : orders'[o].units = orders[o].units
    BY <2>1, <2>3
  <2> QED
    BY <1>0, <1>1, <2>4, <2>5, CountSame
<1>2. CASE ReduceTokens(p) \/ NotifyCommit(p)
  BY <1>2, CountReduced, CountNotified
<1>3. CASE StartStatus(p) /\ ~UNCHANGED book
  <2>1. /\ proc[p].round = lp.round /\ orders' = orders
        /\ lp' = [lp EXCEPT !.status = "ACTIVE", !.avail = proc[p].n, !.total = proc[p].n,
                            !.tokens = proc[p].n, !.round = proc[p].round + 1]
    BY <1>3 DEF UInv, Asks, StartStatus, At, Write
  <2>2. lp'.round = lp.round + 1 /\ lp'.tokens = lp'.total
    BY <1>0, <2>1 DEF Lunchpads
  <2>3. \A o \in OrderIds : orders[o].status # "none" => orders[o].round # lp.round + 1
    BY DEF UInv, Books, TypeOK, Lunchpads
  <2>4. Counted' = {}
    BY <1>0, <2>1, <2>2, <2>3 DEF Counted, OfRound, NoOrder
  <2>5. PICK g : g = [o \in OrderIds |-> orders'[o].units]
    OBVIOUS
  <2>6. Units(Counted)' = SumFunctionOnSet(g, {})
    BY <2>4, <2>5 DEF Units
  <2>7. lp'.total \in Int
    BY StepKnows DEF Stored, Lunchpads
  <2> QED
    BY <2>2, <2>6, <2>7, SumEmpty DEF CountedOnce, Counted
<1>4. CASE UNCHANGED lp /\ ~ReduceTokens(p) /\ ~NotifyCommit(p)
  BY <1>1, <1>4
<1>5. CASE Inactivate(p)
  <2>1. CASE lp' = [lp EXCEPT !.status = "INACTIVE", !.avail = 0, !.total = 0]
    BY <1>0, <2>1 DEF CountedOnce, Lunchpads
  <2> QED
    BY <1>2, <1>4, <1>5, <2>1 DEF Inactivate, Write, book
<1>6. CASE StopStatus(p) \/ CancelUnits(p) \/ RunStart(p) \/ SoldOut(p) \/ RunStop(p)
  <2>1. lp'.round = lp.round /\ lp'.total = lp.total /\ lp'.tokens = lp.tokens
    BY <1>0, <1>6 DEF StopStatus, CancelUnits, RunStart, SoldOut, RunStop, Write, Commit, book, Lunchpads
  <2> QED
    BY <1>1, <1>2, <2>1
<1>7. CASE Reserves(p)
  <2>1. lp'.round = lp.round /\ lp'.total = lp.total /\ lp'.tokens = lp.tokens
    BY <1>0, <1>7 DEF Reserves, ReserveCommit, ReserveLost, Commit, Abort, Lunchpads
  <2> QED
    BY <1>1, <1>2, <2>1
<1>8. CASE Reads(p) \/ Edits(p)
  BY <1>2, <1>4, <1>8, ReadsKeep, EditsKeep
<1>9. CASE StartStatus(p) /\ UNCHANGED book
  BY <1>2, <1>4, <1>9 DEF book
<1> QED
  BY <1>2, <1>3, <1>5, <1>6, <1>7, <1>8, <1>9 DEF Step, Writes

LEMMA CountInitially == ASSUME Init PROVE CountedOnce
  BY DEF Init, CountedOnce, NoLunchpad

LEMMA CountNext ==
  ASSUME UInv, CountedOnce, NoneLeftBehind, [Next]_vars, [NoCountLost]_vars
  PROVE  CountedOnce'
<1>1. ASSUME UNCHANGED <<lp, lock, orders, proc>>
      PROVE  CountedOnce'
  BY <1>1 DEF CountedOnce, OfRound, Units, At
<1>2. UNCHANGED vars => UNCHANGED <<lp, lock, orders, proc>>
  BY DEF vars, book
<1> QED
  BY <1>1, <1>2, Steps, CountStep DEF NoCountLost

\* currentTokensAmount is what the round began with, less the units of the orders whose commit
\* is recorded, each counted once, whatever else fails and however often processing starts again,
\* as long as no step between the record and the count fails (the notifyUpdate of the transfer
\* records the commit, reduceLunchpadTokenCurrentAmount counts it).
THEOREM TokensCountedOnce ==
    Spec /\ [][NoCountLost]_vars /\ []NoneLeftBehind => []CountedOnce
  BY UnitsInvariant, CountInitially, CountNext, PTL DEF Spec

\* A lunchpad of one round, where nothing fails, counts every order's tokens exactly once.
THEOREM TokensCountedInOneRound ==
  ASSUME ~Faults, MaxRounds <= 1
  PROVE  Spec => []CountedOnce
<1>1. NoCountLost
  BY DEF NoCountLost, RunFails, Stop
<1> QED
  BY <1>1, OneRound, UnitsInvariant, TokensCountedOnce, PTL
=============================================================================
