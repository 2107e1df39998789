-------------------------- MODULE Lunchpad_proofs --------------------------
(***************************************************************************)
(* Theorems about the lunchpad, for every set of handlers, wallets and     *)
(* payments, every number of orders, rounds and units, with crashes,       *)
(* failed calls and receipts that do not come.  The inductive invariant    *)
(* IInv says: isRunning is a lock (Entering, RunExclusion), the recorded   *)
(* ids follow what was sent (Records), and so does the place of whoever    *)
(* sends (Stages).  PInv adds what orders hold of payments (Held) and what *)
(* a process knows of the order it works on (Knows); the ways an order     *)
(* goes (Kind) are then those of UnitSale, which the lunchpad implements.  *)
(* No invariant here needs more than the shape of the documents; what they *)
(* say of units is LunchpadUnits_proofs'.                                  *)
(***************************************************************************)
EXTENDS Lunchpad, TLAPS

-----------------------------------------------------------------------------
(* The inductive invariant *)

Shape ==
    /\ DOMAIN proc = Procs /\ \A p \in Procs : DOMAIN proc[p] = DOMAIN Idle
    /\ DOMAIN orders = OrderIds /\ \A o \in OrderIds : DOMAIN orders[o] = DOMAIN NoOrder
    /\ DOMAIN lp = DOMAIN NoLunchpad
    /\ sent \in [OrderIds -> [commit: Nat, reveal: Nat]]
    /\ \A p \in Procs : proc[p].list \subseteq OrderIds /\ proc[p].back \in {"idle", "wCancel"}

\* Nobody enters a run with a document read as inactive.
Entering ==
    \A p \in Procs : proc[p].pc \in {"runTokens", "runStart"} => proc[p].status # "INACTIVE"

\* What was sent is recorded, once, the commit first; an order not created records nothing.
Records ==
    \A o \in OrderIds :
        /\ sent[o].commit <= 1 /\ sent[o].reveal <= sent[o].commit
        /\ "commit" \notin orders[o].txs => sent[o].commit = 0
        /\ orders[o].status = "none" => orders[o].txs = {}

Sends(p) ==
    proc[p].pc \in {"notifyCommit", "reduce", "submitCommit", "notifyReveal", "submitReveal"}

\* Whoever sends the tokens of an order is where the records and the chain say.
Stage(p) ==
    LET o == proc[p].o
    IN /\ o \in OrderIds /\ orders[o].status # "none"
       /\ At(p, "notifyCommit") <=> "commit" \notin orders[o].txs
       /\ proc[p].pc \in {"reduce", "submitCommit"} => sent[o].commit = 0
       /\ proc[p].pc \in {"notifyReveal", "submitReveal"} =>
             sent[o].commit = 1 /\ sent[o].reveal = 0

Stages == \A p \in Procs : Sends(p) => Stage(p)

IInv == Shape /\ Entering /\ RunExclusion /\ Records /\ Stages

-----------------------------------------------------------------------------
(* Steps *)

\* Of the processes only p changes, and keeps its shape.
Local(p) ==
    /\ \A q \in Procs : q # p => proc'[q] = proc[q]
    /\ DOMAIN proc' = Procs /\ DOMAIN proc'[p] = DOMAIN Idle
    /\ proc'[p].list \subseteq OrderIds /\ proc'[p].back \in {"idle", "wCancel"}

\* The lock and the records are left alone: no round ends under a run.
BookKept ==
    /\ DOMAIN lp' = DOMAIN NoLunchpad /\ lp'.running = lp.running
    /\ lp.running /\ lp'.status = "INACTIVE" => lp.status = "INACTIVE"

OrdersKept ==
    /\ DOMAIN orders' = OrderIds
    /\ \A o \in OrderIds :
         /\ DOMAIN orders'[o] = DOMAIN NoOrder
         /\ orders'[o].txs = orders[o].txs
         /\ orders'[o].status = "none" => orders[o].status = "none"

\* A step outside of a run, or one that ends it without a trace.
Quiet(p) ==
    /\ Local(p) /\ BookKept /\ OrdersKept /\ sent' = sent
    /\ ~Running(p)'
    /\ proc'[p].pc \in {"runTokens", "runStart"} => proc'[p].status # "INACTIVE"

\* A step of a run that sends nothing and is not about to.
Working(p) ==
    /\ Local(p) /\ BookKept /\ OrdersKept /\ sent' = sent
    /\ Running(p) /\ Running(p)' /\ ~Sends(p)'

\* The shape of the documents after a step.
LEMMA ShapeKept ==
  ASSUME Shape, NEW p \in Procs, Local(p), OrdersKept, DOMAIN lp' = DOMAIN NoLunchpad,
         sent' \in [OrderIds -> [commit: Nat, reveal: Nat]]
  PROVE  Shape'
  BY DEF Shape, Local, OrdersKept, Idle, NoOrder, NoLunchpad

\* Other processes stay where they are.
LEMMA OthersStay ==
  ASSUME NEW p \in Procs, Local(p), NEW q \in Procs, q # p
  PROVE  /\ Running(q)' = Running(q) /\ Sends(q)' = Sends(q)
         /\ proc'[q] = proc[q]
  BY DEF Local, Running, Sends

\* A quiet step keeps the invariant.
LEMMA QuietKeeps ==
  ASSUME IInv, NEW p \in Procs, Quiet(p)
  PROVE  IInv'
<1>1. Shape'
  BY ShapeKept DEF IInv, Quiet, BookKept, Shape
<1>2. Entering'
  BY DEF IInv, Entering, Quiet, Local
<1>3. RunExclusion'
  BY OthersStay DEF IInv, RunExclusion, Quiet, BookKept
<1>4. Records'
  BY DEF IInv, Records, Quiet, OrdersKept
<1>5. Stages'
  <2> SUFFICES ASSUME NEW q \in Procs, Sends(q)' PROVE Stage(q)'
    BY DEF Stages
  <2>1. q # p
    BY DEF Quiet, Sends, Running
  <2>2. Sends(q) /\ proc'[q] = proc[q] /\ Stage(q)
    BY <2>1, OthersStay DEF Quiet, IInv, Stages
  <2> QED
    BY <2>2 DEF Stage, At, Quiet, OrdersKept
<1> QED
  BY <1>1, <1>2, <1>3, <1>4, <1>5 DEF IInv

\* So does a step of the run that sends nothing.
LEMMA WorkingKeeps ==
  ASSUME IInv, NEW p \in Procs, Working(p)
  PROVE  IInv'
<1>1. Shape'
  BY ShapeKept DEF IInv, Working, BookKept, Shape
<1>2. Entering'
  BY DEF IInv, Entering, Working, Local, Running
<1>3. RunExclusion'
  BY OthersStay DEF IInv, RunExclusion, Working, BookKept
<1>4. Records'
  BY DEF IInv, Records, Working, OrdersKept
<1>5. Stages'
  <2> SUFFICES ASSUME NEW q \in Procs, Sends(q)' PROVE Stage(q)'
    BY DEF Stages
  <2>1. q # p
    BY DEF Working
  <2>2. Sends(q) /\ proc'[q] = proc[q] /\ Stage(q)
    BY <2>1, OthersStay DEF Working, IInv, Stages
  <2> QED
    BY <2>2 DEF Stage, At, Working, OrdersKept
<1> QED
  BY <1>1, <1>2, <1>3, <1>4, <1>5 DEF IInv

-----------------------------------------------------------------------------
(* What the common parts of the steps do *)

\* A process that goes on keeps the rest of its state.
LEMMA GotoLocal ==
  ASSUME Shape, NEW p \in Procs, NEW l, Goto(p, l)
  PROVE  /\ Local(p) /\ proc'[p].pc = l /\ proc'[p].o = proc[p].o
         /\ proc'[p].status = proc[p].status
  BY DEF Shape, Goto, Local, Idle

\* A process that is done is idle again.
LEMMA EndLocal ==
  ASSUME Shape, NEW p \in Procs, End(p)
  PROVE  Local(p) /\ proc'[p].pc = "idle"
  BY DEF Shape, End, Local, Idle

\* A request, or one cancellation of a loop, comes to its end.
LEMMA ReturnLocal ==
  ASSUME Shape, NEW p \in Procs, Return(p)
  PROVE  Local(p) /\ proc'[p].pc = proc[p].back
  BY DEF Shape, Return, Local, Idle

\* A process gets a new local state.
LEMMA SetLocal ==
  ASSUME Shape, NEW p \in Procs, NEW j, DOMAIN j = DOMAIN Idle, j.list \subseteq OrderIds,
         j.back \in {"idle", "wCancel"}, proc' = [proc EXCEPT ![p] = j]
  PROVE  Local(p) /\ proc'[p] = j
  BY DEF Shape, Local

\* Closing a lunchpad that may be stopping changes no other process.
LEMMA CloseLocal ==
  ASSUME Shape, NEW p \in Procs, NEW doc, CloseIfStopping(p, doc)
  PROVE  Local(p) /\ proc'[p].pc \in {"openOrders", "idle", "wCancel"}
<1>1. CASE doc.status = "STOPPING"
  <2> DEFINE j == [Idle EXCEPT !.pc = "openOrders", !.round = doc.round,
                               !.list = proc[p].list, !.back = proc[p].back]
  <2>1. /\ DOMAIN j = DOMAIN Idle /\ j.pc = "openOrders"
        /\ j.list = proc[p].list /\ j.back = proc[p].back
    BY DEF Idle
  <2>2. proc' = [proc EXCEPT ![p] = j]
    BY <1>1 DEF CloseIfStopping
  <2> QED
    BY <2>1, <2>2 DEF Shape, Local
<1>2. CASE doc.status # "STOPPING"
  BY <1>2, ReturnLocal DEF Shape, CloseIfStopping
<1> QED
  BY <1>1, <1>2

\* Orders that are left alone are kept.
LEMMA OrdersUnchanged == ASSUME Shape, UNCHANGED orders PROVE OrdersKept
  BY DEF Shape, OrdersKept

\* So is a lunchpad that is left alone.
LEMMA BookUnchanged == ASSUME Shape, UNCHANGED lp PROVE BookKept
  BY DEF Shape, BookKept

\* A transition between statuses of created orders.
LEMMA TransitionKept ==
  ASSUME Shape, NEW o, NEW required, NEW new, new # "none", OrderTransition(o, required, new)
  PROVE  OrdersKept
  BY DEF Shape, OrdersKept, OrderTransition, NoOrder

-----------------------------------------------------------------------------
(* Steps outside of a run *)

\* A step that writes neither the lunchpad nor an order.
LEMMA ReadOnly ==
  ASSUME Shape, NEW p \in Procs, Local(p), UNCHANGED <<lp, orders, sent>>,
         ~Running(p)',
         proc'[p].pc \in {"runTokens", "runStart"} => proc'[p].status # "INACTIVE"
  PROVE  Quiet(p)
  BY OrdersUnchanged, BookUnchanged DEF Quiet

\* A request is taken up.
LEMMA RequestsQuiet ==
  ASSUME IInv, NEW p \in Procs, Requests(p)
  PROVE  Quiet(p)
<1>1. Local(p) /\ ~Running(p)' /\ proc'[p].pc \notin {"runTokens", "runStart"}
  <2>1. CASE StartLunchpad(p)
    BY <2>1 DEF IInv, Shape, StartLunchpad, Local, Running, Idle
  <2>2. CASE StopLunchpad(p)
    BY <2>2 DEF IInv, Shape, StopLunchpad, Local, Running, Idle
  <2>3. CASE RetrieveFunds(p)
    BY <2>3 DEF IInv, Shape, RetrieveFunds, Local, Running, Idle
  <2>4. ASSUME NEW w \in Wallets, NEW u \in MinUnits..MaxUnits, CreateOrder(p, w, u)
        PROVE  Local(p) /\ ~Running(p)' /\ proc'[p].pc \notin {"runTokens", "runStart"}
    BY <2>4 DEF IInv, Shape, CreateOrder, Local, Running, Idle
  <2>5. ASSUME NEW o \in OrderIds, CancelOrder(p, o)
        PROVE  Local(p) /\ ~Running(p)' /\ proc'[p].pc \notin {"runTokens", "runStart"}
    BY <2>5 DEF IInv, Shape, CancelOrder, Local, Running, Idle
  <2>6. ASSUME NEW o \in OrderIds, NEW t \in paid, VerifyOrder(p, o, t)
        PROVE  Local(p) /\ ~Running(p)' /\ proc'[p].pc \notin {"runTokens", "runStart"}
    BY <2>6 DEF IInv, Shape, VerifyOrder, Local, Running, Idle
  <2> QED
    BY <2>1, <2>2, <2>3, <2>4, <2>5, <2>6 DEF Requests
<1>2. UNCHANGED <<lp, orders, sent>>
  BY DEF Requests, StartLunchpad, StopLunchpad, RetrieveFunds, CreateOrder, CancelOrder,
         VerifyOrder, book, world
<1> QED
  BY <1>1, <1>2, ReadOnly DEF IInv

\* The owner's requests, and whatever closes a stopping lunchpad: the lunchpad
\* goes inactive only when no run is going on.
LEMMA OwnerQuiet ==
  ASSUME IInv, NEW p \in Procs, OwnerSteps(p)
  PROVE  Quiet(p)
<1> USE DEF IInv, Shape
<1>1. CASE StartTokens(p)
  <2>1. Local(p) /\ proc'[p].pc \in {"startStatus", "idle"}
    BY <1>1, EndLocal DEF StartTokens, Local, Idle
  <2> QED
    BY <1>1, <2>1, ReadOnly DEF StartTokens, Running, book, world
<1>2. CASE StartStatus(p)
  <2>1. Local(p) /\ proc'[p].pc = "idle"
    BY <1>2, EndLocal DEF StartStatus
  <2>2. BookKept
    BY <1>2 DEF StartStatus, BookKept, Write, book, NoLunchpad
  <2> QED
    BY <1>2, <2>1, <2>2, OrdersUnchanged DEF StartStatus, Quiet, Running, world
<1>3. CASE StopStatus(p)
  <2>1. Local(p) /\ proc'[p].pc \in {"openOrders", "idle", "wCancel"}
    BY <1>3, EndLocal, CloseLocal DEF StopStatus
  <2>2. BookKept
    BY <1>3 DEF StopStatus, BookKept, Write, book, NoLunchpad
  <2> QED
    BY <1>3, <2>1, <2>2, OrdersUnchanged DEF StopStatus, Quiet, Running, world
<1>4. CASE OpenOrders(p)
  <2>1. Local(p) /\ proc'[p].pc \in {"inactive", "idle", "wCancel"}
    BY <1>4, GotoLocal, ReturnLocal DEF OpenOrders
  <2> QED
    BY <1>4, <2>1, ReadOnly DEF OpenOrders, Running, book, world
<1>5. CASE Inactivate(p)
  <2>1. Local(p) /\ proc'[p].pc \in {"idle", "wCancel"}
    BY <1>5, ReturnLocal DEF Inactivate
  <2>2. BookKept
    BY <1>5 DEF Inactivate, BookKept, Write, book, NoLunchpad
  <2> QED
    BY <1>5, <2>1, <2>2, OrdersUnchanged DEF Inactivate, Quiet, Running, world
<1>6. CASE RetrieveOpenOrders(p)
  <2>1. Local(p) /\ proc'[p].pc \in {"retMove", "idle"}
    BY <1>6, GotoLocal, EndLocal DEF RetrieveOpenOrders
  <2> QED
    BY <1>6, <2>1, ReadOnly DEF RetrieveOpenOrders, Running, book, world
<1>7. CASE RetrieveMove(p)
  <2>1. Local(p) /\ proc'[p].pc = "idle"
    BY <1>7, EndLocal DEF RetrieveMove
  <2> QED
    BY <1>7, <2>1, ReadOnly DEF RetrieveMove, Running, book
<1> QED
  BY <1>1, <1>2, <1>3, <1>4, <1>5, <1>6, <1>7 DEF OwnerSteps

\* A reservation, whose order has no records yet.
LEMMA ReservationKept ==
  ASSUME IInv, NEW p \in Procs, NewOrder(p)
  PROVE  OrdersKept
<1>1. PICK o \in OrderIds :
        /\ orders[o].status = "none"
        /\ orders' = [orders EXCEPT ![o] = [NoOrder EXCEPT
                        !.status = "WAITING_FOR_KAS", !.units = proc[p].n,
                        !.wallet = proc[p].w, !.round = lp.round]]
  BY DEF NewOrder, Oldest, OfRound
<1> DEFINE d == [NoOrder EXCEPT !.status = "WAITING_FOR_KAS", !.units = proc[p].n,
                                !.wallet = proc[p].w, !.round = lp.round]
<1>2. DOMAIN d = DOMAIN NoOrder /\ d.txs = {} /\ d.status = "WAITING_FOR_KAS"
  BY DEF NoOrder
<1>3. orders' = [orders EXCEPT ![o] = d]
  BY <1>1
<1> HIDE DEF d
<1> QED
  BY <1>1, <1>2, <1>3 DEF IInv, Shape, Records, OrdersKept

\* Reservations, verifications and cancellations.
LEMMA OrderQuiet ==
  ASSUME IInv, NEW p \in Procs, OrderSteps(p)
  PROVE  Quiet(p)
<1> USE DEF IInv, Shape
<1>1. CASE ReserveLock(p)
  <2>1. Local(p) /\ proc'[p].pc \in {"resWallet", "idle"}
    BY <1>1, EndLocal DEF ReserveLock, Local, Idle
  <2> QED
    BY <1>1, <2>1, ReadOnly DEF ReserveLock, Begin, Running, book, world
<1>2. CASE ReserveWallet(p)
  <2>1. Local(p) /\ proc'[p].pc \in {"resCommit", "idle"}
    BY <1>2, EndLocal DEF ReserveWallet, Local, Idle
  <2> QED
    BY <1>2, <2>1, ReadOnly DEF ReserveWallet, Abort, Running, book, world
<1>3. CASE ReserveCommit(p)
  <2>1. Local(p) /\ proc'[p].pc = "idle"
    BY <1>3, EndLocal DEF ReserveCommit
  <2>2. BookKept
    BY <1>3 DEF ReserveCommit, BookKept, Commit, NoLunchpad
  <2> QED
    BY <1>3, <2>1, <2>2, ReservationKept DEF ReserveCommit, Quiet, Running, world
<1>4. CASE VerifyLunchpad(p)
  <2>1. Local(p) /\ proc'[p].pc \in {"verPayment", "idle"}
    BY <1>4, GotoLocal, EndLocal DEF VerifyLunchpad
  <2> QED
    BY <1>4, <2>1, ReadOnly DEF VerifyLunchpad, Running, book, world
<1>5. CASE VerifyPayment(p)
  <2>1. Local(p) /\ proc'[p].pc \in {"verRecord", "verStatus", "idle"}
    BY <1>5, GotoLocal, EndLocal DEF VerifyPayment
  <2> QED
    BY <1>5, <2>1, ReadOnly DEF VerifyPayment, Running, book, world
<1>6. CASE VerifyRecord(p)
  <2>1. Local(p) /\ proc'[p].pc \in {"verStatus", "idle"}
    <3>1. CASE ~Unused(proc[p].tx, proc[p].o)
      BY <1>6, <3>1, EndLocal DEF VerifyRecord
    <3>2. CASE Unused(proc[p].tx, proc[p].o)
      <4> DEFINE j == [Idle EXCEPT !.pc = "verStatus", !.o = proc[p].o]
      <4>1. DOMAIN j = DOMAIN Idle /\ j.pc = "verStatus" /\ j.list = {} /\ j.back = "idle"
        BY DEF Idle
      <4>2. proc' = [proc EXCEPT ![p] = j]
        BY <1>6, <3>2 DEF VerifyRecord
      <4> QED
        BY <4>1, <4>2, SetLocal
    <3> QED
      BY <3>1, <3>2
  <2>2. OrdersKept
    BY <1>6 DEF VerifyRecord, OrdersKept, NoOrder
  <2> QED
    BY <1>6, <2>1, <2>2, BookUnchanged DEF VerifyRecord, Quiet, Running, book, world
<1>7. CASE VerifyStatus(p)
  <2>1. Local(p) /\ proc'[p].pc = "idle"
    BY <1>7, EndLocal DEF VerifyStatus
  <2>2. OrdersKept
    BY <1>7, TransitionKept, OrdersUnchanged DEF VerifyStatus
  <2> QED
    BY <1>7, <2>1, <2>2, BookUnchanged DEF VerifyStatus, Quiet, Running, book, world
<1>8. CASE CancelLunchpad(p)
  <2>1. Local(p) /\ proc'[p].pc \in {"canPayment", "idle"}
    BY <1>8, GotoLocal, EndLocal DEF CancelLunchpad
  <2> QED
    BY <1>8, <2>1, ReadOnly DEF CancelLunchpad, Running, book, world
<1>9. CASE CancelPayment(p)
  <2>1. Local(p) /\ proc'[p].pc \in {"verStatus", "canLock"}
    BY <1>9, GotoLocal DEF CancelPayment
  <2> QED
    BY <1>9, <2>1, ReadOnly DEF CancelPayment, Running, book, world
<1>10. CASE CancelLock(p)
  <2>1. Local(p) /\ proc'[p].pc = "canOrder"
    BY <1>10, GotoLocal DEF CancelLock
  <2> QED
    BY <1>10, <2>1, ReadOnly DEF CancelLock, Begin, Running, world
<1>11. CASE CancelStatus(p)
  <2>1. Local(p) /\ proc'[p].pc \in {"canUnits", "idle", "wCancel"}
    BY <1>11, GotoLocal, ReturnLocal DEF CancelStatus
  <2>2. OrdersKept
    BY <1>11, TransitionKept, OrdersUnchanged DEF CancelStatus
  <2>3. UNCHANGED lp
    BY <1>11 DEF CancelStatus, Abort, book
  <2> QED
    BY <1>11, <2>1, <2>2, <2>3, BookUnchanged DEF CancelStatus, Quiet, Running, world
<1>12. CASE CancelUnits(p)
  <2>1. Local(p) /\ proc'[p].pc \in {"canLock", "openOrders", "idle", "wCancel"}
    BY <1>12, GotoLocal, CloseLocal DEF CancelUnits
  <2>2. BookKept
    BY <1>12 DEF CancelUnits, BookKept, Commit, NoLunchpad
  <2> QED
    BY <1>12, <2>1, <2>2, OrdersUnchanged DEF CancelUnits, Quiet, Running, world
<1> QED
  BY <1>1, <1>2, <1>3, <1>4, <1>5, <1>6, <1>7, <1>8, <1>9, <1>10, <1>11, <1>12
     DEF OrderSteps

\* The five-minute job up to the start of its run.
LEMMA WaitingQuiet ==
  ASSUME IInv, WaitingKasOrders \/ WaitingSteps
  PROVE  Quiet(Cron)
<1> USE DEF IInv, Shape
<1> Cron \in Procs
  BY DEF Procs
<1>1. CASE WaitingKasOrders
  <2>1. Local(Cron) /\ proc'[Cron].pc = "wOrders"
    BY <1>1 DEF WaitingKasOrders, Local, Idle
  <2> QED
    BY <1>1, <2>1, ReadOnly DEF WaitingKasOrders, Running, book, world
<1>2. CASE WaitingOrders
  <2>1. Local(Cron) /\ proc'[Cron].pc = "wUsed"
    BY <1>2 DEF WaitingOrders, Local, Idle
  <2> QED
    BY <1>2, <2>1, ReadOnly DEF WaitingOrders, Running, book, world
<1>3. CASE UsedTransactions
  <2>1. Local(Cron) /\ proc'[Cron].pc = "wUtxos"
    BY <1>3 DEF UsedTransactions, Local, Idle
  <2> QED
    BY <1>3, <2>1, ReadOnly DEF UsedTransactions, Running, book, world
<1>4. CASE FreeUtxos
  <2>1. Local(Cron) /\ proc'[Cron].pc = "wMatch"
    BY <1>4 DEF FreeUtxos, Local, Idle
  <2> QED
    BY <1>4, <2>1, ReadOnly DEF FreeUtxos, Running, book, world
<1>5. CASE MatchUtxo
  <2>1. Local(Cron) /\ proc'[Cron].pc \in {"wCancel", "wMatch", "idle"}
    <3>1. CASE Goto(Cron, "wCancel")
      BY <3>1, GotoLocal
    <3>2. CASE End(Cron)
      BY <3>2, EndLocal
    <3>3. ASSUME NEW t, NEW done,
                 proc' = [proc EXCEPT ![Cron].free = @ \ {t}, ![Cron].list = @ \ done]
          PROVE  Local(Cron) /\ proc'[Cron].pc = proc[Cron].pc
      BY <3>3 DEF Local, Idle
    <3> QED
      BY <1>5, <3>1, <3>2, <3>3 DEF MatchUtxo, At
  <2>2. OrdersKept
    <3>1. CASE UNCHANGED orders
      BY <3>1, OrdersUnchanged
    <3>2. CASE ~UNCHANGED orders
      <4> DEFINE done(t) == {o \in Oldest({o \in proc[Cron].list : Pays(t, orders[o])}) :
                               Unused(t, o) /\ orders[o].status = "WAITING_FOR_KAS"}
                 verified(t, o) == [orders[o] EXCEPT !.tx = t,
                                      !.status = "VERIFIED_AND_WAITING_FOR_PROCESSING"]
      <4>1. PICK t : orders' = [o \in OrderIds |->
                       IF o \in done(t) THEN verified(t, o) ELSE orders[o]]
        BY <1>5, <3>2 DEF MatchUtxo
      <4>2. \A o \in OrderIds : /\ DOMAIN verified(t, o) = DOMAIN NoOrder
                                /\ verified(t, o).txs = orders[o].txs
                                /\ verified(t, o).status # "none"
        BY DEF NoOrder
      <4> HIDE DEF done, verified
      <4> QED
        BY <4>1, <4>2 DEF OrdersKept
    <3> QED
      BY <3>1, <3>2
  <2> QED
    BY <1>5, <2>1, <2>2, BookUnchanged DEF MatchUtxo, Quiet, Running, book, world
<1>6. CASE CancelWaiting
  <2>1. Local(Cron) /\ proc'[Cron].pc \in {"runRead", "canLock"}
    <3>1. CASE proc[Cron].list = {}
      <4> DEFINE j == [Idle EXCEPT !.pc = "runRead"]
      <4>1. DOMAIN j = DOMAIN Idle /\ j.pc = "runRead" /\ j.list = {} /\ j.back = "idle"
        BY DEF Idle
      <4>2. proc' = [proc EXCEPT ![Cron] = j]
        BY <1>6, <3>1 DEF CancelWaiting
      <4> QED
        BY <4>1, <4>2, SetLocal
    <3>2. CASE proc[Cron].list # {}
      <4>1. PICK o : proc' = [proc EXCEPT ![Cron].pc = "canLock", ![Cron].o = o, ![Cron].list = @ \ {o}]
        BY <1>6, <3>2 DEF CancelWaiting
      <4> QED
        BY <4>1 DEF Local, Idle
    <3> QED
      BY <3>1, <3>2
  <2> QED
    BY <1>6, <2>1, ReadOnly DEF CancelWaiting, Running, book, world
<1> QED
  BY <1>1, <1>2, <1>3, <1>4, <1>5, <1>6 DEF WaitingSteps

\* Entering a run, up to the lock.
LEMMA EnteringQuiet ==
  ASSUME IInv, NEW p \in Procs, StartProcessing(p) \/ RunRead(p) \/ RunTokens(p)
  PROVE  Quiet(p)
<1>1. ASSUME Runnable, EnterRun(p)
      PROVE  Local(p) /\ proc'[p].pc = "runTokens" /\ proc'[p].status # "INACTIVE"
  <2> DEFINE j == [Idle EXCEPT !.pc = "runTokens", !.status = lp.status,
                               !.round = lp.round, !.n = lp.tokens]
  <2>1. /\ DOMAIN j = DOMAIN Idle /\ j.pc = "runTokens" /\ j.status = lp.status
        /\ j.list = {} /\ j.back = "idle"
    BY DEF Idle
  <2>2. proc' = [proc EXCEPT ![p] = j]
    BY <1>1 DEF EnterRun
  <2> QED
    BY <1>1, <2>1, <2>2, SetLocal DEF IInv, Runnable
<1>2. CASE StartProcessing(p)
  BY <1>1, <1>2, ReadOnly DEF StartProcessing, IInv, Running, book, world
<1>3. CASE RunRead(p)
  BY <1>1, <1>3, EndLocal, ReadOnly DEF RunRead, IInv, Running, book, world
<1>4. CASE RunTokens(p)
  BY <1>4, GotoLocal, EndLocal, ReadOnly DEF RunTokens, At, IInv, Entering, Running, book, world
<1> QED
  BY <1>2, <1>3, <1>4

\* Crashes, failed calls outside of a run, and reservations whose commit is lost.
LEMMA FailureQuiet ==
  ASSUME IInv, NEW p \in Procs, Stop(p) \/ ReserveLost(p)
  PROVE  Quiet(p)
<1>1. CASE Stop(p)
  BY <1>1, EndLocal, ReadOnly DEF Stop, Abort, IInv, Running, world
<1>2. CASE ReserveLost(p)
  BY <1>2, EndLocal, ReservationKept, BookUnchanged
     DEF ReserveLost, Abort, IInv, Quiet, Running, world
<1> QED
  BY <1>1, <1>2

-----------------------------------------------------------------------------
(* Steps of a run *)

\* Who does not hold the lock does not send.
LEMMA OneSender ==
  ASSUME IInv, NEW p \in Procs, Running(p), NEW q \in Procs, q # p
  PROVE  ~Running(q) /\ ~Sends(q)
  BY DEF IInv, RunExclusion, Running, Sends

\* A step of the run that keeps the records, and leaves the run where they say.
LEMMA SendingKeeps ==
  ASSUME IInv, NEW p \in Procs, Local(p), BookKept, Shape', Records',
         Running(p), Running(p)', Sends(p)' => Stage(p)'
  PROVE  IInv'
<1>1. Entering'
  BY DEF IInv, Entering, Local, Running
<1>2. RunExclusion'
  BY OthersStay DEF IInv, RunExclusion, BookKept
<1>3. Stages'
  BY OthersStay, OneSender DEF Stages
<1> QED
  BY <1>1, <1>2, <1>3 DEF IInv

\* The lock is taken when nobody holds it.
LEMMA StartKeeps ==
  ASSUME IInv, NEW p \in Procs, RunStart(p)
  PROVE  IInv'
<1>1. CASE End(p) /\ UNCHANGED book
  BY <1>1, EndLocal, ReadOnly, QuietKeeps DEF RunStart, IInv, Running, book, world
<1>2. CASE ~(End(p) /\ UNCHANGED book)
  <2> DEFINE j == [Idle EXCEPT !.pc = "runFetch", !.round = proc[p].round]
  <2>1. DOMAIN j = DOMAIN Idle /\ j.pc = "runFetch" /\ j.list = {} /\ j.back = "idle"
    BY DEF Idle
  <2>2. /\ At(p, "runStart") /\ ~lp.running /\ lp.status = proc[p].status
        /\ lp' = [lp EXCEPT !.running = TRUE] /\ proc' = [proc EXCEPT ![p] = j]
        /\ UNCHANGED <<orders, sent>>
    BY <1>2 DEF RunStart, Write, world
  <2>3. Local(p) /\ proc'[p].pc = "runFetch"
    BY <2>1, <2>2, SetLocal DEF IInv
  <2>4. /\ DOMAIN lp' = DOMAIN NoLunchpad /\ lp'.running /\ lp'.status = lp.status
        /\ lp.status # "INACTIVE"
    BY <2>2 DEF IInv, Shape, Entering, At, NoLunchpad
  <2>5. Shape'
    BY <2>2, <2>3, <2>4, ShapeKept, OrdersUnchanged DEF IInv, Shape
  <2>6. Entering'
    BY <2>3 DEF IInv, Entering, Local
  <2>7. RunExclusion'
    <3>1. \A q \in Procs : ~Running(q)
      BY <2>2 DEF IInv, RunExclusion
    <3> QED
      BY <2>3, <2>4, <3>1, OthersStay DEF RunExclusion
  <2>8. Records'
    BY <2>2 DEF IInv, Records
  <2>9. Stages'
    <3>1. \A q \in Procs : ~Sends(q)
      BY <2>2 DEF IInv, RunExclusion, Sends, Running
    <3> QED
      BY <2>3, <3>1, OthersStay DEF Stages, Sends
  <2> QED
    BY <2>5, <2>6, <2>7, <2>8, <2>9 DEF IInv
<1> QED
  BY <1>1, <1>2

\* The lock is given back by the run that holds it.
LEMMA StopKeeps ==
  ASSUME IInv, NEW p \in Procs, RunStop(p)
  PROVE  IInv'
<1>1. Running(p) /\ lp.running
  BY DEF RunStop, At, IInv, RunExclusion, Running
<1> DEFINE j == IF lp.status = "STOPPING"
                THEN [Idle EXCEPT !.pc = "openOrders", !.round = lp.round] ELSE Idle
<1>2. DOMAIN j = DOMAIN Idle /\ j.pc \in {"openOrders", "idle"} /\ j.list = {} /\ j.back = "idle"
  BY DEF Idle
<1>3. /\ lp' = [lp EXCEPT !.running = FALSE] /\ proc' = [proc EXCEPT ![p] = j]
      /\ UNCHANGED <<orders, sent>>
  BY <1>1 DEF RunStop, Write, world
<1> HIDE DEF j
<1>4. Local(p) /\ proc'[p].pc \in {"openOrders", "idle"}
  BY <1>2, <1>3, SetLocal DEF IInv
<1>5. Shape'
  BY <1>3, <1>4, ShapeKept, OrdersUnchanged DEF IInv, Shape, NoLunchpad
<1>6. Entering'
  BY <1>4 DEF IInv, Entering, Local
<1>7. \A q \in Procs : ~Running(q)' /\ ~Sends(q)'
  BY <1>1, <1>4, OneSender, OthersStay DEF Running, Sends
<1>8. RunExclusion' /\ Stages'
  BY <1>7 DEF RunExclusion, Stages
<1>9. Records'
  BY <1>3 DEF IInv, Records
<1> QED
  BY <1>5, <1>6, <1>8, <1>9 DEF IInv

\* Steps of a run that send nothing, and failures during one.
LEMMA RunWorking ==
  ASSUME IInv, NEW p \in Procs,
         \/ RunFetch(p) \/ AwaitReceipt(p) \/ SoldOut(p) \/ Complete(p) \/ RunError(p)
         \/ RunFails(p) \/ RunClosing(p)
  PROVE  Working(p)
<1> USE DEF IInv
<1>1. CASE RunFetch(p)
  <2>1. Local(p) /\ proc'[p].pc \in {"runStop", "runOrder"}
    <3> DEFINE ready == OfRound(proc[p].round, Ready)
               again == {o \in ready : orders[o].status = "PROCESSING"}
               l == IF ready = {} THEN "runStop" ELSE "runOrder"
               j == [proc[p] EXCEPT !.pc = l, !.list = ready, !.again = again]
    <3>1. ready \subseteq OrderIds
      BY DEF OfRound
    <3>2. proc' = [proc EXCEPT ![p] = j]
      BY <1>1 DEF RunFetch
    <3> HIDE DEF ready, again
    <3>3. DOMAIN j = DOMAIN Idle /\ j.pc = l /\ j.list = ready /\ j.back = proc[p].back
      BY DEF Shape, Idle
    <3> QED
      BY <3>1, <3>2, <3>3, SetLocal DEF Shape
  <2> QED
    BY <1>1, <2>1, OrdersUnchanged, BookUnchanged
       DEF RunFetch, Working, At, Running, Sends, book, world
<1>2. CASE AwaitReceipt(p)
  <2>1. Local(p) /\ proc'[p].pc = "runFetch"
    BY <1>2 DEF AwaitReceipt, Shape, Local, Idle
  <2> QED
    BY <1>2, <2>1, OrdersUnchanged, BookUnchanged
       DEF AwaitReceipt, Working, At, Running, Sends, book, world
<1>3. CASE SoldOut(p)
  <2>1. Local(p) /\ proc'[p].pc \in {"complete", "runError"}
    BY <1>3, GotoLocal DEF SoldOut
  <2>2. BookKept
    BY <1>3 DEF SoldOut, BookKept, Write, book, Shape, NoLunchpad
  <2> QED
    BY <1>3, <2>1, <2>2, OrdersUnchanged DEF SoldOut, Working, At, Running, Sends, world
<1>4. ASSUME NextOrder(p)
      PROVE  Local(p) /\ proc'[p].pc \in {"runFetch", "runOrder"}
  <2> DEFINE rest == proc[p].list \ {proc[p].o}
             l == IF rest = {} THEN "runFetch" ELSE "runOrder"
             j == [proc[p] EXCEPT !.pc = l, !.list = rest, !.o = 0, !.sold = FALSE]
  <2>1. proc' = [proc EXCEPT ![p] = j]
    BY <1>4 DEF NextOrder
  <2>2. DOMAIN j = DOMAIN Idle /\ j.pc = l /\ j.list = rest /\ j.back = proc[p].back
    BY DEF Shape, Idle
  <2> QED
    BY <2>1, <2>2, SetLocal DEF Shape
<1>5. CASE Complete(p)
  <2>1. Local(p) /\ proc'[p].pc \in {"runFetch", "runOrder", "runError"}
    BY <1>4, <1>5, GotoLocal DEF Complete
  <2>2. OrdersKept
    BY <1>5, TransitionKept, OrdersUnchanged DEF Complete
  <2> QED
    BY <1>5, <2>1, <2>2, BookUnchanged DEF Complete, Working, At, Running, Sends, book, world
<1>6. CASE RunError(p)
  <2>1. Local(p) /\ proc'[p].pc \in {"runFetch", "runOrder", "runStop"}
    BY <1>4, <1>6, GotoLocal DEF RunError
  <2>2. OrdersKept
    BY <1>6, TransitionKept, OrdersUnchanged DEF RunError
  <2> QED
    BY <1>6, <2>1, <2>2, BookUnchanged DEF RunError, Working, At, Running, Sends, book, world
<1>7. CASE RunFails(p)
  BY <1>7, GotoLocal, OrdersUnchanged, BookUnchanged
     DEF RunFails, Working, Running, Sends, book, world
<1>8. CASE RunClosing(p)
  BY <1>8, GotoLocal, OrdersUnchanged, BookUnchanged
     DEF RunClosing, Working, Running, Sends, book, world
<1> QED
  BY <1>1, <1>2, <1>3, <1>5, <1>6, <1>7, <1>8

\* An order is taken up: its transfer starts if no commit is recorded.
LEMMA OrderKeeps ==
  ASSUME IInv, NEW p \in Procs, RunOrder(p)
  PROVE  IInv'
<1>1. PICK o \in proc[p].list, required \in {"PROCESSING", "VERIFIED_AND_WAITING_FOR_PROCESSING"} :
        \/ /\ OrderTransition(o, required, "PROCESSING")
           /\ proc' = [proc EXCEPT ![p].o = o,
                 ![p].pc = IF "commit" \in orders[o].txs THEN "received" ELSE "notifyCommit"]
        \/ /\ proc' = [proc EXCEPT ![p].o = o, ![p].pc = "runError"]
           /\ UNCHANGED orders
  BY DEF RunOrder, Oldest
<1>2. Running(p) /\ UNCHANGED <<lp, sent>> /\ o \in OrderIds
  BY DEF RunOrder, At, Running, book, world, IInv, Shape
<1>3. OrdersKept
  BY <1>1, TransitionKept, OrdersUnchanged DEF IInv
<1>4. Local(p) /\ proc'[p].pc \in {"received", "notifyCommit", "runError"} /\ proc'[p].o = o
  <2>1. ASSUME NEW l, proc' = [proc EXCEPT ![p].o = o, ![p].pc = l]
        PROVE  Local(p) /\ proc'[p].pc = l /\ proc'[p].o = o
    BY <2>1 DEF IInv, Shape, Local, Idle
  <2> QED
    BY <1>1, <2>1
<1>5. proc'[p].pc = "notifyCommit" => "commit" \notin orders'[o].txs /\ orders'[o].status = "PROCESSING"
  <2>1. CASE proc' = [proc EXCEPT ![p].o = o, ![p].pc = "runError"]
    BY <2>1 DEF IInv, Shape, Idle
  <2>2. CASE /\ OrderTransition(o, required, "PROCESSING")
             /\ proc' = [proc EXCEPT ![p].o = o,
                   ![p].pc = IF "commit" \in orders[o].txs THEN "received" ELSE "notifyCommit"]
    <3>1. CASE "commit" \in orders[o].txs
      <4>1. proc' = [proc EXCEPT ![p].o = o, ![p].pc = "received"]
        BY <2>2, <3>1
      <4> QED
        BY <4>1 DEF IInv, Shape, Idle
    <3>2. CASE "commit" \notin orders[o].txs
      BY <1>2, <2>2, <3>2 DEF OrderTransition, IInv, Shape, NoOrder
    <3> QED
      BY <3>1, <3>2
  <2> QED
    BY <1>1, <2>1, <2>2
<1>6. Records'
  BY <1>2, <1>3 DEF IInv, Records, OrdersKept
<1>7. Sends(p)' => Stage(p)'
  BY <1>2, <1>4, <1>5 DEF Sends, Stage, At
<1>8. Shape'
  BY <1>2, <1>3, <1>4, ShapeKept DEF IInv, Shape
<1>9. BookKept
  BY <1>2, BookUnchanged DEF IInv
<1> QED
  BY <1>2, <1>4, <1>6, <1>7, <1>8, <1>9, SendingKeeps DEF Running

\* The ids of a transfer are recorded, for the order of a sender.
LEMMA NotifyKept ==
  ASSUME Shape, NEW o \in OrderIds, orders[o].status # "none", NEW txs,
         orders' = [orders EXCEPT ![o].txs = txs]
  PROVE  /\ DOMAIN orders' = OrderIds
         /\ \A q \in OrderIds :
              /\ DOMAIN orders'[q] = DOMAIN NoOrder
              /\ orders'[q].status = orders[q].status
              /\ orders'[q].txs = IF q = o THEN txs ELSE orders[q].txs
  BY DEF Shape, NoOrder

\* The commit is recorded before it is sent, and the reveal likewise.
LEMMA NotifyKeeps ==
  ASSUME IInv, NEW p \in Procs, NotifyCommit(p) \/ NotifyReveal(p)
  PROVE  IInv'
<1> DEFINE o == proc[p].o
           txs == IF At(p, "notifyCommit") THEN {"commit"} ELSE {"commit", "reveal"}
<1>1. Sends(p) /\ Running(p) /\ Stage(p)
  BY DEF NotifyCommit, NotifyReveal, At, Sends, Running, IInv, Stages
<1>2. o \in OrderIds /\ orders[o].status # "none" /\ "commit" \in txs
  BY <1>1 DEF Stage
<1>3. orders' = [orders EXCEPT ![o].txs = txs] /\ UNCHANGED <<lp, sent>>
  BY DEF NotifyCommit, NotifyReveal, At, book, world
<1>4. /\ Local(p) /\ proc'[p].o = o
      /\ proc'[p].pc = IF At(p, "notifyCommit") THEN "reduce" ELSE "submitReveal"
  BY <1>1, GotoLocal DEF NotifyCommit, NotifyReveal, IInv, Stage, At
<1> HIDE DEF txs
<1>5. /\ DOMAIN orders' = OrderIds
      /\ \A q \in OrderIds :
           /\ DOMAIN orders'[q] = DOMAIN NoOrder
           /\ orders'[q].status = orders[q].status
           /\ orders'[q].txs = IF q = o THEN txs ELSE orders[q].txs
  BY <1>2, <1>3, NotifyKept DEF IInv
<1>6. Shape'
  BY <1>3, <1>4, <1>5 DEF IInv, Shape, Local
<1>7. Records'
  BY <1>2, <1>3, <1>5 DEF IInv, Records
<1>8. Stage(p)'
  <2>1. CASE At(p, "notifyCommit")
    <3>1. sent[o].commit = 0
      BY <1>1, <1>2, <2>1 DEF Stage, IInv, Records
    <3> QED
      BY <1>2, <1>3, <1>4, <1>5, <2>1, <3>1 DEF Stage, At
  <2>2. CASE ~At(p, "notifyCommit")
    <3>1. At(p, "notifyReveal")
      BY <2>2 DEF NotifyCommit, NotifyReveal
    <3> QED
      BY <1>1, <1>2, <1>3, <1>4, <1>5, <2>2, <3>1 DEF Stage, At
  <2> QED
    BY <2>1, <2>2
<1>9. BookKept
  BY <1>3, BookUnchanged DEF IInv
<1> QED
  BY <1>1, <1>4, <1>6, <1>7, <1>8, <1>9, SendingKeeps DEF Running

\* The tokens are counted before the commit is sent.
LEMMA ReduceKeeps ==
  ASSUME IInv, NEW p \in Procs, ReduceTokens(p)
  PROVE  IInv'
<1>1. Sends(p) /\ Running(p) /\ Stage(p) /\ At(p, "reduce")
  BY DEF ReduceTokens, At, Sends, Running, IInv, Stages
<1>2. UNCHANGED <<orders, sent>>
  BY DEF ReduceTokens, world
<1>3. Local(p) /\ proc'[p].o = proc[p].o /\ proc'[p].pc = "submitCommit"
  BY DEF ReduceTokens, IInv, Shape, Local, Idle
<1>4. BookKept
  BY DEF ReduceTokens, BookKept, Write, IInv, Shape, NoLunchpad
<1>5. Shape'
  BY <1>2, <1>3, <1>4, ShapeKept, OrdersUnchanged DEF IInv, Shape, BookKept
<1>6. Records'
  BY <1>2 DEF IInv, Records
<1>7. Stage(p)'
  BY <1>1, <1>2, <1>3 DEF Stage, At
<1> QED
  BY <1>1, <1>3, <1>4, <1>5, <1>6, <1>7, SendingKeeps DEF Running

\* The commit is sent where none was, and the reveal after its commit.
LEMMA SubmitKeeps ==
  ASSUME IInv, NEW p \in Procs, SubmitCommit(p) \/ SubmitReveal(p)
  PROVE  IInv'
<1> DEFINE o == proc[p].o
<1>1. Sends(p) /\ Running(p) /\ Stage(p)
  BY DEF SubmitCommit, SubmitReveal, At, Sends, Running, IInv, Stages
<1>2. o \in OrderIds /\ "commit" \in orders[o].txs
  BY <1>1 DEF Stage, SubmitCommit, SubmitReveal, At
<1>3. UNCHANGED <<lp, orders>>
  BY DEF SubmitCommit, SubmitReveal, book
<1>4. /\ Local(p) /\ proc'[p].o = o
      /\ proc'[p].pc \in {"notifyReveal", "received", "soldOut", "complete"}
      /\ proc'[p].pc = "notifyReveal" => SubmitCommit(p)
  BY GotoLocal DEF SubmitCommit, SubmitReveal, Missed, IInv
<1>5. /\ sent' \in [OrderIds -> [commit: Nat, reveal: Nat]]
      /\ \A q \in OrderIds : q # o => sent'[q] = sent[q]
      /\ sent'[o].commit = 1 /\ sent'[o].reveal <= 1
      /\ SubmitCommit(p) => sent'[o].reveal = 0
  <2>1. sent \in [OrderIds -> [commit: Nat, reveal: Nat]]
    BY DEF IInv, Shape
  <2>2. CASE SubmitCommit(p)
    <3>1. sent[o].commit = 0 /\ sent[o].reveal = 0
      BY <1>1, <1>2, <2>1, <2>2 DEF SubmitCommit, At, Stage, IInv, Records
    <3> QED
      BY <1>2, <2>1, <2>2, <3>1 DEF SubmitCommit
  <2>3. CASE SubmitReveal(p)
    <3>1. sent[o].commit = 1 /\ sent[o].reveal = 0 /\ At(p, "submitReveal")
      BY <1>1, <2>3 DEF SubmitReveal, At, Stage
    <3> QED
      BY <1>2, <2>1, <2>3, <3>1 DEF SubmitReveal, SubmitCommit, At
  <2> QED
    BY <2>2, <2>3
<1>6. Shape'
  BY <1>3, <1>4, <1>5, ShapeKept, OrdersUnchanged DEF IInv, Shape
<1>7. Records'
  BY <1>2, <1>3, <1>5 DEF IInv, Records
<1>8. Sends(p)' => Stage(p)'
  BY <1>1, <1>2, <1>3, <1>4, <1>5 DEF Sends, Stage, At
<1>9. BookKept
  BY <1>3, BookUnchanged DEF IInv
<1> QED
  BY <1>1, <1>4, <1>6, <1>7, <1>8, <1>9, SendingKeeps DEF Running

-----------------------------------------------------------------------------
(* The invariant *)

\* createLunchpad makes the invariant true.
LEMMA InitInv == Init => IInv
  BY DEF Init, IInv, Shape, Entering, RunExclusion, Running, Records, Stages, Sends,
         Idle, NoOrder, NoLunchpad

\* A step that leaves the documents, the transactions sent and the processes alone.
LEMMA Stutter ==
  ASSUME IInv, UNCHANGED <<lp, orders, sent, proc>>
  PROVE  IInv'
  BY DEF IInv, Shape, Entering, RunExclusion, Running, Records, Stages, Sends, Stage, At

\* Every step of the system keeps the invariant.
LEMMA NextInv ==
  ASSUME IInv, [Next]_vars
  PROVE  IInv'
<1>1. ASSUME NEW p \in Procs,
             \/ Requests(p) \/ OwnerSteps(p) \/ OrderSteps(p) \/ StartProcessing(p)
             \/ RunRead(p) \/ RunTokens(p) \/ Stop(p) \/ ReserveLost(p)
      PROVE  IInv'
  BY <1>1, QuietKeeps, RequestsQuiet, OwnerQuiet, OrderQuiet, EnteringQuiet, FailureQuiet
<1>2. ASSUME NEW p \in Procs,
             \/ RunFetch(p) \/ AwaitReceipt(p) \/ SoldOut(p) \/ Complete(p) \/ RunError(p)
             \/ RunFails(p) \/ RunClosing(p)
      PROVE  IInv'
  BY <1>2, WorkingKeeps, RunWorking
<1>3. ASSUME NEW p \in Procs,
             \/ RunStart(p) \/ RunStop(p) \/ RunOrder(p) \/ NotifyCommit(p) \/ NotifyReveal(p)
             \/ ReduceTokens(p) \/ SubmitCommit(p) \/ SubmitReveal(p)
      PROVE  IInv'
  BY <1>3, StartKeeps, StopKeeps, OrderKeeps, NotifyKeeps, ReduceKeeps, SubmitKeeps
<1>4. CASE WaitingKasOrders \/ WaitingSteps
  BY <1>4, WaitingQuiet, QuietKeeps DEF Procs
<1>5. CASE Deposit \/ \E t \in Payments : Pay(t)
  BY <1>5, Stutter DEF Deposit, Pay, book
<1>6. CASE UNCHANGED vars
  BY <1>6, Stutter DEF vars
<1> QED
  BY <1>1, <1>2, <1>3, <1>4, <1>5, <1>6 DEF Next, Continue, RunSteps, Failures

\* The inductive invariant holds in every reachable state.
LEMMA Invariant == Spec => []IInv
  BY InitInv, NextInv, PTL DEF Spec

\* isRunning is a lock: whatever crashes, times out or is read too early, at most
\* one run at a time sends the tokens of a lunchpad, and its round does not end.
THEOREM RunsExclude == Spec => []RunExclusion
<1>1. IInv => RunExclusion
  BY DEF IInv
<1> QED
  BY Invariant, <1>1, PTL

\* The tokens of an order are never sent twice: recording the commit before it is
\* submitted, under the lock, is enough, through any number of runs and crashes.
THEOREM NeverSentTwice == Spec => []TokensSentOnce
<1>1. IInv => TokensSentOnce
  BY DEF IInv, Records, TokensSentOnce
<1> QED
  BY Invariant, <1>1, PTL

-----------------------------------------------------------------------------
(* Payments.  An order comes to hold a payment of its wallet for its units,   *)
(* which no other order holds, before it is verified, and holds one from then *)
(* on: it may be overwritten, never removed (Held).  A request that goes on   *)
(* with a payment read earlier knows that the order holds one (Knows).        *)

SentStatuses == {"PROCESSING", "COMPLETED", "ERROR"}
SoldStatuses == Ready \cup SentStatuses

Held ==
    /\ paid \subseteq Payments
    /\ \A o \in OrderIds :
         /\ orders[o].tx # NoPayment => Pays(orders[o].tx, orders[o]) /\ Unused(orders[o].tx, o)
         /\ orders[o].status \in SoldStatuses => orders[o].tx # NoPayment
         /\ orders[o].status = "none" => orders[o].tx = NoPayment
         /\ sent[o].commit > 0 => orders[o].status \in SentStatuses

Knows(p) ==
    LET o == proc[p].o
    IN /\ proc[p].pc \in {"verLunchpad", "verPayment", "verRecord", "verStatus",
                          "canLunchpad", "canPayment"} =>
             o \in OrderIds /\ orders[o].status # "none"
       /\ /\ proc[p].pc \in {"verLunchpad", "verPayment", "canLunchpad", "canPayment"}
          /\ proc[p].had # NoPayment
          => orders[o].tx # NoPayment
       /\ At(p, "verRecord") => Pays(proc[p].tx, orders[o])
       /\ At(p, "verStatus") => orders[o].tx # NoPayment
       /\ Sends(p) => orders[o].status \in SentStatuses

PInv == IInv /\ Held /\ \A p \in Procs : Knows(p)

\* What an order is as far as its payment goes.
SameOrder(o) ==
    /\ orders'[o].status = orders[o].status /\ orders'[o].tx = orders[o].tx
    /\ orders'[o].units = orders[o].units /\ orders'[o].wallet = orders[o].wallet

\* The ways an order goes.
Created(o) ==
    orders[o].status = "none" /\ orders'[o].status = "WAITING_FOR_KAS" /\ orders'[o].tx = NoPayment

Stays(o) == orders'[o].units = orders[o].units /\ orders'[o].wallet = orders[o].wallet

Recorded(o) ==
    /\ Stays(o) /\ orders'[o].status = orders[o].status /\ orders[o].status # "none"
    /\ Pays(orders'[o].tx, orders[o]) /\ Unused(orders'[o].tx, o)

Verified(o) ==
    /\ Stays(o) /\ orders[o].status = "WAITING_FOR_KAS"
    /\ orders'[o].status = "VERIFIED_AND_WAITING_FOR_PROCESSING"
    /\ Pays(orders'[o].tx, orders[o]) /\ Unused(orders'[o].tx, o)

Cancelled(o) ==
    /\ Stays(o) /\ orders'[o].tx = orders[o].tx
    /\ orders[o].status = "WAITING_FOR_KAS" /\ orders'[o].status = "TOKENS_NOT_SENT"

Processed(o) ==
    /\ Stays(o) /\ orders'[o].tx = orders[o].tx
    /\ orders[o].status \in Ready /\ orders'[o].status \in SentStatuses

OrderStep(o) ==
    /\ paid' = paid /\ sent' = sent
    /\ \A q \in OrderIds \ {o} : SameOrder(q)
    /\ Created(o) \/ Recorded(o) \/ Verified(o) \/ Cancelled(o) \/ Processed(o)

\* No order goes anywhere; payments may come in.
Apart ==
    /\ paid \subseteq paid' /\ paid' \subseteq Payments /\ sent' = sent
    /\ \A q \in OrderIds : SameOrder(q)

\* A transaction of an order being processed is sent.
Sending(o) ==
    /\ paid' = paid /\ orders' = orders /\ orders[o].status \in SentStatuses
    /\ \A q \in OrderIds : q # o => sent'[q] = sent[q]
    /\ \/ sent'[o].reveal = sent[o].reveal
       \/ sent[o].reveal = 0 /\ sent'[o].reveal = 1

Kind == Apart \/ \E o \in OrderIds : OrderStep(o) \/ Sending(o)

\* A created order keeps what processes know of it.
LEMMA KindGoes ==
  ASSUME PInv, Kind, NEW o \in OrderIds, orders[o].status # "none"
  PROVE  /\ Stays(o) /\ orders'[o].status # "none"
         /\ orders[o].tx # NoPayment => orders'[o].tx # NoPayment
         /\ orders[o].status \in SentStatuses => orders'[o].status \in SentStatuses
<1> USE DEF SoldStatuses, SentStatuses, Ready
<1>1. CASE Apart
  BY <1>1 DEF Apart, SameOrder, Stays
<1>2. ASSUME NEW q \in OrderIds, Sending(q)
      PROVE  orders' = orders
  BY <1>2 DEF Sending
<1>3. ASSUME NEW q \in OrderIds, OrderStep(q), q # o
      PROVE  SameOrder(o)
  BY <1>3 DEF OrderStep
<1>4. ASSUME OrderStep(o)
      PROVE  /\ Stays(o) /\ orders'[o].status # "none"
             /\ orders[o].tx # NoPayment => orders'[o].tx # NoPayment
             /\ orders[o].status \in SentStatuses => orders'[o].status \in SentStatuses
  <2>1. NoPayment \notin paid
    BY ConstantsAssumption DEF ConstantsAssumption, PInv, Held
  <2> QED
    BY <1>4, <2>1 DEF OrderStep, Created, Recorded, Verified, Cancelled, Processed, Pays, Stays
<1> QED
  BY <1>1, <1>2, <1>3, <1>4 DEF Kind, SameOrder, Stays

\* What an order holds stays true whichever way orders go.
LEMMA KindHolds ==
  ASSUME PInv, Kind
  PROVE  Held'
<1> USE DEF SoldStatuses, SentStatuses, Ready
<1>0. /\ paid \subseteq paid' /\ paid' \subseteq Payments /\ NoPayment \notin Payments
  BY ConstantsAssumption DEF ConstantsAssumption, PInv, Held, Kind, Apart, OrderStep, Sending
<1>1. CASE Apart
  BY <1>0, <1>1 DEF PInv, Held, Apart, SameOrder, Pays, Unused
<1>2. ASSUME NEW o \in OrderIds, Sending(o)
      PROVE  Held'
  BY <1>0, <1>2 DEF PInv, Held, Sending, Pays, Unused
<1>3. ASSUME NEW o \in OrderIds, OrderStep(o)
      PROVE  Held'
  <2> USE <1>3
  <2>1. \/ orders'[o].tx = NoPayment
        \/ Pays(orders[o].tx, orders[o])' /\ Unused(orders'[o].tx, o)
    <3>1. CASE Created(o)
      BY <3>1 DEF Created
    <3>2. CASE Recorded(o) \/ Verified(o)
      BY <3>2 DEF Recorded, Verified, OrderStep, Stays, Pays
    <3>3. CASE Cancelled(o) \/ Processed(o)
      <4>1. /\ orders'[o].tx = orders[o].tx /\ Stays(o) /\ paid' = paid
            /\ orders[o].tx # NoPayment =>
                 Pays(orders[o].tx, orders[o]) /\ Unused(orders[o].tx, o)
        BY <3>3 DEF Cancelled, Processed, OrderStep, PInv, Held
      <4> QED
        BY <4>1 DEF Stays, Pays
    <3> QED
      BY <3>1, <3>2, <3>3 DEF OrderStep
  <2>2. \A q \in OrderIds \ {o} : orders'[q].tx = orders[q].tx
    BY DEF OrderStep, SameOrder
  <2>3. \A q \in OrderIds : orders'[q].tx # NoPayment => Unused(orders[q].tx, q)'
    <3> SUFFICES ASSUME NEW q \in OrderIds, NEW r \in OrderIds \ {q},
                        orders'[q].tx # NoPayment, orders'[r].tx = orders'[q].tx
                 PROVE  FALSE
      BY DEF Unused
    <3>1. CASE q = o
      BY <2>1, <2>2, <3>1 DEF Unused
    <3>2. CASE r = o
      BY <2>1, <2>2, <3>2 DEF Unused
    <3>3. CASE q # o /\ r # o
      BY <2>2, <3>3 DEF PInv, Held, Unused
    <3> QED
      BY <3>1, <3>2, <3>3
  <2>4. ASSUME NEW q \in OrderIds
        PROVE  /\ orders'[q].tx # NoPayment => Pays(orders[q].tx, orders[q])'
               /\ orders'[q].status \in SoldStatuses => orders'[q].tx # NoPayment
               /\ orders'[q].status = "none" => orders'[q].tx = NoPayment
               /\ sent'[q].commit > 0 => orders'[q].status \in SentStatuses
    <3>1. CASE q = o
      BY <1>0, <2>1, <3>1 DEF PInv, Held, OrderStep, Created, Recorded, Verified, Cancelled,
                              Processed, Stays, Pays
    <3>2. CASE q # o
      BY <3>2 DEF PInv, Held, OrderStep, SameOrder, Pays
    <3> QED
      BY <3>1, <3>2
  <2> QED
    BY <1>0, <2>3, <2>4 DEF Held
<1> QED
  BY <1>1, <1>2, <1>3 DEF Kind

\* So the step of a process keeps the invariant if the process knows what it has to.
LEMMA KindKeeps ==
  ASSUME PInv, IInv', NEW p \in Procs, Local(p), Kind, Knows(p)'
  PROVE  PInv'
<1>1. ASSUME NEW q \in Procs, q # p
      PROVE  Knows(q)'
  <2> DEFINE o == proc[q].o
  <2>1. proc'[q] = proc[q] /\ Knows(q)
    BY <1>1 DEF Local, PInv
  <2>2. Sends(q) => o \in OrderIds /\ orders[o].status # "none"
    BY DEF PInv, IInv, Stages, Stage
  <2>3. paid \subseteq paid'
    BY DEF Kind, Apart, OrderStep, Sending
  <2> QED
    BY <2>1, <2>2, <2>3, KindGoes DEF Knows, At, Sends, Pays, Stays
<1> QED
  BY <1>1, KindHolds DEF PInv

-----------------------------------------------------------------------------
(* The steps, by what they do to an order *)

Minds == {"verLunchpad", "verPayment", "verRecord", "verStatus", "canLunchpad", "canPayment"}

LEMMA NothingToKnow ==
  ASSUME NEW p \in Procs, proc'[p].pc \notin Minds, ~Sends(p)'
  PROVE  Knows(p)'
  BY DEF Knows, Minds, At

LEMMA ApartWhen ==
  ASSUME PInv, UNCHANGED <<orders, sent>>, paid \subseteq paid', paid' \subseteq Payments
  PROVE  Kind
  BY DEF Apart, Kind, SameOrder

\* The owner, reservations up to their commit, cancellations of units, and the entry of a run.
LEMMA ApartQuiet ==
  ASSUME PInv, NEW p \in Procs,
         \/ StartLunchpad(p) \/ StopLunchpad(p) \/ RetrieveFunds(p)
         \/ \E w \in Wallets, u \in MinUnits..MaxUnits : CreateOrder(p, w, u)
         \/ OwnerSteps(p)
         \/ ReserveLock(p) \/ ReserveWallet(p)
         \/ CancelLock(p) \/ CancelUnits(p)
         \/ StartProcessing(p) \/ RunRead(p) \/ RunTokens(p) \/ Stop(p)
  PROVE  Quiet(p) /\ Kind /\ proc'[p].pc \notin Minds
<1>0. IInv /\ Shape
  BY DEF PInv, IInv
<1>1. UNCHANGED <<orders, paid, sent>>
  BY DEF StartLunchpad, StopLunchpad, RetrieveFunds, CreateOrder, OwnerSteps, StartTokens,
         StartStatus, StopStatus, OpenOrders, Inactivate, RetrieveOpenOrders, RetrieveMove,
         ReserveLock, ReserveWallet, CancelLock, CancelUnits, StartProcessing,
         RunRead, RunTokens, Stop, world
<1>2. Kind
  BY <1>1, ApartWhen DEF PInv, Held
<1>3. Quiet(p)
  BY <1>0, RequestsQuiet, OwnerQuiet, OrderQuiet, EnteringQuiet, FailureQuiet
     DEF Requests, OrderSteps
<1> SUFFICES proc'[p].pc \notin Minds
  BY <1>2, <1>3
<1>4. ASSUME NEW j, j.pc \notin Minds, proc' = [proc EXCEPT ![p] = j]
      PROVE  proc'[p].pc \notin Minds
  BY <1>0, <1>4 DEF Shape
<1>5. ASSUME NEW l, l \notin Minds, Goto(p, l)
      PROVE  proc'[p].pc \notin Minds
  BY <1>0, <1>5, GotoLocal
<1>6. ASSUME NEW doc, End(p) \/ Return(p) \/ CloseIfStopping(p, doc)
      PROVE  proc'[p].pc \notin Minds
  BY <1>0, <1>6, EndLocal, ReturnLocal, CloseLocal DEF Minds, Shape
<1>7. CASE StartLunchpad(p) \/ StopLunchpad(p) \/ RetrieveFunds(p)
  <2>1. CASE StartLunchpad(p)
    BY <1>0, <2>1 DEF StartLunchpad, Shape, Idle, Minds
  <2>2. CASE StopLunchpad(p)
    BY <1>0, <2>2 DEF StopLunchpad, Shape, Idle, Minds
  <2>3. CASE RetrieveFunds(p)
    BY <1>0, <2>3 DEF RetrieveFunds, Shape, Idle, Minds
  <2> QED
    BY <1>7, <2>1, <2>2, <2>3
<1>8. ASSUME NEW w \in Wallets, NEW u \in MinUnits..MaxUnits, CreateOrder(p, w, u)
      PROVE  proc'[p].pc \notin Minds
  BY <1>0, <1>8 DEF CreateOrder, Shape, Idle, Minds
<1>9. CASE OwnerSteps(p)
  <2>1. CASE StartTokens(p)
    <3>1. CASE End(p)
      BY <1>6, <3>1
    <3>2. CASE proc' = [proc EXCEPT ![p].pc = "startStatus", ![p].n = stock]
      BY <1>0, <3>2 DEF Shape, Idle, Minds
    <3> QED
      BY <2>1, <3>1, <3>2 DEF StartTokens
  <2>2. CASE StartStatus(p) \/ RetrieveMove(p)
    BY <1>6, <2>2 DEF StartStatus, RetrieveMove
  <2>3. CASE StopStatus(p) \/ Inactivate(p)
    BY <1>6, <2>3 DEF StopStatus, Inactivate
  <2>4. CASE OpenOrders(p) \/ RetrieveOpenOrders(p)
    BY <1>5, <1>6, <2>4 DEF OpenOrders, RetrieveOpenOrders, Minds
  <2> QED
    BY <1>9, <2>1, <2>2, <2>3, <2>4 DEF OwnerSteps
<1>10. CASE ReserveLock(p)
  BY <1>0, <1>6, <1>10 DEF ReserveLock, Shape, Idle, Minds
<1>11. CASE ReserveWallet(p)
  <2>1. CASE End(p)
    BY <1>6, <2>1
  <2>2. CASE proc' = [proc EXCEPT ![p].pc = "resCommit", ![p].n = Granted(p)]
    BY <1>0, <2>2 DEF Shape, Idle, Minds
  <2> QED
    BY <1>11, <2>1, <2>2 DEF ReserveWallet
<1>12. CASE CancelLock(p) \/ CancelUnits(p)
  BY <1>5, <1>6, <1>12 DEF CancelLock, CancelUnits, Minds
<1>13. CASE StartProcessing(p) \/ RunRead(p)
  <2>1. CASE End(p)
    BY <1>6, <2>1
  <2>2. CASE EnterRun(p)
    BY <1>0, <2>2 DEF EnterRun, Shape, Idle, Minds
  <2> QED
    BY <1>13, <2>1, <2>2 DEF StartProcessing, RunRead
<1>14. CASE RunTokens(p) \/ Stop(p)
  BY <1>5, <1>6, <1>14 DEF RunTokens, Stop, Minds
<1> QED
  BY <1>7, <1>8, <1>9, <1>10, <1>11, <1>12, <1>13, <1>14

\* The steps of the five-minute job but for its matches.
LEMMA ApartWaiting ==
  ASSUME PInv, WaitingKasOrders \/ WaitingOrders \/ UsedTransactions \/ FreeUtxos \/ CancelWaiting
  PROVE  Quiet(Cron) /\ Kind /\ proc'[Cron].pc \notin Minds
<1>0. IInv /\ Shape /\ Cron \in Procs
  BY DEF PInv, IInv, Procs
<1>1. UNCHANGED <<orders, paid, sent>>
  BY DEF WaitingKasOrders, WaitingOrders, UsedTransactions, FreeUtxos, CancelWaiting, world
<1>2. Kind
  BY <1>1, ApartWhen DEF PInv, Held
<1>3. Quiet(Cron)
  BY <1>0, WaitingQuiet DEF WaitingSteps
<1> SUFFICES proc'[Cron].pc \notin Minds
  BY <1>2, <1>3
<1>4. CASE WaitingKasOrders \/ WaitingOrders \/ UsedTransactions \/ FreeUtxos
  <2>1. CASE WaitingKasOrders
    BY <1>0, <2>1 DEF WaitingKasOrders, Shape, Idle, Minds
  <2>2. CASE WaitingOrders
    BY <1>0, <2>2 DEF WaitingOrders, Shape, Idle, Minds
  <2>3. CASE UsedTransactions
    BY <1>0, <2>3 DEF UsedTransactions, Shape, Idle, Minds
  <2>4. CASE FreeUtxos
    BY <1>0, <2>4 DEF FreeUtxos, Shape, Idle, Minds
  <2> QED
    BY <1>4, <2>1, <2>2, <2>3, <2>4
<1>5. CASE CancelWaiting
  <2>1. \E l \in {"runRead", "canLock"} : proc'[Cron].pc = l
    <3>1. CASE proc[Cron].list = {}
      BY <1>0, <1>5, <3>1 DEF CancelWaiting, Shape, Idle
    <3>2. CASE proc[Cron].list # {}
      <4>1. PICK o : proc' = [proc EXCEPT ![Cron].pc = "canLock", ![Cron].o = o, ![Cron].list = @ \ {o}]
        BY <1>5, <3>2 DEF CancelWaiting
      <4> QED
        BY <1>0, <4>1 DEF Shape, Idle
    <3> QED
      BY <3>1, <3>2
  <2> QED
    BY <2>1 DEF Minds
<1> QED
  BY <1>4, <1>5

\* The steps of a run that leave the orders alone.
LEMMA ApartRun ==
  ASSUME PInv, NEW p \in Procs,
         \/ RunFetch(p) \/ AwaitReceipt(p) \/ SoldOut(p) \/ RunFails(p) \/ RunClosing(p)
         \/ RunStart(p) \/ RunStop(p)
  PROVE  Local(p) /\ Kind /\ proc'[p].pc \notin Minds /\ ~Sends(p)'
<1>0. IInv /\ Shape
  BY DEF PInv, IInv
<1>1. UNCHANGED <<orders, paid, sent>>
  BY DEF RunFetch, AwaitReceipt, SoldOut, RunFails, RunClosing, RunStart, RunStop, world
<1>2. Kind
  BY <1>1, ApartWhen DEF PInv, Held
<1>3. CASE RunFetch(p) \/ AwaitReceipt(p) \/ SoldOut(p) \/ RunFails(p) \/ RunClosing(p)
  <2>1. Working(p)
    BY <1>0, <1>3, RunWorking
  <2> QED
    BY <1>2, <2>1 DEF Working, Running, Minds
<1>4. CASE RunStart(p)
  <2>1. CASE End(p)
    BY <1>0, <1>2, <2>1, EndLocal DEF Sends, Minds
  <2>2. CASE proc' = [proc EXCEPT ![p] = [Idle EXCEPT !.pc = "runFetch", !.round = proc[p].round]]
    <3> DEFINE j == [Idle EXCEPT !.pc = "runFetch", !.round = proc[p].round]
    <3>1. DOMAIN j = DOMAIN Idle /\ j.pc = "runFetch" /\ j.list = {} /\ j.back = "idle"
      BY DEF Idle
    <3>2. Local(p) /\ proc'[p].pc = "runFetch"
      BY <1>0, <2>2, <3>1, SetLocal
    <3> QED
      BY <1>2, <3>2 DEF Sends, Minds
  <2> QED
    BY <1>4, <2>1, <2>2 DEF RunStart
<1>5. CASE RunStop(p)
  <2> DEFINE j == IF lp.status = "STOPPING"
                  THEN [Idle EXCEPT !.pc = "openOrders", !.round = lp.round] ELSE Idle
  <2>1. DOMAIN j = DOMAIN Idle /\ j.pc \in {"openOrders", "idle"} /\ j.list = {} /\ j.back = "idle"
    BY DEF Idle
  <2>2. End(p) \/ proc' = [proc EXCEPT ![p] = j]
    BY <1>5 DEF RunStop
  <2> HIDE DEF j
  <2>3. Local(p) /\ proc'[p].pc \in {"openOrders", "idle"}
    BY <1>0, <2>1, <2>2, SetLocal, EndLocal
  <2> QED
    BY <1>2, <2>3 DEF Sends, Minds
<1> QED
  BY <1>3, <1>4, <1>5

\* A process that goes on remembers.
LEMMA GotoRemembers ==
  ASSUME Shape, NEW p \in Procs, NEW l, Goto(p, l)
  PROVE  /\ proc'[p].pc = l /\ proc'[p].o = proc[p].o
         /\ proc'[p].had = proc[p].had /\ proc'[p].tx = proc[p].tx
  BY DEF Shape, Goto, Idle

\* A transition of one order.
LEMMA TransitionGoes ==
  ASSUME Shape, NEW o, NEW required, NEW new, OrderTransition(o, required, new)
  PROVE  \A q \in OrderIds :
           /\ orders'[q].tx = orders[q].tx /\ Stays(q)
           /\ orders'[q].status = IF q = o THEN new ELSE orders[q].status
  BY DEF Shape, OrderTransition, Stays, NoOrder

\* The requests about an order: the verification and the cancellation.
LEMMA AskingKnows ==
  ASSUME PInv, NEW p \in Procs,
         \/ \E o \in OrderIds : CancelOrder(p, o) \/ \E t \in paid : VerifyOrder(p, o, t)
         \/ VerifyLunchpad(p) \/ VerifyPayment(p) \/ CancelLunchpad(p) \/ CancelPayment(p)
  PROVE  Quiet(p) /\ Kind /\ Knows(p)'
<1>0. IInv /\ Shape /\ Knows(p) /\ paid \subseteq Payments /\ NoPayment \notin Payments
  BY ConstantsAssumption DEF ConstantsAssumption, PInv, IInv, Held
<1>1. UNCHANGED <<orders, paid, sent>>
  BY DEF CancelOrder, VerifyOrder, VerifyLunchpad, VerifyPayment, CancelLunchpad, CancelPayment,
         world
<1>2. Kind
  BY <1>0, <1>1, ApartWhen
<1>3. Quiet(p)
  BY <1>0, RequestsQuiet, OrderQuiet DEF Requests, OrderSteps
<1>4. ~Sends(p)'
  BY <1>3 DEF Quiet, Running, Sends
<1> SUFFICES Knows(p)'
  BY <1>2, <1>3
<1>5. ASSUME NEW o \in OrderIds, NEW t \in paid, VerifyOrder(p, o, t)
      PROVE  Knows(p)'
  <2> DEFINE j == [Idle EXCEPT !.pc = "verLunchpad", !.o = o, !.had = orders[o].tx, !.tx = t]
  <2>1. j.pc = "verLunchpad" /\ j.o = o /\ j.had = orders[o].tx
    BY DEF Idle
  <2>2. proc'[p] = j
    BY <1>0, <1>5 DEF VerifyOrder, Shape
  <2> HIDE DEF j
  <2>3. orders[o].status # "none"
    BY <1>5 DEF VerifyOrder
  <2> QED
    BY <1>1, <1>4, <2>1, <2>2, <2>3 DEF Knows, At
<1>6. ASSUME NEW o \in OrderIds, CancelOrder(p, o)
      PROVE  Knows(p)'
  <2> DEFINE j == [Idle EXCEPT !.pc = "canLunchpad", !.o = o, !.had = orders[o].tx]
  <2>1. j.pc = "canLunchpad" /\ j.o = o /\ j.had = orders[o].tx
    BY DEF Idle
  <2>2. proc'[p] = j
    BY <1>0, <1>6 DEF CancelOrder, Shape
  <2> HIDE DEF j
  <2>3. orders[o].status # "none"
    BY <1>6 DEF CancelOrder
  <2> QED
    BY <1>1, <1>4, <2>1, <2>2, <2>3 DEF Knows, At
<1>7. CASE End(p)
  BY <1>0, <1>7, EndLocal, NothingToKnow DEF Minds, Sends
<1>8. CASE VerifyLunchpad(p)
  <2>1. CASE Goto(p, "verPayment")
    BY <1>0, <1>1, <1>8, <2>1, GotoRemembers DEF VerifyLunchpad, Knows, At, Sends
  <2> QED
    BY <1>7, <1>8, <2>1 DEF VerifyLunchpad
<1>9. CASE VerifyPayment(p)
  <2>1. CASE Pays(proc[p].tx, orders[proc[p].o]) /\ ~End(p)
    <3>1. Goto(p, IF proc[p].had = NoPayment THEN "verRecord" ELSE "verStatus")
      BY <1>9, <2>1 DEF VerifyPayment
    <3>2. /\ proc'[p].pc = IF proc[p].had = NoPayment THEN "verRecord" ELSE "verStatus"
          /\ proc'[p].o = proc[p].o /\ proc'[p].tx = proc[p].tx
      BY <1>0, <3>1, GotoRemembers
    <3>3. At(p, "verPayment")
      BY <1>9 DEF VerifyPayment
    <3> QED
      BY <1>0, <1>1, <2>1, <3>2, <3>3 DEF Knows, At, Sends, Pays
  <2> QED
    BY <1>7, <1>9, <2>1 DEF VerifyPayment
<1>10. CASE CancelLunchpad(p)
  <2>1. CASE Goto(p, "canPayment")
    BY <1>0, <1>1, <1>10, <2>1, GotoRemembers DEF CancelLunchpad, Knows, At, Sends
  <2> QED
    BY <1>7, <1>10, <2>1 DEF CancelLunchpad
<1>11. CASE CancelPayment(p)
  <2>1. CASE Pays(proc[p].had, orders[proc[p].o])
    <3>1. proc'[p].pc = "verStatus" /\ proc'[p].o = proc[p].o /\ At(p, "canPayment")
      BY <1>0, <1>11, <2>1, GotoRemembers DEF CancelPayment
    <3>2. proc[p].had # NoPayment
      BY <1>0, <2>1 DEF Pays
    <3> QED
      BY <1>0, <1>1, <3>1, <3>2 DEF Knows, At, Sends
  <2>2. CASE ~Pays(proc[p].had, orders[proc[p].o])
    <3>1. proc'[p].pc = "canLock"
      BY <1>0, <1>11, <2>2, GotoRemembers DEF CancelPayment
    <3> QED
      BY <1>4, <3>1, NothingToKnow DEF Minds
  <2> QED
    BY <2>1, <2>2
<1> QED
  BY <1>5, <1>6, <1>8, <1>9, <1>10, <1>11

\* The steps of these requests that write: the payment is recorded if no order has it, and an
\* order is verified only with one.
LEMMA WritingKnows ==
  ASSUME PInv, NEW p \in Procs, VerifyRecord(p) \/ VerifyStatus(p) \/ CancelStatus(p)
  PROVE  Quiet(p) /\ Kind /\ Knows(p)'
<1> DEFINE o == proc[p].o
<1>0. IInv /\ Shape /\ Knows(p) /\ Held
  BY DEF PInv, IInv
<1>1. Quiet(p) /\ UNCHANGED <<paid, sent>> /\ paid \subseteq Payments
  BY <1>0, OrderQuiet DEF OrderSteps, VerifyRecord, VerifyStatus, CancelStatus, world, Held
<1>2. ~Sends(p)'
  BY <1>1 DEF Quiet, Running, Sends
<1>3. UNCHANGED orders => Kind
  BY <1>1, ApartWhen
<1>4. CASE VerifyRecord(p)
  <2>1. CASE ~Unused(proc[p].tx, o)
    BY <1>0, <1>1, <1>2, <1>3, <1>4, <2>1, EndLocal, NothingToKnow DEF VerifyRecord, Minds
  <2>2. CASE Unused(proc[p].tx, o)
    <3>1. /\ o \in OrderIds /\ orders[o].status # "none" /\ Pays(proc[p].tx, orders[o])
          /\ orders' = [orders EXCEPT ![o].tx = proc[p].tx]
      BY <1>0, <1>4, <2>2 DEF VerifyRecord, Knows, At
    <3>2. /\ \A q \in OrderIds \ {o} : SameOrder(q)
          /\ Stays(o) /\ orders'[o].status = orders[o].status /\ orders'[o].tx = proc[p].tx
      BY <1>0, <3>1 DEF Shape, SameOrder, Stays, NoOrder
    <3>3. Kind
      BY <1>1, <2>2, <3>1, <3>2 DEF Kind, OrderStep, Recorded
    <3>4. proc'[p].pc = "verStatus" /\ proc'[p].o = o
      <4> DEFINE j == [Idle EXCEPT !.pc = "verStatus", !.o = o]
      <4>1. j.pc = "verStatus" /\ j.o = o
        BY DEF Idle
      <4>2. proc'[p] = j
        BY <1>0, <1>4, <2>2 DEF VerifyRecord, Shape
      <4> QED
        BY <4>1, <4>2
    <3>5. orders'[o].tx # NoPayment
      BY <1>1, <3>1, <3>2, ConstantsAssumption DEF ConstantsAssumption, Pays
    <3> QED
      BY <1>1, <1>2, <3>1, <3>2, <3>3, <3>4, <3>5 DEF Knows, At
  <2> QED
    BY <2>1, <2>2
<1>5. CASE VerifyStatus(p)
  <2>1. Knows(p)'
    BY <1>0, <1>2, <1>5, EndLocal, NothingToKnow DEF VerifyStatus, Minds
  <2>2. CASE OrderTransition(o, "WAITING_FOR_KAS", "VERIFIED_AND_WAITING_FOR_PROCESSING")
    <3>1. /\ o \in OrderIds /\ orders[o].tx # NoPayment /\ orders[o].status = "WAITING_FOR_KAS"
      BY <1>0, <1>5, <2>2 DEF VerifyStatus, Knows, At, OrderTransition
    <3>2. Pays(orders[o].tx, orders[o]) /\ Unused(orders[o].tx, o)
      BY <1>0, <3>1 DEF Held
    <3>3. \A q \in OrderIds :
            /\ orders'[q].tx = orders[q].tx /\ Stays(q)
            /\ orders'[q].status
                 = IF q = o THEN "VERIFIED_AND_WAITING_FOR_PROCESSING" ELSE orders[q].status
      BY <1>0, <2>2, TransitionGoes
    <3>4. OrderStep(o)
      BY <1>1, <3>1, <3>2, <3>3 DEF OrderStep, Verified, SameOrder, Stays
    <3> QED
      BY <1>1, <2>1, <3>1, <3>4 DEF Kind
  <2> QED
    BY <1>1, <1>3, <1>5, <2>1, <2>2 DEF VerifyStatus
<1>6. CASE CancelStatus(p)
  <2>1. proc'[p].pc \notin Minds
    BY <1>0, <1>6, GotoLocal, ReturnLocal DEF CancelStatus, Minds, Shape
  <2>2. CASE OrderTransition(o, "WAITING_FOR_KAS", "TOKENS_NOT_SENT") /\ o \in OrderIds
    <3>0. orders[o].status = "WAITING_FOR_KAS"
      BY <2>2 DEF OrderTransition
    <3>1. \A q \in OrderIds :
            /\ orders'[q].tx = orders[q].tx /\ Stays(q)
            /\ orders'[q].status = IF q = o THEN "TOKENS_NOT_SENT" ELSE orders[q].status
      BY <1>0, <2>2, TransitionGoes
    <3>2. OrderStep(o)
      BY <1>1, <3>0, <3>1, <2>2 DEF OrderStep, Cancelled, SameOrder, Stays
    <3> QED
      BY <1>1, <1>2, <2>1, <2>2, <3>2, NothingToKnow DEF Kind
  <2>3. CASE OrderTransition(o, "WAITING_FOR_KAS", "TOKENS_NOT_SENT") /\ o \notin OrderIds
    <3>1. \A q \in OrderIds : SameOrder(q)
      BY <1>0, <2>3, TransitionGoes DEF SameOrder, Stays
    <3> QED
      BY <1>1, <1>2, <2>1, <3>1, NothingToKnow DEF Kind, Apart
  <2> QED
    BY <1>1, <1>2, <1>3, <1>6, <2>1, <2>2, <2>3, NothingToKnow DEF CancelStatus
<1> QED
  BY <1>4, <1>5, <1>6

\* An order is created without a payment.
LEMMA ReservingKnows ==
  ASSUME PInv, NEW p \in Procs, ReserveCommit(p) \/ ReserveLost(p)
  PROVE  Quiet(p) /\ Kind /\ Knows(p)'
<1>0. IInv /\ Shape
  BY DEF PInv, IInv
<1>1. /\ NewOrder(p) /\ proc'[p].pc = "idle" /\ UNCHANGED <<paid, sent>>
  BY <1>0, EndLocal DEF ReserveCommit, ReserveLost, world
<1>2. Quiet(p)
  BY <1>0, OrderQuiet, FailureQuiet DEF OrderSteps
<1>3. PICK o \in OrderIds :
        /\ orders[o].status = "none"
        /\ orders' = [orders EXCEPT ![o] = [NoOrder EXCEPT
                        !.status = "WAITING_FOR_KAS", !.units = proc[p].n,
                        !.wallet = proc[p].w, !.round = lp.round]]
  BY <1>1 DEF NewOrder, Oldest, OfRound
<1> DEFINE d == [NoOrder EXCEPT !.status = "WAITING_FOR_KAS", !.units = proc[p].n,
                                !.wallet = proc[p].w, !.round = lp.round]
<1>4. d.tx = NoPayment /\ d.status = "WAITING_FOR_KAS"
  BY DEF NoOrder
<1>5. orders' = [orders EXCEPT ![o] = d]
  BY <1>3
<1> HIDE DEF d
<1>6. OrderStep(o)
  BY <1>0, <1>1, <1>3, <1>4, <1>5 DEF Shape, OrderStep, Created, SameOrder
<1> QED
  BY <1>1, <1>2, <1>6, NothingToKnow DEF Kind, Minds, Quiet, Running, Sends

\* A match verifies at most one order, the oldest, with a payment no other order has.
LEMMA MatchingKnows ==
  ASSUME PInv, MatchUtxo
  PROVE  Quiet(Cron) /\ Kind /\ Knows(Cron)'
<1>0. IInv /\ Shape /\ Cron \in Procs /\ paid \subseteq Payments /\ UNCHANGED <<paid, sent>>
  BY DEF PInv, IInv, Procs, Held, MatchUtxo, world
<1>1. Quiet(Cron)
  BY <1>0, WaitingQuiet DEF WaitingSteps
<1>2. Knows(Cron)'
  <2>1. ASSUME NEW t, NEW done,
               proc' = [proc EXCEPT ![Cron].free = @ \ {t}, ![Cron].list = @ \ done]
        PROVE  proc'[Cron].pc = proc[Cron].pc
    BY <1>0, <2>1 DEF Shape, Idle
  <2>2. proc'[Cron].pc \in {"wMatch", "wCancel", "idle"}
    <3>1. CASE Goto(Cron, "wCancel") \/ End(Cron)
      BY <1>0, <3>1, GotoLocal, EndLocal
    <3>2. CASE ~(Goto(Cron, "wCancel") \/ End(Cron))
      BY <2>1, <3>2 DEF MatchUtxo, At
    <3> QED
      BY <3>1, <3>2
  <2> QED
    BY <1>0, <2>2, NothingToKnow DEF Minds, Sends
<1>3. CASE UNCHANGED orders
  BY <1>0, <1>1, <1>2, <1>3, ApartWhen
<1>4. CASE ~UNCHANGED orders
  <2> DEFINE matching(t) == Oldest({o \in proc[Cron].list : Pays(t, orders[o])})
             done(t) == {o \in matching(t) : Unused(t, o) /\ orders[o].status = "WAITING_FOR_KAS"}
             verified(t, o) == [orders[o] EXCEPT !.tx = t,
                                  !.status = "VERIFIED_AND_WAITING_FOR_PROCESSING"]
  <2>1. PICK t : orders' = [o \in OrderIds |->
                   IF o \in done(t) THEN verified(t, o) ELSE orders[o]]
    BY <1>4 DEF MatchUtxo
  <2>2. \A o \in done(t) : /\ o \in OrderIds /\ Pays(t, orders[o]) /\ Unused(t, o)
                           /\ orders[o].status = "WAITING_FOR_KAS"
                           /\ \A q \in done(t) : o <= q
    BY <1>0 DEF Oldest, Shape
  <2>3. \A o \in done(t), q \in done(t) : o = q
    <3>1. \A o \in done(t) : o \in Int
      BY <2>2 DEF OrderIds
    <3> HIDE DEF done
    <3> QED
      BY <2>2, <3>1
  <2>4. \A o \in OrderIds :
          /\ verified(t, o).tx = t /\ verified(t, o).units = orders[o].units
          /\ verified(t, o).wallet = orders[o].wallet
          /\ verified(t, o).status = "VERIFIED_AND_WAITING_FOR_PROCESSING"
    BY <1>0 DEF Shape, NoOrder
  <2> HIDE DEF done, verified
  <2>5. \A q \in OrderIds : q \notin done(t) => SameOrder(q)
    BY <2>1 DEF SameOrder
  <2>6. CASE done(t) = {}
    BY <1>0, <1>1, <1>2, <2>5, <2>6 DEF Kind, Apart
  <2>7. ASSUME NEW o \in done(t)
        PROVE  Kind
    <3>1. o \in OrderIds /\ \A q \in OrderIds \ {o} : SameOrder(q)
      BY <2>2, <2>3, <2>5
    <3>2. Verified(o)
      BY <2>1, <2>2, <2>4, <3>1 DEF Verified, Stays
    <3> QED
      BY <1>0, <3>1, <3>2 DEF Kind, OrderStep
  <2> QED
    BY <1>1, <1>2, <2>6, <2>7
<1> QED
  BY <1>3, <1>4

\* The steps of a run: the order it works on has been verified.
LEMMA ProcessingKnows ==
  ASSUME PInv, NEW p \in Procs, RunOrder(p) \/ Complete(p) \/ RunError(p)
  PROVE  Local(p) /\ Kind /\ Knows(p)'
<1>0. /\ IInv /\ Shape /\ paid \subseteq Payments /\ UNCHANGED <<paid, sent>>
  BY DEF PInv, IInv, Held, RunOrder, Complete, RunError, world
<1>1. UNCHANGED orders => Kind
  BY <1>0, ApartWhen
<1>2. ASSUME NEW o, NEW required \in Ready, NEW new \in SentStatuses,
             OrderTransition(o, required, new)
      PROVE  /\ Kind /\ (o \in OrderIds => orders'[o].status = new)
  <2>1. orders[o].status = required
    BY <1>2 DEF OrderTransition
  <2>2. \A q \in OrderIds :
          /\ orders'[q].tx = orders[q].tx /\ Stays(q)
          /\ orders'[q].status = IF q = o THEN new ELSE orders[q].status
    BY <1>0, <1>2, TransitionGoes
  <2>3. CASE o \in OrderIds
    <3>1. OrderStep(o)
      BY <1>0, <1>2, <2>1, <2>2, <2>3 DEF OrderStep, Processed, SameOrder, Stays
    <3> QED
      BY <2>2, <2>3, <3>1 DEF Kind
  <2>4. CASE o \notin OrderIds
    BY <1>0, <2>2, <2>4 DEF Kind, Apart, SameOrder, Stays
  <2> QED
    BY <2>3, <2>4
<1>3. CASE RunOrder(p)
  <2>1. PICK o \in proc[p].list, required \in {"PROCESSING", "VERIFIED_AND_WAITING_FOR_PROCESSING"} :
          \/ /\ OrderTransition(o, required, "PROCESSING")
             /\ proc' = [proc EXCEPT ![p].o = o,
                   ![p].pc = IF "commit" \in orders[o].txs THEN "received" ELSE "notifyCommit"]
          \/ /\ proc' = [proc EXCEPT ![p].o = o, ![p].pc = "runError"]
             /\ UNCHANGED orders
    BY <1>3 DEF RunOrder, Oldest
  <2>2. ASSUME NEW l, proc' = [proc EXCEPT ![p].o = o, ![p].pc = l]
        PROVE  Local(p) /\ proc'[p].pc = l /\ proc'[p].o = o
    BY <1>0, <2>2 DEF Shape, Local, Idle
  <2>3. o \in OrderIds
    BY <1>0 DEF Shape
  <2>4. CASE proc' = [proc EXCEPT ![p].o = o, ![p].pc = "runError"] /\ UNCHANGED orders
    <3>1. Local(p) /\ proc'[p].pc = "runError"
      BY <2>2, <2>4
    <3> QED
      BY <1>1, <2>4, <3>1, NothingToKnow DEF Sends, Minds
  <2>5. CASE /\ OrderTransition(o, required, "PROCESSING")
             /\ proc' = [proc EXCEPT ![p].o = o,
                   ![p].pc = IF "commit" \in orders[o].txs THEN "received" ELSE "notifyCommit"]
    <3>1. Kind /\ orders'[o].status = "PROCESSING"
      BY <1>2, <2>3, <2>5 DEF Ready, SentStatuses
    <3>2. Local(p) /\ proc'[p].pc \in {"received", "notifyCommit"} /\ proc'[p].o = o
      BY <2>2, <2>5
    <3> QED
      BY <3>1, <3>2 DEF Knows, At, Sends, SentStatuses
  <2> QED
    BY <2>1, <2>4, <2>5
<1>4. CASE Complete(p) \/ RunError(p)
  <2>1. Working(p)
    BY <1>0, <1>4, RunWorking
  <2>2. Local(p) /\ Knows(p)'
    BY <2>1, NothingToKnow DEF Working, Running, Minds
  <2>3. \/ UNCHANGED orders
        \/ \E new \in SentStatuses : OrderTransition(proc[p].o, "PROCESSING", new)
    BY <1>4 DEF Complete, RunError, SentStatuses
  <2> QED
    BY <1>1, <1>2, <2>2, <2>3 DEF Ready
<1> QED
  BY <1>3, <1>4

LEMMA SendingKnows ==
  ASSUME PInv, NEW p \in Procs,
         NotifyCommit(p) \/ NotifyReveal(p) \/ ReduceTokens(p) \/ SubmitCommit(p) \/ SubmitReveal(p)
  PROVE  Local(p) /\ Kind /\ Knows(p)'
<1> DEFINE o == proc[p].o
<1>0. /\ IInv /\ Shape /\ paid \subseteq Payments /\ UNCHANGED paid
      /\ Sends(p) /\ Knows(p) /\ Stage(p)
  BY DEF PInv, IInv, Held, Stages, NotifyCommit, NotifyReveal, ReduceTokens, SubmitCommit,
         SubmitReveal, world, Sends, At
<1>1. o \in OrderIds /\ orders[o].status \in SentStatuses
  BY <1>0 DEF Stage, Knows
<1>2. CASE NotifyCommit(p) \/ NotifyReveal(p)
  <2>1. PICK txs : orders' = [orders EXCEPT ![o].txs = txs]
    BY <1>2 DEF NotifyCommit, NotifyReveal
  <2>2. \A q \in OrderIds : SameOrder(q)
    BY <1>0, <1>1, <2>1 DEF Shape, SameOrder, NoOrder
  <2>3. Kind
    BY <1>0, <1>2, <2>2 DEF Kind, Apart, NotifyCommit, NotifyReveal, world
  <2>4. /\ Local(p) /\ proc'[p].o = o
        /\ proc'[p].pc \in {"submitCommit", "reduce", "submitReveal"}
    BY <1>0, <1>2, GotoLocal DEF NotifyCommit, NotifyReveal
  <2> QED
    BY <1>1, <2>2, <2>3, <2>4 DEF Knows, At, SameOrder
<1>3. CASE ReduceTokens(p)
  <2>1. Local(p) /\ proc'[p].o = o /\ proc'[p].pc = "submitCommit"
    BY <1>0, <1>3 DEF ReduceTokens, Shape, Local, Idle
  <2>2. Kind /\ orders' = orders
    BY <1>0, <1>3, ApartWhen DEF ReduceTokens, world
  <2> QED
    BY <1>1, <2>1, <2>2 DEF Knows, At
<1>4. CASE SubmitCommit(p) \/ SubmitReveal(p)
  <2>1. /\ Local(p) /\ proc'[p].o = o
        /\ proc'[p].pc \in {"notifyReveal", "received", "soldOut", "complete"}
    BY <1>0, <1>4, GotoLocal DEF SubmitCommit, SubmitReveal, Missed
  <2>2. orders' = orders
    BY <1>4 DEF SubmitCommit, SubmitReveal
  <2>3. Sending(o)
    <3>1. sent \in [OrderIds -> [commit: Nat, reveal: Nat]]
      BY <1>0 DEF Shape
    <3>2. CASE SubmitCommit(p)
      BY <1>0, <1>1, <2>2, <3>1, <3>2 DEF Sending, SubmitCommit
    <3>3. CASE SubmitReveal(p)
      <4>1. sent[o].reveal = 0
        BY <1>0, <3>3 DEF SubmitReveal, Stage, At
      <4> QED
        BY <1>0, <1>1, <2>2, <3>1, <3>3, <4>1 DEF Sending, SubmitReveal
    <3> QED
      BY <1>4, <3>2, <3>3
  <2> QED
    BY <1>1, <2>1, <2>2, <2>3 DEF Kind, Knows, At
<1> QED
  BY <1>2, <1>3, <1>4

\* Every step takes orders one of their ways, and keeps what is known of them.
LEMMA NextKind ==
  ASSUME PInv, [Next]_vars
  PROVE  Kind /\ PInv'
<1>0. IInv' /\ paid \subseteq Payments /\ Cron \in Procs
  BY NextInv DEF PInv, Held, Procs
<1>1. ASSUME NEW p \in Procs, Local(p), Kind, Knows(p)'
      PROVE  Kind /\ PInv'
  BY <1>0, <1>1, KindKeeps
<1>2. ASSUME NEW p \in Procs, Quiet(p), proc'[p].pc \notin Minds
      PROVE  Local(p) /\ Knows(p)'
  BY <1>2, NothingToKnow DEF Quiet, Running, Sends
<1>3. ASSUME NEW p \in Procs, Requests(p)
      PROVE  Kind /\ PInv'
  <2>1. CASE \E o \in OrderIds : CancelOrder(p, o) \/ \E t \in paid : VerifyOrder(p, o, t)
    BY <1>1, <2>1, AskingKnows DEF Quiet
  <2>2. CASE \/ StartLunchpad(p) \/ StopLunchpad(p) \/ RetrieveFunds(p)
             \/ \E w \in Wallets, u \in MinUnits..MaxUnits : CreateOrder(p, w, u)
    BY <1>1, <1>2, <2>2, ApartQuiet
  <2> QED
    BY <1>3, <2>1, <2>2 DEF Requests
<1>4. ASSUME NEW p \in Procs, OwnerSteps(p) \/ StartProcessing(p) \/ RunRead(p) \/ RunTokens(p) \/ Stop(p)
      PROVE  Kind /\ PInv'
  BY <1>1, <1>2, <1>4, ApartQuiet
<1>5. ASSUME NEW p \in Procs, OrderSteps(p) \/ ReserveLost(p)
      PROVE  Kind /\ PInv'
  <2>1. CASE ReserveLock(p) \/ ReserveWallet(p) \/ CancelLock(p) \/ CancelUnits(p)
    BY <1>1, <1>2, <2>1, ApartQuiet
  <2>2. CASE VerifyLunchpad(p) \/ VerifyPayment(p) \/ CancelLunchpad(p) \/ CancelPayment(p)
    BY <1>1, <2>2, AskingKnows DEF Quiet
  <2>3. CASE VerifyRecord(p) \/ VerifyStatus(p) \/ CancelStatus(p)
    BY <1>1, <2>3, WritingKnows DEF Quiet
  <2>4. CASE ReserveCommit(p) \/ ReserveLost(p)
    BY <1>1, <2>4, ReservingKnows DEF Quiet
  <2> QED
    BY <1>5, <2>1, <2>2, <2>3, <2>4 DEF OrderSteps
<1>6. ASSUME NEW p \in Procs,
             \/ RunFetch(p) \/ AwaitReceipt(p) \/ SoldOut(p) \/ RunFails(p) \/ RunClosing(p)
             \/ RunStart(p) \/ RunStop(p)
      PROVE  Kind /\ PInv'
  BY <1>1, <1>6, ApartRun, NothingToKnow
<1>7. ASSUME NEW p \in Procs,
             \/ RunOrder(p) \/ Complete(p) \/ RunError(p) \/ NotifyCommit(p) \/ NotifyReveal(p)
             \/ ReduceTokens(p) \/ SubmitCommit(p) \/ SubmitReveal(p)
      PROVE  Kind /\ PInv'
  BY <1>1, <1>7, ProcessingKnows, SendingKnows
<1>8. CASE WaitingKasOrders \/ WaitingSteps
  <2>1. CASE MatchUtxo
    BY <1>0, <1>1, <2>1, MatchingKnows DEF Quiet
  <2>2. CASE WaitingKasOrders \/ WaitingOrders \/ UsedTransactions \/ FreeUtxos \/ CancelWaiting
    BY <1>0, <1>1, <1>2, <2>2, ApartWaiting
  <2> QED
    BY <1>8, <2>1, <2>2 DEF WaitingSteps
<1>9. CASE Deposit \/ (\E t \in Payments : Pay(t)) \/ UNCHANGED vars
  <2>1. UNCHANGED <<orders, sent, proc>> /\ paid \subseteq paid' /\ paid' \subseteq Payments
    BY <1>0, <1>9 DEF Deposit, Pay, vars, book
  <2>2. Kind
    BY <2>1, ApartWhen
  <2>3. \A p \in Procs : Knows(p)'
    BY <2>1 DEF PInv, Knows, At, Sends, Pays
  <2> QED
    BY <1>0, <2>2, <2>3, KindHolds DEF PInv
<1> QED
  BY <1>3, <1>4, <1>5, <1>6, <1>7, <1>8, <1>9 DEF Next, Continue, RunSteps, Failures

LEMMA InitPays == Init => PInv
<1> SUFFICES ASSUME Init PROVE PInv
  OBVIOUS
<1>1. /\ \A o \in OrderIds : orders[o] = NoOrder /\ sent[o].commit = 0
      /\ \A p \in Procs : proc[p] = Idle
      /\ paid = {}
  BY DEF Init
<1>2. Held
  BY <1>1 DEF Held, NoOrder, SoldStatuses, SentStatuses, Ready
<1>3. \A p \in Procs : Knows(p)
  BY <1>1 DEF Knows, Idle, Sends, At
<1> QED
  BY <1>2, <1>3, InitInv DEF PInv

LEMMA PaymentInvariant == Spec => []PInv
<1>1. PInv /\ [Next]_vars => PInv'
  BY NextKind
<1> QED
  BY <1>1, InitPays, PTL DEF Spec

\* Whatever requests and the five-minute job read before they write, an order is verified only with
\* a payment of its wallet for its units that no other order holds, and tokens are sent
\* for such orders only (updateOrderUserTransactionId, its unique index, and the filters on the status).
THEOREM TokensOnlyPaid == Spec => []PaidFor
<1>1. PInv => PaidFor
  BY DEF PInv, Held, PaidFor, SoldStatuses, SentStatuses
<1> QED
  BY <1>1, PaymentInvariant, PTL

-----------------------------------------------------------------------------
(* The refinement: a kind of step of the orders is a step of the sale of units, or none. *)

Unsold == {"none", "WAITING_FOR_KAS", "TOKENS_NOT_SENT"}

StageOf(s) == CASE s = "none" -> "none"
                [] s = "WAITING_FOR_KAS" -> "reserved"
                [] s = "TOKENS_NOT_SENT" -> "released"
                [] OTHER -> "sold"

ClaimOf(d) == IF d.status \in Unsold THEN NoPayment ELSE d.tx

SaleStages == [o \in OrderIds |-> StageOf(orders[o].status)]
Claims == [o \in OrderIds |-> ClaimOf(orders[o])]
Delivered == {o \in OrderIds : sent[o].reveal > 0}

SaleVars == <<SaleStages, Claims, Delivered>>

\* An order the step leaves alone.
LEMMA SaleSame ==
  ASSUME NEW q \in OrderIds, SameOrder(q)
  PROVE  SaleStages'[q] = SaleStages[q] /\ Claims'[q] = Claims[q]
BY DEF SameOrder, SaleStages, Claims, ClaimOf

\* An order goes from one stage to another, or claims a payment nobody claims.
LEMMA OrderSells ==
  ASSUME PInv, NEW o \in OrderIds, OrderStep(o)
  PROVE  Sale!Next \/ UNCHANGED SaleVars
<1>0. /\ SaleStages = [q \in OrderIds |-> SaleStages[q]] /\ SaleStages' = [q \in OrderIds |-> SaleStages'[q]]
      /\ Claims = [q \in OrderIds |-> Claims[q]] /\ Claims' = [q \in OrderIds |-> Claims'[q]]
  BY DEF SaleStages, Claims
<1>1. \A q \in OrderIds \ {o} : SaleStages'[q] = SaleStages[q] /\ Claims'[q] = Claims[q]
  BY SaleSame DEF OrderStep
<1>2. Delivered' = Delivered
  BY DEF OrderStep, Delivered
<1>3. /\ SaleStages[o] = StageOf(orders[o].status) /\ SaleStages'[o] = StageOf(orders'[o].status)
      /\ Claims[o] = ClaimOf(orders[o]) /\ Claims'[o] = ClaimOf(orders'[o])
  BY DEF SaleStages, Claims
<1>4. ASSUME SaleStages'[o] = SaleStages[o], Claims'[o] = Claims[o]
      PROVE  UNCHANGED SaleVars
  <2>1. SaleStages' = SaleStages /\ Claims' = Claims
    BY <1>0, <1>1, <1>4
  <2> QED
    BY <1>2, <2>1 DEF SaleVars
<1>5. ASSUME NEW s, SaleStages'[o] = s
      PROVE  SaleStages' = [SaleStages EXCEPT ![o] = s]
  BY <1>0, <1>1, <1>5
<1>6. Claims'[o] = Claims[o] => Claims' = Claims
  BY <1>0, <1>1
<1>7. ASSUME NEW t \in paid, Unused(t, o), Claims'[o] = t
      PROVE  /\ t \in Payments /\ \A q \in OrderIds \ {o} : Claims[q] # t
             /\ Claims' = [Claims EXCEPT ![o] = t]
  <2>1. t \in Payments /\ t # NoPayment
    BY ConstantsAssumption DEF ConstantsAssumption, PInv, Held
  <2>2. \A q \in OrderIds \ {o} : Claims[q] # t
    BY <1>7, <2>1 DEF Claims, ClaimOf, Unused
  <2>3. Claims' = [Claims EXCEPT ![o] = t]
    BY <1>0, <1>1, <1>7
  <2> QED
    BY <2>1, <2>2, <2>3
<1>8. CASE Created(o)
  <2>1. /\ SaleStages[o] = "none" /\ SaleStages'[o] = "reserved" /\ Claims'[o] = Claims[o]
    BY <1>3, <1>8 DEF Created, StageOf, ClaimOf, Unsold
  <2>2. Sale!Reserve(o)
    BY <1>2, <1>5, <1>6, <2>1 DEF Sale!Reserve, Sale!Move, SaleStages, Claims, Delivered, StageOf, ClaimOf, Unsold
  <2> QED
    BY <2>2 DEF Sale!Next
<1>9. CASE Cancelled(o)
  <2>1. /\ SaleStages[o] = "reserved" /\ SaleStages'[o] = "released" /\ Claims'[o] = Claims[o]
    BY <1>3, <1>9 DEF Cancelled, StageOf, ClaimOf, Unsold
  <2>2. Sale!Release(o)
    BY <1>2, <1>5, <1>6, <2>1 DEF Sale!Release, Sale!Move, SaleStages, Claims, Delivered, StageOf, ClaimOf, Unsold
  <2> QED
    BY <2>2 DEF Sale!Next
<1>10. CASE Verified(o)
  <2>1. PICK t \in paid : t = orders'[o].tx /\ Unused(t, o)
    BY <1>10 DEF Verified, Pays
  <2>2. /\ SaleStages[o] = "reserved" /\ SaleStages'[o] = "sold" /\ Claims'[o] = t
    BY <1>3, <1>10, <2>1 DEF Verified, StageOf, ClaimOf, Unsold
  <2>3. t \in Payments /\ Sale!Sell(o, t)
    BY <1>2, <1>5, <1>7, <2>1, <2>2 DEF Sale!Sell, Sale!Move, Sale!Claim, SaleStages, Claims, Delivered, StageOf, ClaimOf, Unsold
  <2> QED
    BY <2>3 DEF Sale!Next
<1>11. CASE Recorded(o)
  <2>1. PICK t \in paid : t = orders'[o].tx /\ Unused(t, o)
    BY <1>11 DEF Recorded, Pays
  <2>2. SaleStages'[o] = SaleStages[o]
    BY <1>3, <1>11 DEF Recorded
  <2>3. CASE orders[o].status \in Unsold
    BY <1>3, <1>4, <1>11, <2>2, <2>3 DEF Recorded, ClaimOf
  <2>4. CASE orders[o].status \notin Unsold
    <3>1. SaleStages[o] = "sold" /\ Claims'[o] = t /\ SaleStages' = SaleStages
      BY <1>0, <1>1, <1>3, <1>11, <2>1, <2>2, <2>4 DEF Recorded, StageOf, ClaimOf, Unsold
    <3>2. t \in Payments /\ Sale!Reclaim(o, t)
      BY <1>2, <1>7, <2>1, <3>1 DEF Sale!Reclaim, Sale!Claim, SaleStages, Claims, Delivered, StageOf, ClaimOf, Unsold
    <3> QED
      BY <3>2 DEF Sale!Next
  <2> QED
    BY <2>3, <2>4
<1>12. CASE Processed(o)
  BY <1>3, <1>4, <1>12 DEF Processed, Ready, SentStatuses, StageOf, ClaimOf, Unsold
<1> QED
  BY <1>8, <1>9, <1>10, <1>11, <1>12 DEF OrderStep

\* The reveal of a sold order delivers its tokens.
LEMMA SendingSells ==
  ASSUME PInv, NEW o \in OrderIds, Sending(o)
  PROVE  Sale!Next \/ UNCHANGED SaleVars
<1>1. SaleStages' = SaleStages /\ Claims' = Claims
  BY DEF Sending, SaleStages, Claims
<1>2. \A q \in OrderIds : q # o => sent'[q] = sent[q]
  BY DEF Sending
<1>3. CASE sent'[o].reveal = sent[o].reveal
  <2>1. Delivered' = Delivered
    BY <1>2, <1>3 DEF Delivered
  <2> QED
    BY <1>1, <2>1 DEF SaleVars
<1>4. CASE sent[o].reveal = 0 /\ sent'[o].reveal = 1
  <2>1. o \notin Delivered /\ Delivered' = Delivered \cup {o}
    BY <1>2, <1>4 DEF Delivered
  <2>2. SaleStages[o] = "sold"
    BY DEF Sending, SentStatuses, SaleStages, StageOf
  <2>3. Sale!Deliver(o)
    BY <1>1, <2>1, <2>2 DEF Sale!Deliver, SaleStages, Claims, Delivered, StageOf, ClaimOf, Unsold
  <2> QED
    BY <2>3 DEF Sale!Next
<1> QED
  BY <1>3, <1>4 DEF Sending

LEMMA SaleStep ==
  ASSUME PInv, [Next]_vars
  PROVE  [Sale!Next]_SaleVars
<1>1. CASE Apart
  <2>1. SaleStages' = SaleStages /\ Claims' = Claims /\ Delivered' = Delivered
    BY <1>1 DEF Apart, SameOrder, SaleStages, Claims, ClaimOf, Delivered
  <2> QED
    BY <2>1 DEF SaleVars
<1> QED
  BY <1>1, NextKind, OrderSells, SendingSells DEF Kind

LEMMA SaleInitially == Init => Sale!Init
<1> SUFFICES ASSUME Init PROVE Sale!Init
  OBVIOUS
<1>1. \A o \in OrderIds : orders[o].status = "none" /\ sent[o].reveal = 0
  BY DEF Init, NoOrder
<1> QED
  BY <1>1 DEF Sale!Init

\* What a lunchpad promises its buyers, order by order: reserved, then released or sold against a
\* payment of its own, and delivered once, after it was sold (lunchpad.repository.ts, lunchpad.provider.ts).
THEOREM SaleImplemented == Spec => ImplementsSale
<1>1. PInv /\ [Next]_vars => [Sale!Next]_(Sale!vars)
  BY SaleStep DEF Sale!vars, SaleVars, SaleStages, Claims, Delivered, StageOf, ClaimOf, Unsold
<1> QED
  BY <1>1, SaleInitially, PaymentInvariant, PTL DEF Spec, ImplementsSale, Sale!Spec

=============================================================================
