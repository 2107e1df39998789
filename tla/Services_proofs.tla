-------------------------- MODULE Services_proofs --------------------------
(***************************************************************************)
(* Theorems about the smaller services: the graceful shutdown, the         *)
(* withdrawals and the budget of a batch; and about the system of all      *)
(* services as it is model-checked, which keeps what each of them keeps.   *)
(*                                                                         *)
(* Shutdown, for any instances, calls and lunchpads, with crashes and      *)
(* failed calls.  A graceful exit cuts no run because a run holds a        *)
(* registered promise from before it takes isRunning until after it gave   *)
(* it back, and an instance that has waited for its promises registers no  *)
(* further one.  isRunning is the flag of one run because each way of      *)
(* ending a run either clears the flag or strands the lunchpad for good.   *)
(*                                                                         *)
(* Withdrawals, for any requests, amounts and outputs.  The invariant says *)
(* that the outputs chosen suffice while nobody else spends one (Chosen),  *)
(* and what the wallet still holds for a withdrawal at each of its steps   *)
(* (Enough), unless a rival took something or a call failed (Fair).        *)
(*                                                                         *)
(* Budget, for any amounts, any number of mints and any limit on the fees. *)
(* The invariant says what the wallet must still hold at each stage: what  *)
(* the mints to come take at most, and Reserve, which is for the hand-over *)
(* and the refund.  Reserve suffices because the commission on the mints   *)
(* that are done is not above the one on all mints, and the smallest       *)
(* commission is above the transfer, the tolerance and the smallest amount *)
(* that can be sent together (BudgetAssumption).                           *)
(***************************************************************************)
EXTENDS MCServices, P2pOrderV2_proofs, TransactionWatch_proofs, Sums_proofs

-----------------------------------------------------------------------------
(* The graceful shutdown *)

\* Steps between addPromise and resolve().
Promising(r) == step[r] \in {"start", "between", "order", "finish", "leaked"}

PromisesHeld ==
    /\ \A i \in Instances : \A r \in promises[i] : Home[r] = i
    /\ \A r \in Runners : Promising(r) => r \in promises[Home[r]]

PromisesGone == \A i \in Instances : phase[i] \in {"leaving", "hung"} => promises[i] = {}

\* RunningHeld, said of the runners one by one.
RunsApart == \A r1, r2 \in Runners : InRun(r1) /\ InRun(r2) /\ on[r1] = on[r2] => r1 = r2
RunsRunning == \A r \in Runners : InRun(r) => running[on[r]] /\ on[r] \notin stranded
RunningRun == \A l \in Pads : running[l] => l \in stranded \/ \E r \in Runners : InRun(r) /\ on[r] = l
StrandedRunning == \A l \in stranded : running[l]

RunsInv == RunsApart /\ RunsRunning /\ RunningRun /\ StrandedRunning
ShutdownInv == ShutdownTypeOK /\ PromisesHeld /\ PromisesGone /\ RunsInv

-----------------------------------------------------------------------------
LEMMA ShutdownInvInit == ShutdownInit => ShutdownInv
<1> SUFFICES ASSUME ShutdownInit PROVE ShutdownInv
  OBVIOUS
<1>1. (CHOOSE l \in Pads : TRUE) \in Pads
  BY ShutdownAssumption
<1>2. ShutdownTypeOK
  BY <1>1 DEF ShutdownInit, ShutdownTypeOK, Phases
<1>3. PromisesHeld /\ PromisesGone
  BY DEF ShutdownInit, PromisesHeld, PromisesGone, Promising
<1>4. RunsInv
  BY DEF ShutdownInit, RunsInv, RunsApart, RunsRunning, RunningRun, StrandedRunning, InRun
<1> QED
  BY <1>2, <1>3, <1>4 DEF ShutdownInv

-----------------------------------------------------------------------------
(* The types.                                                              *)

LEMMA TerminateType ==
  ASSUME ShutdownTypeOK, NEW i \in Instances, Terminate(i)
  PROVE  ShutdownTypeOK'
<1>1. {on[r] : r \in {q \in {r \in Runners : Home[r] = i} : InRun(q)}} \subseteq Pads
  BY DEF ShutdownTypeOK
<1>2. stranded' \subseteq Pads
  BY <1>1 DEF ShutdownTypeOK, Terminate
<1> QED
  BY <1>2 DEF ShutdownTypeOK, Terminate, Phases

LEMMA ShutdownTypeStep ==
  ASSUME ShutdownTypeOK, [ShutdownNext]_shutdownVars
  PROVE  ShutdownTypeOK'
<1> USE DEF ShutdownTypeOK
<1>1. ASSUME NEW i \in Instances, InstanceSteps(i) PROVE ShutdownTypeOK'
  <2>1. CASE JobTick(i) \/ JobEnd(i)
    BY <2>1 DEF JobTick, JobEnd
  <2>2. CASE Signal(i) \/ Drained(i) \/ CloseFails(i) \/ Restart(i)
    BY <2>2 DEF Signal, Drained, CloseFails, Restart, Phases
  <2>3. CASE Exit(i) \/ ForceExit(i) \/ Crash(i)
    BY <2>3, TerminateType DEF Exit, ForceExit, Crash
  <2> QED
    BY <1>1, <2>1, <2>2, <2>3 DEF InstanceSteps
<1>2. ASSUME NEW r \in Runners, RunnerSteps(r) \/ StartFails(r) \/ FinishFails(r) PROVE ShutdownTypeOK'
  <2> USE ShutdownAssumption DEF MoveTo
  <2>1. CASE TokensWrong(r) \/ NextOrder(r) \/ OrderDone(r)
    BY <2>1 DEF TokensWrong, NextOrder, OrderDone
  <2>2. CASE Register(r)
    BY <2>2 DEF Register
  <2>3. CASE Start(r) \/ Finish(r)
    BY ZenonT(60), <2>3 DEF Start, Finish
  <2>4. CASE StartFails(r) \/ FinishFails(r)
    BY <2>4 DEF StartFails, FinishFails
  <2> QED
    BY <1>2, <2>1, <2>2, <2>3, <2>4 DEF RunnerSteps
<1>3. ASSUME NEW r \in Runners, NEW l \in Pads, Ask(r, l) PROVE ShutdownTypeOK'
  BY <1>3 DEF Ask, MoveTo
<1>4. CASE UNCHANGED shutdownVars
  BY <1>4 DEF shutdownVars
<1> QED
  BY <1>1, <1>2, <1>3, <1>4 DEF ShutdownNext

-----------------------------------------------------------------------------
(* The promises.                                                           *)

LEMMA PromisesStep ==
  ASSUME ShutdownTypeOK, PromisesHeld, PromisesGone, [ShutdownNext]_shutdownVars
  PROVE  PromisesHeld' /\ PromisesGone'
<1> USE ShutdownAssumption DEF ShutdownTypeOK, PromisesHeld, PromisesGone, Promising
<1>1. ASSUME NEW i \in Instances, InstanceSteps(i) PROVE PromisesHeld' /\ PromisesGone'
  <2>1. CASE JobTick(i) \/ JobEnd(i)
    BY <2>1 DEF JobTick, JobEnd
  <2>2. CASE Signal(i) \/ Drained(i) \/ CloseFails(i) \/ Restart(i)
    BY <2>2 DEF Signal, Drained, CloseFails, Restart
  <2>3. CASE Exit(i) \/ ForceExit(i) \/ Crash(i)
    BY <2>3 DEF Exit, ForceExit, Crash, Terminate
  <2> QED
    BY <1>1, <2>1, <2>2, <2>3 DEF InstanceSteps
<1>2. ASSUME NEW r \in Runners, RunnerSteps(r) \/ StartFails(r) \/ FinishFails(r)
      PROVE PromisesHeld' /\ PromisesGone'
  <2> USE DEF MoveTo, InStep
  <2>1. CASE TokensWrong(r) \/ NextOrder(r) \/ OrderDone(r)
    BY <2>1 DEF TokensWrong, NextOrder, OrderDone
  <2>2. CASE Register(r)
    BY <2>2 DEF Register, Closing
  <2>3. CASE Start(r) \/ Finish(r)
    BY <2>3 DEF Start, Finish
  <2>4. CASE StartFails(r) \/ FinishFails(r)
    BY <2>4 DEF StartFails, FinishFails
  <2> QED
    BY <1>2, <2>1, <2>2, <2>3, <2>4 DEF RunnerSteps
<1>3. ASSUME NEW r \in Runners, NEW l \in Pads, Ask(r, l) PROVE PromisesHeld' /\ PromisesGone'
  BY <1>3 DEF Ask, MoveTo, InStep
<1>4. CASE UNCHANGED shutdownVars
  BY <1>4 DEF shutdownVars
<1> QED
  BY <1>1, <1>2, <1>3, <1>4 DEF ShutdownNext

-----------------------------------------------------------------------------
(* The runs.                                                               *)

\* The end of an instance strands the lunchpads of its runs.
LEMMA TerminateRuns ==
  ASSUME ShutdownTypeOK, RunsInv, NEW i \in Instances, Terminate(i)
  PROVE  RunsInv'
<1> DEFINE mine == {r \in Runners : Home[r] = i}
           cut == {on[r] : r \in {q \in mine : InRun(q)}}
<1>1. /\ stranded' = stranded \cup cut /\ UNCHANGED <<on, running>>
      /\ \A r \in Runners : step'[r] = IF r \in mine THEN "idle" ELSE step[r]
  BY DEF Terminate
<1>2. \A r \in Runners : InRun(r)' <=> InRun(r) /\ r \notin mine
  BY <1>1 DEF InRun
<1>3. \A l : l \in cut <=> \E r \in mine : InRun(r) /\ on[r] = l
  OBVIOUS
<1> HIDE DEF cut
<1>4. \A r \in Runners : InRun(r)' => on[r] \notin cut
  BY <1>2, <1>3 DEF RunsInv, RunsApart
<1>5. RunsApart' /\ RunsRunning'
  BY <1>1, <1>2, <1>4 DEF RunsInv, RunsApart, RunsRunning
<1>6. RunningRun'
  BY <1>1, <1>2, <1>3 DEF RunsInv, RunningRun
<1>7. StrandedRunning'
  BY <1>1, <1>3 DEF RunsInv, RunsRunning, StrandedRunning
<1> QED
  BY <1>5, <1>6, <1>7 DEF RunsInv

\* A runner that is in no run, before and after its step, leaves the runs as they are.
LEMMA RunsElsewhere ==
  ASSUME ShutdownTypeOK, RunsInv, NEW r \in Runners, ~InRun(r), ~InRun(r)',
         \A q \in Runners \ {r} : step'[q] = step[q] /\ on'[q] = on[q],
         UNCHANGED <<running, stranded>>
  PROVE  RunsInv'
<1>1. \A q \in Runners : (InRun(q)' <=> InRun(q)) /\ (InRun(q) => on'[q] = on[q])
  BY DEF InRun
<1> QED
  BY <1>1 DEF RunsInv, RunsApart, RunsRunning, RunningRun, StrandedRunning

LEMMA RunsSame ==
  ASSUME RunsInv, UNCHANGED <<step, on, running, stranded>>
  PROVE  RunsInv'
  BY DEF RunsInv, RunsApart, RunsRunning, RunningRun, StrandedRunning, InRun

LEMMA RunsStep ==
  ASSUME ShutdownTypeOK, RunsInv, [ShutdownNext]_shutdownVars
  PROVE  RunsInv'
<1>1. ASSUME NEW i \in Instances, InstanceSteps(i) PROVE RunsInv'
  <2>1. CASE Exit(i) \/ ForceExit(i) \/ Crash(i)
    BY <2>1, TerminateRuns DEF Exit, ForceExit, Crash
  <2>2. CASE JobTick(i) \/ JobEnd(i) \/ Signal(i) \/ Drained(i) \/ CloseFails(i) \/ Restart(i)
    BY <2>2, RunsSame DEF JobTick, JobEnd, Signal, Drained, CloseFails, Restart
  <2> QED
    BY <1>1, <2>1, <2>2 DEF InstanceSteps
<1>2. ASSUME NEW r \in Runners, RunnerSteps(r) \/ StartFails(r) \/ FinishFails(r) PROVE RunsInv'
  <2> USE DEF MoveTo, InStep
  <2>1. CASE TokensWrong(r) \/ Register(r)
    BY <2>1, RunsElsewhere DEF TokensWrong, Register, InRun, ShutdownTypeOK
  <2>2. CASE NextOrder(r) \/ OrderDone(r)
    <3>1. \A q \in Runners : InRun(q)' <=> InRun(q)
      BY <2>2 DEF NextOrder, OrderDone, InRun, ShutdownTypeOK
    <3> QED
      BY <2>2, <3>1 DEF NextOrder, OrderDone, RunsInv, RunsApart, RunsRunning, RunningRun, StrandedRunning
  <2>3. CASE Start(r)
    <3>1. CASE running[on[r]]
      BY <2>3, <3>1, RunsElsewhere DEF Start, InRun, ShutdownTypeOK
    <3>2. CASE ~running[on[r]]
      <4>1. \A q \in Runners : InRun(q)' <=> InRun(q) \/ q = r
        BY <2>3, <3>2 DEF Start, InRun, ShutdownTypeOK
      <4>2. /\ running' = [running EXCEPT ![on[r]] = TRUE]
            /\ UNCHANGED <<on, stranded>> /\ on[r] \in Pads
        BY <2>3, <3>2 DEF Start, ShutdownTypeOK
      <4> QED
        BY <3>2, <4>1, <4>2 DEF ShutdownTypeOK, RunsInv, RunsApart, RunsRunning, RunningRun, StrandedRunning
    <3> QED
      BY <3>1, <3>2
  <2>4. CASE StartFails(r)
    <3>1. \A q \in Runners : InRun(q)' <=> InRun(q)
      BY <2>4 DEF StartFails, InRun, ShutdownTypeOK
    <3>2. UNCHANGED on /\ on[r] \in Pads /\ ~running[on[r]]
      BY <2>4 DEF StartFails, ShutdownTypeOK
    <3>3. \/ UNCHANGED <<running, stranded>>
          \/ running' = [running EXCEPT ![on[r]] = TRUE] /\ stranded' = stranded \cup {on[r]}
      BY <2>4 DEF StartFails
    <3> QED
      BY <3>1, <3>2, <3>3 DEF ShutdownTypeOK, RunsInv, RunsApart, RunsRunning, RunningRun, StrandedRunning
  <2>5. CASE Finish(r) \/ FinishFails(r)
    <3>1. \A q \in Runners : InRun(q)' <=> InRun(q) /\ q # r
      BY <2>5 DEF Finish, FinishFails, InRun, ShutdownTypeOK
    <3>2. UNCHANGED on /\ on[r] \in Pads /\ InRun(r)
      BY <2>5 DEF Finish, FinishFails, InRun, ShutdownTypeOK
    <3>3. \/ running' = [running EXCEPT ![on[r]] = FALSE] /\ UNCHANGED stranded
          \/ UNCHANGED running /\ stranded' = stranded \cup {on[r]}
      BY <2>5 DEF Finish, FinishFails
    <3> QED
      BY <3>1, <3>2, <3>3 DEF ShutdownTypeOK, RunsInv, RunsApart, RunsRunning, RunningRun, StrandedRunning
  <2> QED
    BY <1>2, <2>1, <2>2, <2>3, <2>4, <2>5 DEF RunnerSteps
<1>3. ASSUME NEW r \in Runners, NEW l \in Pads, Ask(r, l) PROVE RunsInv'
  BY <1>3, RunsElsewhere DEF Ask, MoveTo, InStep, InRun, ShutdownTypeOK
<1>4. CASE UNCHANGED shutdownVars
  BY <1>4, RunsSame DEF shutdownVars
<1> QED
  BY <1>1, <1>2, <1>3, <1>4 DEF ShutdownNext

-----------------------------------------------------------------------------
LEMMA ShutdownInvariant == ShutdownSpec => []ShutdownInv
<1>1. ShutdownInv /\ [ShutdownNext]_shutdownVars => ShutdownInv'
  BY ShutdownTypeStep, PromisesStep, RunsStep DEF ShutdownInv
<1> QED
  BY ShutdownInvInit, <1>1, PTL DEF ShutdownSpec

\* Every variable keeps its type.
THEOREM ShutdownTypeCorrect == ShutdownSpec => []ShutdownTypeOK
<1>1. ShutdownInv => ShutdownTypeOK
  BY DEF ShutdownInv
<1> QED
  BY ShutdownInvariant, <1>1, PTL

\* A graceful exit cuts no run (main.ts:106-113, important-promises-manager.ts:7-29).
THEOREM GracefulExitHolds == ShutdownSpec => []GracefulExit
<1>1. ShutdownInv => GracefulExit
  BY ShutdownAssumption DEF ShutdownInv, PromisesHeld, PromisesGone, GracefulExit, Promising, InRun
<1> QED
  BY ShutdownInvariant, <1>1, PTL

\* isRunning is held by one run or was left behind by one, and then for good
\* (providers/lunchpad.provider.ts:594-603, lunchpad.repository.ts:108-134).
THEOREM RunningHeldHolds == ShutdownSpec => []RunningHeld
<1>1. ShutdownInv => RunningHeld
  <2> SUFFICES ASSUME ShutdownInv, NEW l \in Pads
               PROVE  LET runs == {r \in Runners : InRun(r) /\ on[r] = l} IN
                      /\ \A r1, r2 \in runs : r1 = r2
                      /\ running[l] <=> runs # {} \/ l \in stranded
                      /\ l \in stranded => runs = {}
    BY DEF RunningHeld
  <2> DEFINE runs == {r \in Runners : InRun(r) /\ on[r] = l}
  <2>1. \A r : r \in runs <=> r \in Runners /\ InRun(r) /\ on[r] = l
    OBVIOUS
  <2> HIDE DEF runs
  <2>2. \A r1, r2 \in runs : r1 = r2
    BY <2>1 DEF ShutdownInv, RunsInv, RunsApart
  <2>3. runs # {} \/ l \in stranded => running[l]
    BY <2>1 DEF ShutdownInv, RunsInv, RunsRunning, StrandedRunning
  <2>4. running[l] => runs # {} \/ l \in stranded
    BY <2>1 DEF ShutdownInv, RunsInv, RunningRun
  <2>5. l \in stranded => runs = {}
    BY <2>1 DEF ShutdownInv, RunsInv, RunsRunning
  <2> QED
    BY <2>2, <2>3, <2>4, <2>5 DEF runs
<1> QED
  BY ShutdownInvariant, <1>1, PTL

-----------------------------------------------------------------------------
(* Withdrawals *)

\* Steps of a request that has sent nothing.
Before == {"create", "balance", "refuse", "track", "fund", "await", "fees", "awaitFees", "build",
           "compound"}

Xfers == [pc: {"create", "balance", "refuse", "track", "fund", "await", "fees", "awaitFees", "build",
                  "compound", "final", "confirm", "complete", "end"},
             inputs: SUBSET Coins, first: {"compound", "final"},
             unsettled: BOOLEAN, orphan: BOOLEAN, failed: BOOLEAN]

Withdrawn == [status: {"NONE", "CREATED", "WAITING_FOR_KAS", "COMPLETED"},
              tx: {"none", "compound", "final"}]

\* Nobody holds an output of a transaction not sent yet.
Unmade ==
    \A u, w \in Withdrawals :
        /\ xfer[u].pc \in Before =>
              <<"compound", u>> \notin Unspents \cup xfer[w].inputs
        /\ xfer[u].pc \in Before \cup {"final"} =>
              <<"change", u>> \notin Unspents \cup xfer[w].inputs

\* The document and the payment follow the request.
Progress(w) ==
    /\ xfer[w].pc = "create" => order[w].status = "NONE"
    /\ xfer[w].pc \notin {"create", "end"} => order[w].status = "CREATED"
    /\ xfer[w].pc \in Before \cup {"final"} => paid[w] = 0
    /\ xfer[w].pc \in {"confirm", "complete"} => paid[w] = 1
    /\ paid[w] <= 1
    /\ order[w].status = "COMPLETED" => paid[w] = 1
    /\ order[w].status = "WAITING_FOR_KAS" => paid[w] = 0

\* The outputs chosen suffice, for as long as nobody else spends one.
Chosen(w) ==
    xfer[w].pc \in {"compound", "final"} =>
        /\ AmountOf[w] > MinimalAmount
        /\ Spendable(w) => Worth(xfer[w].inputs) >= AmountOf[w]

Transfers ==
    /\ WithdrawalTypeOK /\ IsFiniteSet(Unspents)
    /\ Unmade /\ \A w \in Withdrawals : Progress(w) /\ Chosen(w)

Rival(w) == \E v \in Withdrawals \ {w} : paid[v] > 0 \/ <<"compound", v>> \in Unspents

\* What the wallet still holds for a withdrawal that nobody took anything from.
Enough(w) ==
    /\ xfer[w].pc \in {"track", "fund", "await"} => Total >= AmountOf[w]
    /\ xfer[w].pc \in {"fund", "await"} /\ ~xfer[w].unsettled => Mature >= AmountOf[w]
    /\ xfer[w].pc \in {"fees", "awaitFees", "build"} => Mature >= AmountOf[w]
    /\ xfer[w].pc \in {"compound", "final"} => Spendable(w)
    /\ xfer[w].pc = "end" /\ order[w].status = "CREATED" => AmountOf[w] <= MinimalAmount

Fair(w) == Rival(w) \/ xfer[w].failed \/ Enough(w)

WithdrawalInv == Transfers /\ \A w \in Withdrawals : Fair(w)

-----------------------------------------------------------------------------
(* The worth of outputs *)

\* What some outputs of the wallet are worth, and what part of them is.
LEMMA WorthIs ==
  ASSUME Transfers, NEW S \in SUBSET Unspents, NEW T \in SUBSET S
  PROVE  IsFiniteSet(S) /\ Worth(S) \in Nat /\ Worth(T) \in Nat /\ Worth(T) <= Worth(S)
<1>1. IsFiniteSet(S) /\ IsFiniteSet(T) /\ \A c \in S : coins[c] \in Nat
  BY FS_Subset DEF Transfers, WithdrawalTypeOK
<1> QED
  BY <1>1, SumNat, SumSubset DEF Worth

\* What outputs are worth after a step that leaves them alone.
LEMMA WorthKept ==
  ASSUME Transfers, NEW S \in SUBSET Unspents, NEW g, \A c \in S : g[c] = coins[c]
  PROVE  SumFunctionOnSet(g, S) = Worth(S)
<1>1. IsFiniteSet(S)
  BY WorthIs
<1> QED
  BY <1>1, SumSame DEF Worth

-----------------------------------------------------------------------------
(* Steps that leave the wallet alone *)

\* What proceeding does to a request.
LEMMA ProceedIs ==
  ASSUME WithdrawalTypeOK, NEW w \in Withdrawals, NEW n, Proceed(w, n),
         n \in {"create", "balance", "refuse", "track", "fund", "await", "fees", "awaitFees",
                "build", "compound", "final", "confirm", "complete", "end"}
  PROVE  /\ xfer' \in [Withdrawals -> Xfers]
         /\ \A v \in Withdrawals \ {w} : xfer'[v] = xfer[v]
         /\ xfer'[w].pc = n /\ xfer'[w].inputs = xfer[w].inputs
         /\ xfer'[w].unsettled = xfer[w].unsettled /\ xfer'[w].failed = xfer[w].failed
  BY DEF WithdrawalTypeOK, Xfers, Proceed

\* A step of w alone, on the wallet as it is.
Apart(w) ==
    /\ UNCHANGED <<coins, pending, paid>>
    /\ xfer' \in [Withdrawals -> Xfers] /\ order' \in [Withdrawals -> Withdrawn]
    /\ \A v \in Withdrawals \ {w} : xfer'[v] = xfer[v] /\ order'[v] = order[v]
    /\ xfer'[w].pc \in Before => xfer[w].pc \in Before
    /\ xfer'[w].pc = "final" => xfer[w].pc \in Before
    /\ xfer'[w].inputs = xfer[w].inputs \/ xfer'[w].inputs \subseteq Unspents

\* It keeps the invariant if it keeps what is said of w.
LEMMA ApartKeeps ==
  ASSUME WithdrawalInv, NEW w \in Withdrawals, Apart(w), Progress(w)', Chosen(w)',
         xfer'[w].failed \/ (Enough(w) => Enough(w)'), xfer[w].failed => xfer'[w].failed
  PROVE  WithdrawalInv'
<1>0. Unspents' = Unspents
  BY DEF Apart, Unspents
<1>1. WithdrawalTypeOK' /\ IsFiniteSet(Unspents)'
  BY <1>0 DEF WithdrawalInv, Transfers, WithdrawalTypeOK, Apart, Xfers, Withdrawn
<1>2. Unmade'
  BY <1>0 DEF WithdrawalInv, Transfers, Unmade, Apart
<1>3. ASSUME NEW v \in Withdrawals
      PROVE  Progress(v)' /\ Chosen(v)'
  <2>1. CASE v = w
    BY <2>1
  <2>2. CASE v # w
    <3>1. xfer'[v] = xfer[v] /\ order'[v] = order[v] /\ paid'[v] = paid[v] /\ coins' = coins
      BY <2>2 DEF Apart
    <3>2. Progress(v) /\ Chosen(v)
      BY DEF WithdrawalInv, Transfers
    <3> QED
      BY <3>1, <3>2, <1>0 DEF Progress, Chosen, Spendable, Worth
  <2> QED
    BY <2>1, <2>2
<1>4. ASSUME NEW v \in Withdrawals
      PROVE  Fair(v)'
  <2>1. Fair(v)
    BY DEF WithdrawalInv
  <2>2. Rival(v) => Rival(v)'
    BY <1>0 DEF Rival, Apart
  <2>3. CASE v = w
    BY <2>1, <2>2, <2>3 DEF Fair
  <2>4. CASE v # w
    <3>1. xfer'[v] = xfer[v] /\ order'[v] = order[v] /\ coins' = coins /\ pending' = pending
      BY <2>4 DEF Apart
    <3>2. Enough(v) => Enough(v)'
      BY <3>1, <1>0 DEF Enough, Spendable, Total, Mature, Worth
    <3> QED
      BY <2>1, <2>2, <3>1, <3>2 DEF Fair
  <2> QED
    BY <2>3, <2>4
<1> QED
  BY <1>1, <1>2, <1>3, <1>4 DEF WithdrawalInv, Transfers

\* What the invariant says of one withdrawal.
LEMMA InvAt ==
  ASSUME WithdrawalInv, NEW w \in Withdrawals
  PROVE  /\ Progress(w) /\ Chosen(w) /\ Fair(w)
         /\ xfer \in [Withdrawals -> Xfers] /\ order \in [Withdrawals -> Withdrawn]
         /\ paid[w] \in Nat /\ AmountOf[w] \in Nat /\ MinimalAmount \in Nat
         /\ pending \subseteq Unspents
         /\ Total \in Nat /\ Mature \in Nat /\ Mature <= Total
         /\ pending = {} => Mature = Total
<1>1. Unspents \ pending \in SUBSET Unspents
  OBVIOUS
<1>2. Total \in Nat /\ Mature \in Nat /\ Mature <= Total
  BY <1>1, WorthIs DEF WithdrawalInv, Total, Mature
<1>3. pending = {} => Unspents \ pending = Unspents
  OBVIOUS
<1> QED
  BY <1>2, <1>3, WithdrawalAssumption
     DEF WithdrawalInv, Transfers, WithdrawalTypeOK, Xfers, Withdrawn, Total, Mature

\* What the wallet holds is not changed by a step that leaves its outputs alone.
LEMMA WalletSame ==
  ASSUME UNCHANGED <<coins, pending>>
  PROVE  /\ Unspents' = Unspents /\ Total' = Total /\ Mature' = Mature
         /\ \A w : xfer'[w].inputs = xfer[w].inputs => Spendable(w)' = Spendable(w)
         /\ \A w : xfer'[w].inputs = xfer[w].inputs =>
                      Worth(xfer[w].inputs)' = Worth(xfer[w].inputs)
  BY DEF Unspents, Total, Mature, Spendable, Worth

\* The steps one by one.
LEMMA CreateKeeps ==
  ASSUME WithdrawalInv, NEW w \in Withdrawals, Create(w)
  PROVE  WithdrawalInv'
<1> USE InvAt, WalletSame, ProceedIs
<1>1. Apart(w)
  BY DEF Create, Stands, Apart, WithdrawalInv, Transfers, Before, Withdrawn
<1>2. Progress(w)' /\ Chosen(w)' /\ Enough(w)' /\ xfer'[w].failed = xfer[w].failed
  BY DEF Create, Stands, WithdrawalInv, Transfers, Before, Withdrawn, Progress, Chosen, Enough
<1> QED
  BY ONLY <1>1, <1>2, WithdrawalInv, ApartKeeps, w \in Withdrawals

LEMMA BalanceKeeps ==
  ASSUME WithdrawalInv, NEW w \in Withdrawals, CheckBalance(w)
  PROVE  WithdrawalInv'
<1> USE InvAt, WalletSame, ProceedIs
<1>1. Apart(w)
  BY DEF CheckBalance, Stands, Apart, WithdrawalInv, Transfers, Before, Withdrawn
<1>2. Progress(w)' /\ Chosen(w)' /\ Enough(w)' /\ xfer'[w].failed = xfer[w].failed
  BY DEF CheckBalance, Stands, WithdrawalInv, Transfers, Before, Withdrawn, Progress, Chosen, Enough
<1> QED
  BY ONLY <1>1, <1>2, WithdrawalInv, ApartKeeps, w \in Withdrawals

LEMMA RefuseKeeps ==
  ASSUME WithdrawalInv, NEW w \in Withdrawals, Refuse(w)
  PROVE  WithdrawalInv'
<1> USE InvAt, WalletSame, ProceedIs
<1>1. Apart(w)
  BY DEF Refuse, SetStatus, Stands, Apart, WithdrawalInv, Transfers, Before, Withdrawn
<1>2. Progress(w)' /\ Chosen(w)' /\ Enough(w)' /\ xfer'[w].failed = xfer[w].failed
  BY DEF Refuse, SetStatus, Stands, WithdrawalInv, Transfers, Before, Withdrawn, Progress, Chosen, Enough
<1> QED
  BY ONLY <1>1, <1>2, WithdrawalInv, ApartKeeps, w \in Withdrawals

LEMMA TrackKeeps ==
  ASSUME WithdrawalInv, NEW w \in Withdrawals, TrackWallet(w)
  PROVE  WithdrawalInv'
<1> USE InvAt, WalletSame
<1>1. /\ \A v \in Withdrawals \ {w} : xfer'[v] = xfer[v]
      /\ xfer' \in [Withdrawals -> Xfers]
      /\ xfer'[w].pc = "fund" /\ xfer'[w].inputs = xfer[w].inputs
      /\ xfer'[w].unsettled = (pending # {}) /\ xfer'[w].failed = xfer[w].failed
  BY DEF TrackWallet, Xfers
<1>2. Apart(w)
  BY <1>1 DEF TrackWallet, Stands, Apart, WithdrawalInv, Transfers, Before, Withdrawn
<1>3. Progress(w)' /\ Chosen(w)'
  BY <1>1 DEF TrackWallet, Stands, Before, Progress, Chosen
<1>4. Enough(w) => Enough(w)'
  BY <1>1 DEF TrackWallet, Stands, Enough
<1> QED
  BY ONLY <1>1, <1>2, <1>3, <1>4, WithdrawalInv, ApartKeeps, w \in Withdrawals

LEMMA FundKeeps ==
  ASSUME WithdrawalInv, NEW w \in Withdrawals, Fund(w)
  PROVE  WithdrawalInv'
<1> USE InvAt, WalletSame, ProceedIs
<1> USE DEF Fund, Checked, Stands
<1>1. Apart(w)
  BY DEF Apart, WithdrawalInv, Transfers, Before, Withdrawn
<1>2. Progress(w)' /\ Chosen(w)' /\ xfer'[w].failed = xfer[w].failed
  BY DEF WithdrawalInv, Transfers, Before, Progress, Chosen
<1>3. Enough(w) => Enough(w)'
  <2>1. \/ Lacks(w)
        \/ Mature >= AmountOf[w]
        \/ ~(Total >= AmountOf[w])
    BY DEF Lacks
  <2> QED
    BY <2>1 DEF WithdrawalInv, Transfers, Enough
<1> QED
  BY ONLY <1>1, <1>2, <1>3, WithdrawalInv, ApartKeeps, w \in Withdrawals

LEMMA FeesKeep ==
  ASSUME WithdrawalInv, NEW w \in Withdrawals, FundFees(w)
  PROVE  WithdrawalInv'
<1> USE InvAt, WalletSame, ProceedIs
<1>1. Apart(w)
  BY DEF FundFees, Stands, Apart, WithdrawalInv, Transfers, Before, Withdrawn
<1>2. Progress(w)' /\ Chosen(w)' /\ xfer'[w].failed = xfer[w].failed
  BY DEF FundFees, Stands, WithdrawalInv, Transfers, Before, Progress, Chosen
<1>3. Enough(w) => Enough(w)'
  BY DEF FundFees, Stands, WithdrawalInv, Transfers, Enough
<1> QED
  BY ONLY <1>1, <1>2, <1>3, WithdrawalInv, ApartKeeps, w \in Withdrawals

LEMMA SettledKeeps ==
  ASSUME WithdrawalInv, NEW w \in Withdrawals, BalanceSettled(w)
  PROVE  WithdrawalInv'
<1> USE InvAt, WalletSame, ProceedIs
<1> USE DEF BalanceSettled, Waits, Checked, Stands
<1>1. Apart(w)
  BY DEF Apart, WithdrawalInv, Transfers, Before, Withdrawn
<1>2. Progress(w)' /\ Chosen(w)' /\ xfer'[w].failed = xfer[w].failed
  BY DEF WithdrawalInv, Transfers, Before, Progress, Chosen
<1>3. Enough(w) => Enough(w)'
  BY DEF WithdrawalInv, Transfers, Enough
<1> QED
  BY ONLY <1>1, <1>2, <1>3, WithdrawalInv, ApartKeeps, w \in Withdrawals

LEMMA NotEnoughKeeps ==
  ASSUME WithdrawalInv, NEW w \in Withdrawals, NotEnough(w)
  PROVE  WithdrawalInv'
<1> USE InvAt, WalletSame, ProceedIs
<1>1. Apart(w)
  BY DEF NotEnough, GiveUp, Stands, Apart, WithdrawalInv, Transfers, Before, Withdrawn
<1>2. Progress(w)' /\ Chosen(w)' /\ xfer'[w].failed = xfer[w].failed
  BY DEF NotEnough, GiveUp, Stands, WithdrawalInv, Transfers, Before, Progress, Chosen
<1>3. Enough(w) => Enough(w)'
  BY DEF NotEnough, GiveUp, Stands, WithdrawalInv, Transfers, Enough
<1> QED
  BY ONLY <1>1, <1>2, <1>3, WithdrawalInv, ApartKeeps, w \in Withdrawals

LEMMA BuildKeeps ==
  ASSUME WithdrawalInv, NEW w \in Withdrawals, Build(w)
  PROVE  WithdrawalInv'
<1> USE InvAt, WalletSame
<1>1. PICK S \in Selections(w), n \in {"compound", "final"} :
          xfer' = [xfer EXCEPT ![w].pc = n, ![w].inputs = S, ![w].first = n]
  BY DEF Build
<1>2. S \subseteq Unspents /\ S \subseteq Coins /\ Worth(S) >= AmountOf[w]
  BY DEF Selections, WithdrawalInv, Transfers, WithdrawalTypeOK
<1>3. /\ \A v \in Withdrawals \ {w} : xfer'[v] = xfer[v]
      /\ xfer' \in [Withdrawals -> Xfers]
      /\ xfer'[w].pc = n /\ xfer'[w].inputs = S /\ xfer'[w].failed = xfer[w].failed
  BY SMTT(30), <1>1, <1>2 DEF Xfers
<1>4. Apart(w)
  BY <1>2, <1>3 DEF Build, Stands, Apart, Before
<1>5. Progress(w)'
  BY <1>3 DEF Build, Stands, Before, Progress
<1>6. Worth(xfer[w].inputs)' = Worth(S) /\ Spendable(w)'
  BY <1>2, <1>3 DEF Build, Worth, Spendable
<1>7. Chosen(w)' /\ Enough(w)'
  BY <1>2, <1>3, <1>6 DEF Build, Chosen, Enough
<1> QED
  BY ONLY <1>3, <1>4, <1>5, <1>7, WithdrawalInv, ApartKeeps, w \in Withdrawals

LEMMA RejectedKeeps ==
  ASSUME WithdrawalInv, NEW w \in Withdrawals, Rejected(w)
  PROVE  WithdrawalInv'
<1> USE InvAt, WalletSame, ProceedIs
<1>1. Apart(w)
  BY DEF Rejected, GiveUp, Stands, Apart, WithdrawalInv, Transfers, Before, Withdrawn
<1>2. Progress(w)' /\ Chosen(w)' /\ xfer'[w].failed = xfer[w].failed
  BY DEF Rejected, GiveUp, Stands, WithdrawalInv, Transfers, Before, Progress, Chosen
<1>3. ~Enough(w)
  BY DEF Rejected, Enough
<1> QED
  BY ONLY <1>1, <1>2, <1>3, WithdrawalInv, ApartKeeps, w \in Withdrawals

LEMMA ConfirmKeeps ==
  ASSUME WithdrawalInv, NEW w \in Withdrawals, Confirm(w)
  PROVE  WithdrawalInv'
<1> USE InvAt, WalletSame, ProceedIs
<1>1. Apart(w)
  BY DEF Confirm, Stands, Apart, WithdrawalInv, Transfers, Before, Withdrawn
<1>2. Progress(w)' /\ Chosen(w)' /\ Enough(w)' /\ xfer'[w].failed = xfer[w].failed
  BY DEF Confirm, Stands, WithdrawalInv, Transfers, Before, Progress, Chosen, Enough
<1> QED
  BY ONLY <1>1, <1>2, WithdrawalInv, ApartKeeps, w \in Withdrawals

LEMMA CompleteKeeps ==
  ASSUME WithdrawalInv, NEW w \in Withdrawals, Complete(w)
  PROVE  WithdrawalInv'
<1> USE InvAt, WalletSame, ProceedIs
<1>0. xfer[w].first \in {"compound", "final"}
  BY DEF Xfers
<1>1. Apart(w)
  BY <1>0 DEF Complete, SetStatus, Stands, Apart, WithdrawalInv, Transfers, Before, Withdrawn
<1>2. Progress(w)' /\ Chosen(w)' /\ Enough(w)' /\ xfer'[w].failed = xfer[w].failed
  BY DEF Complete, SetStatus, Stands, WithdrawalInv, Transfers, Before, Withdrawn, Progress, Chosen, Enough
<1> QED
  BY ONLY <1>1, <1>2, WithdrawalInv, ApartKeeps, w \in Withdrawals

LEMMA FailKeeps ==
  ASSUME WithdrawalInv, NEW w \in Withdrawals, RequestFails(w)
  PROVE  WithdrawalInv'
<1> USE InvAt, WalletSame
<1>1. /\ \A v \in Withdrawals \ {w} : xfer'[v] = xfer[v]
      /\ xfer' \in [Withdrawals -> Xfers]
      /\ xfer'[w].pc = "end" /\ xfer'[w].inputs = xfer[w].inputs /\ xfer'[w].failed
  BY ZenonT(60) DEF RequestFails, Xfers
<1>2. Apart(w)
  BY <1>1 DEF RequestFails, Stands, Apart, Before
<1>3. Progress(w)' /\ Chosen(w)'
  BY <1>1 DEF RequestFails, Stands, Before, Progress, Chosen
<1> QED
  BY ONLY <1>1, <1>2, <1>3, WithdrawalInv, ApartKeeps, w \in Withdrawals

-----------------------------------------------------------------------------
(* Outputs that arrive, ripen and are spent *)

\* Being informed of outputs changes what a request knows of them, not what it does.
LEMMA InformedIs ==
  ASSUME NEW y \in [Withdrawals -> Xfers], NEW left, NEW arrived \in BOOLEAN,
         xfer' = Informed(y, left, arrived)
  PROVE  /\ xfer' \in [Withdrawals -> Xfers]
         /\ \A w \in Withdrawals :
               /\ xfer'[w].pc = y[w].pc /\ xfer'[w].inputs = y[w].inputs
               /\ xfer'[w].failed = y[w].failed
               /\ xfer'[w].unsettled = (y[w].unsettled /\ left # {})
<1>1. ASSUME NEW w \in Withdrawals
      PROVE  /\ xfer'[w] \in Xfers
             /\ xfer'[w].pc = y[w].pc /\ xfer'[w].inputs = y[w].inputs
             /\ xfer'[w].failed = y[w].failed
             /\ xfer'[w].unsettled = (y[w].unsettled /\ left # {})
  <2>1. y[w] \in Xfers
    OBVIOUS
  <2>2. CASE ~y[w].unsettled
    BY <2>1, <2>2 DEF Informed, Xfers
  <2>3. CASE y[w].unsettled
    BY <2>1, <2>3 DEF Informed, Xfers
  <2> QED
    BY <2>2, <2>3
<1>2. xfer' = [w \in Withdrawals |-> xfer'[w]]
  BY DEF Informed
<1> QED
  BY <1>1, <1>2

\* An output that arrives adds to the wallet, one that ripens to what can be spent.
LEMMA ArriveKeeps ==
  ASSUME WithdrawalInv, NEW c \in Coins, Arrive(c)
  PROVE  WithdrawalInv'
<1>1. /\ c \in External /\ c \notin Made /\ c \notin Unspents
      /\ \A w \in Withdrawals : c \notin xfer[w].inputs
  BY WithdrawalAssumption DEF Arrive, External
<1>2. /\ Unspents' = Unspents \cup {c} /\ coins'[c] = FundAmount[c]
      /\ pending' = pending \cup {c}
      /\ \A d \in Unspents : coins'[d] = coins[d]
  BY <1>1 DEF Arrive, Unspents
<1>3. FundAmount[c] \in Nat \ {0}
  BY <1>1, WithdrawalAssumption
<1>4. WithdrawalTypeOK /\ xfer \in [Withdrawals -> Xfers] /\ IsFiniteSet(Unspents)
      /\ Transfers
  BY DEF WithdrawalInv, Transfers, WithdrawalTypeOK, Xfers
<1>5. /\ xfer' \in [Withdrawals -> Xfers]
      /\ \A w \in Withdrawals :
            /\ xfer'[w].pc = xfer[w].pc /\ xfer'[w].inputs = xfer[w].inputs
            /\ xfer'[w].failed = xfer[w].failed /\ xfer'[w].unsettled = xfer[w].unsettled
  <2>1. xfer' = Informed(xfer, pending', TRUE) /\ pending' # {}
    BY <1>2 DEF Arrive
  <2>2. \A w \in Withdrawals : xfer[w].unsettled \in BOOLEAN
    BY <1>4 DEF Xfers
  <2>3. /\ xfer' \in [Withdrawals -> Xfers]
        /\ \A w \in Withdrawals :
              /\ xfer'[w].pc = xfer[w].pc /\ xfer'[w].inputs = xfer[w].inputs
              /\ xfer'[w].failed = xfer[w].failed
              /\ xfer'[w].unsettled = (xfer[w].unsettled /\ pending' # {})
    BY <1>4, <2>1, InformedIs, Zenon
  <2>4. \A w \in Withdrawals : xfer'[w].unsettled = xfer[w].unsettled
    BY <2>1, <2>2, <2>3
  <2> QED
    BY <2>3, <2>4
<1>6. order' = order /\ paid' = paid
  BY DEF Arrive
<1>7. WithdrawalTypeOK' /\ IsFiniteSet(Unspents)'
  <2>1. IsFiniteSet(Unspents \cup {c})
    BY <1>4, FS_AddElement
  <2> QED
    BY <1>1, <1>2, <1>3, <1>4, <1>5, <1>6, <2>1 DEF WithdrawalTypeOK, Xfers, Coins
<1>8. Unmade'
  <2>1. \A u \in Withdrawals : <<"compound", u>> # c /\ <<"change", u>> # c
    BY <1>1 DEF Made
  <2> QED
    BY <2>1, <1>2, <1>4, <1>5 DEF Transfers, Unmade
<1>9. /\ Total' = FundAmount[c] + Total /\ Mature' = Mature /\ Total \in Nat
  <2>1. \A d \in Unspents : coins[d] \in Nat /\ coins'[d] = coins[d]
    BY <1>2, <1>4 DEF WithdrawalTypeOK
  <2>2. PICK g : g = coins'
    OBVIOUS
  <2>3. SumFunctionOnSet(g, Unspents \cup {c}) = g[c] + SumFunctionOnSet(g, Unspents)
    BY <1>1, <1>2, <1>3, <1>4, <2>1, <2>2, SumAdd
  <2>4. SumFunctionOnSet(g, Unspents) = Worth(Unspents)
    BY <1>4, <2>1, <2>2, WorthKept
  <2>5. SumFunctionOnSet(g, Unspents \ pending) = Worth(Unspents \ pending)
    BY <1>4, <2>1, <2>2, WorthKept
  <2>6. Unspents' \ pending' = Unspents \ pending
    BY <1>1, <1>2
  <2>7. Worth(Unspents) \in Nat
    BY <1>4, WorthIs
  <2> QED
    BY <1>2, <2>2, <2>3, <2>4, <2>5, <2>6, <2>7 DEF Total, Mature, Worth
<1>10. ASSUME NEW v \in Withdrawals
       PROVE  Progress(v)' /\ Chosen(v)' /\ Fair(v)'
  <2>1. Progress(v) /\ Chosen(v) /\ Fair(v)
    BY InvAt
  <2>2. Spendable(v)' = Spendable(v)
    BY <1>1, <1>2, <1>5 DEF Spendable
  <2>3. Progress(v)'
    BY <2>1, <1>5, <1>6 DEF Progress
  <2>4. Spendable(v) => Worth(xfer[v].inputs)' = Worth(xfer[v].inputs)
    <3>1. SUFFICES ASSUME Spendable(v)
                   PROVE  SumFunctionOnSet(coins', xfer[v].inputs) = Worth(xfer[v].inputs)
      BY <1>5 DEF Worth
    <3> QED
      BY <3>1, <1>2, <1>4, WorthKept DEF Spendable
  <2>5. Chosen(v)'
    BY <2>1, <2>2, <2>4, <1>5 DEF Chosen
  <2>6. Rival(v) => Rival(v)'
    BY <1>2, <1>6 DEF Rival
  <2>7. Enough(v) => Enough(v)'
    BY <1>3, <1>5, <1>6, <1>9, <2>2, WithdrawalAssumption DEF Enough
  <2> QED
    BY <2>1, <2>3, <2>5, <2>6, <2>7, <1>5 DEF Fair
<1> QED
  BY <1>7, <1>8, <1>10 DEF WithdrawalInv, Transfers

LEMMA RipenKeeps ==
  ASSUME WithdrawalInv, NEW c \in Coins, Ripen(c)
  PROVE  WithdrawalInv'
<1>1. coins' = coins /\ order' = order /\ paid' = paid /\ pending' = pending \ {c}
      /\ Unspents' = Unspents
  BY DEF Ripen, Unspents
<1>2. Transfers /\ xfer \in [Withdrawals -> Xfers]
  BY DEF WithdrawalInv, Transfers, WithdrawalTypeOK, Xfers
<1>3. /\ xfer' \in [Withdrawals -> Xfers]
      /\ \A w \in Withdrawals :
            /\ xfer'[w].pc = xfer[w].pc /\ xfer'[w].inputs = xfer[w].inputs
            /\ xfer'[w].failed = xfer[w].failed
            /\ xfer'[w].unsettled = (xfer[w].unsettled /\ pending' # {})
  <2>1. xfer' = Informed(xfer, pending', FALSE)
    BY DEF Ripen
  <2> QED
    BY <1>2, <2>1, InformedIs, Zenon
<1>4. WithdrawalTypeOK' /\ IsFiniteSet(Unspents)' /\ Unmade'
  BY <1>1, <1>2, <1>3 DEF Transfers, WithdrawalTypeOK, Xfers, Unmade
<1>5. /\ Total' = Total /\ Mature \in Nat /\ Mature' \in Nat /\ Mature <= Mature'
      /\ pending' = {} => Mature' = Total
  <2>1. Unspents \ pending \in SUBSET (Unspents \ pending') /\ Unspents \ pending' \in SUBSET Unspents
    BY <1>1
  <2>2. PICK S : S = Unspents \ pending'
    OBVIOUS
  <2>3. Worth(Unspents \ pending) \in Nat /\ Worth(S) \in Nat
        /\ Worth(Unspents \ pending) <= Worth(S)
    BY <1>2, <2>1, <2>2, WorthIs
  <2>4. pending' = {} => S = Unspents
    BY <2>2
  <2> QED
    BY <1>1, <2>2, <2>3, <2>4 DEF Total, Mature, Worth
<1>6. ASSUME NEW v \in Withdrawals
      PROVE  Progress(v)' /\ Chosen(v)' /\ Fair(v)'
  <2>1. Progress(v) /\ Chosen(v) /\ Fair(v)
    BY InvAt
  <2>2. /\ AmountOf[v] \in Nat /\ Total \in Nat
        /\ Spendable(v)' = Spendable(v)
        /\ Worth(xfer[v].inputs)' = Worth(xfer[v].inputs)
    BY <1>1, <1>3, InvAt DEF Spendable, Worth
  <2>3. Progress(v)' /\ Chosen(v)'
    BY <2>1, <2>2, <1>1, <1>3 DEF Progress, Chosen
  <2>4. Rival(v) => Rival(v)'
    BY <1>1 DEF Rival
  <2>5. Enough(v) => Enough(v)'
    <3>1. xfer'[v].pc = xfer[v].pc
          /\ (~xfer'[v].unsettled => ~xfer[v].unsettled \/ pending' = {})
      BY <1>3
    <3> QED
      BY <3>1, <1>1, <1>5, <2>2 DEF Enough
  <2> QED
    BY <2>1, <2>3, <2>4, <2>5, <1>3 DEF Fair
<1> QED
  BY <1>4, <1>6 DEF WithdrawalInv, Transfers

\* The outputs after a transaction: those it spends are gone, and c is there if it is worth anything.
LEMMA SpendIs ==
  ASSUME Transfers, NEW w \in Withdrawals, NEW c \in Coins, c \notin Unspents,
         NEW m \in Nat, Spend(w, c, m)
  PROVE  /\ Unspents' \ {c} = Unspents \ xfer[w].inputs
         /\ m # 0 => c \in Unspents'
         /\ Unspents' \subseteq Coins /\ pending' \subseteq Unspents' /\ IsFiniteSet(Unspents')
         /\ \A d \in Unspents' : coins'[d] \in Nat \ {0}
         /\ \A d \in Unspents' \ {c} : coins'[d] = coins[d]
         /\ c \in Unspents' => coins'[c] = m
<1>1. PICK made : made = IF m = 0 THEN {} ELSE {c}
  OBVIOUS
<1>2. PICK kept : kept = Unspents \ xfer[w].inputs
  OBVIOUS
<1>3. /\ coins' = [d \in kept \cup made |-> IF d = c THEN m ELSE coins[d]]
      /\ pending' = (pending \ xfer[w].inputs) \cup made
  BY <1>1, <1>2, Zenon DEF Spend
<1>4. Unspents' = kept \cup made
  BY <1>3 DEF Unspents
<1>5. IsFiniteSet(kept \cup made)
  <2>1. IsFiniteSet(kept)
    BY <1>2, FS_Subset DEF Transfers
  <2>2. kept \cup made = kept \/ kept \cup made = kept \cup {c}
    BY <1>1
  <2> QED
    BY <2>1, <2>2, FS_AddElement
<1>6. /\ Unspents \subseteq Coins /\ \A d \in Unspents : coins[d] \in Nat \ {0}
      /\ pending \subseteq Unspents
  BY DEF Transfers, WithdrawalTypeOK
<1> QED
  BY <1>1, <1>2, <1>3, <1>4, <1>5, <1>6

\* What a transaction of w leaves to the other withdrawals, whose states keep what they were.
LEMMA OthersKeep ==
  ASSUME WithdrawalInv, NEW w \in Withdrawals, NEW c \in Coins, c \notin Unspents,
         NEW m \in Nat, Spend(w, c, m),
         NEW v \in Withdrawals, v # w, c \notin xfer[v].inputs,
         xfer'[v].pc = xfer[v].pc, xfer'[v].inputs = xfer[v].inputs,
         order' = order, paid'[v] = paid[v], paid'[w] > 0 \/ <<"compound", w>> \in Unspents'
  PROVE  Progress(v)' /\ Chosen(v)' /\ Fair(v)'
<1>0. Transfers /\ Progress(v) /\ Chosen(v)
  BY InvAt DEF WithdrawalInv
<1>1. /\ Unspents' \ {c} = Unspents \ xfer[w].inputs
      /\ \A d \in Unspents' \ {c} : coins'[d] = coins[d]
  BY <1>0, SpendIs
<1>2. Progress(v)'
  BY <1>0 DEF Progress
<1>3. Fair(v)'
  BY DEF Fair, Rival
<1>4. Spendable(v)' => Spendable(v) /\ Worth(xfer[v].inputs)' = Worth(xfer[v].inputs)
  <2>1. SUFFICES ASSUME Spendable(v)'
                 PROVE  xfer[v].inputs \subseteq Unspents
                        /\ SumFunctionOnSet(coins', xfer[v].inputs) = Worth(xfer[v].inputs)
    BY DEF Worth, Spendable
  <2>2. xfer[v].inputs \subseteq Unspents' \ {c}
    BY <2>1 DEF Spendable
  <2>3. xfer[v].inputs \subseteq Unspents /\ \A d \in xfer[v].inputs : coins'[d] = coins[d]
    BY <2>2, <1>1
  <2> QED
    BY <2>3, <1>0, WorthKept
<1>5. Chosen(v)'
  BY <1>0, <1>4 DEF Chosen
<1> QED
  BY <1>2, <1>3, <1>5

\* The transactions: w spends its inputs, whose worth is then in what it makes.
LEMMA CompoundKeeps ==
  ASSUME WithdrawalInv, NEW w \in Withdrawals, SubmitCompound(w)
  PROVE  WithdrawalInv'
<1> DEFINE c == <<"compound", w>>
<1>1. PICK m : m = Worth(xfer[w].inputs)
  OBVIOUS
<1>2. PICK y : y = [xfer EXCEPT ![w].pc = "final", ![w].inputs = {c}]
  OBVIOUS
<1>3. /\ xfer[w].pc = "compound" /\ Spendable(w) /\ Spend(w, c, m)
      /\ xfer' = Informed(y, pending', TRUE) /\ order' = order /\ paid' = paid
  BY <1>1, <1>2 DEF SubmitCompound, Stands
<1>4. /\ Transfers /\ Progress(w) /\ Chosen(w) /\ xfer \in [Withdrawals -> Xfers]
      /\ AmountOf[w] \in Nat /\ MinimalAmount \in Nat
  BY InvAt DEF WithdrawalInv
<1>5. m \in Nat /\ m >= AmountOf[w] /\ m # 0 /\ AmountOf[w] > MinimalAmount
  <2>1. xfer[w].inputs \in SUBSET Unspents
    BY <1>3 DEF Spendable
  <2>2. m \in Nat
    BY <1>1, <1>4, <2>1, WorthIs
  <2> QED
    BY <1>1, <1>3, <1>4, <2>2 DEF Chosen
<1>6. c \in Coins /\ c \notin Unspents /\ c \in Made
      /\ \A v \in Withdrawals : c \notin xfer[v].inputs
  BY <1>3, <1>4 DEF Transfers, Unmade, Before, Coins, Made
<1>7. y \in [Withdrawals -> Xfers]
      /\ y[w].pc = "final" /\ y[w].inputs = {c} /\ y[w].failed = xfer[w].failed
      /\ \A v \in Withdrawals \ {w} : y[v] = xfer[v]
  BY <1>2, <1>4, <1>6 DEF Xfers
<1>8. /\ xfer' \in [Withdrawals -> Xfers]
      /\ \A v \in Withdrawals :
            xfer'[v].pc = y[v].pc /\ xfer'[v].inputs = y[v].inputs /\ xfer'[v].failed = y[v].failed
  BY <1>3, <1>7, InformedIs, Zenon
<1>9. /\ Unspents' \ {c} = Unspents \ xfer[w].inputs /\ c \in Unspents' /\ coins'[c] = m
      /\ Unspents' \subseteq Coins /\ pending' \subseteq Unspents' /\ IsFiniteSet(Unspents')
      /\ \A d \in Unspents' : coins'[d] \in Nat \ {0}
  BY <1>3, <1>4, <1>5, <1>6, SpendIs
<1>10. WithdrawalTypeOK'
  BY <1>3, <1>4, <1>8, <1>9 DEF Transfers, WithdrawalTypeOK, Xfers
<1>11. Unmade'
  <2>1. ASSUME NEW u \in Withdrawals, NEW v \in Withdrawals
        PROVE  /\ xfer'[u].pc \in Before =>
                     <<"compound", u>> \notin Unspents' \cup xfer'[v].inputs
               /\ xfer'[u].pc \in Before \cup {"final"} =>
                     <<"change", u>> \notin Unspents' \cup xfer'[v].inputs
    <3>1. /\ xfer'[v].inputs \subseteq xfer[v].inputs \cup {c}
          /\ Unspents' \subseteq Unspents \cup {c}
      BY <1>7, <1>8, <1>9
    <3>2. /\ xfer[u].pc \in Before => <<"compound", u>> \notin Unspents \cup xfer[v].inputs
          /\ xfer[u].pc \in Before \cup {"final"} =>
                <<"change", u>> \notin Unspents \cup xfer[v].inputs
      BY <1>4 DEF Transfers, Unmade
    <3>3. CASE u = w
      <4>1. xfer'[u].pc = "final" /\ xfer[u].pc = "compound" /\ <<"change", u>> # c
        BY <3>3, <1>3, <1>7, <1>8
      <4> QED
        BY <4>1, <3>1, <3>2 DEF Before
    <3>4. CASE u # w
      <4>1. xfer'[u].pc = xfer[u].pc /\ <<"compound", u>> # c /\ <<"change", u>> # c
        BY <3>4, <1>7, <1>8
      <4> QED
        BY <4>1, <3>1, <3>2
    <3> QED
      BY <3>3, <3>4
  <2> QED
    BY <2>1 DEF Unmade
<1>12. Progress(w)' /\ Chosen(w)' /\ Fair(w)'
  <2>1. xfer'[w].pc = "final" /\ xfer'[w].inputs = {c} /\ xfer'[w].failed = xfer[w].failed
    BY <1>7, <1>8
  <2>2. Worth(xfer[w].inputs)' = m
    <3>1. PICK g : g = coins'
      OBVIOUS
    <3>2. PICK T : T = {c}
      OBVIOUS
    <3>3. IsFiniteSet(T) /\ c \in T /\ T \ {c} = {} /\ \A d \in T : g[d] \in Int
      <4>1. IsFiniteSet(T)
        <5> HIDE DEF c
        <5> QED
          BY <3>2, FS_Singleton
      <4> QED
        BY <3>1, <3>2, <4>1, <1>5, <1>9
    <3>4. SumFunctionOnSet(g, T) = g[c] + SumFunctionOnSet(g, {})
      BY <3>3, SumRemove
    <3>5. SumFunctionOnSet(g, {}) = 0
      BY SumEmpty
    <3>6. SumFunctionOnSet(g, T) = m
      BY <3>1, <3>4, <3>5, <1>5, <1>9
    <3> QED
      BY <3>1, <3>2, <3>6, <2>1 DEF Worth
  <2>3. Chosen(w)'
    BY <2>1, <2>2, <1>5 DEF Chosen
  <2>4. Enough(w)'
    BY <2>1, <1>9 DEF Enough, Spendable
  <2>5. Progress(w)'
    BY <2>1, <1>3, <1>4 DEF Progress, Before
  <2> QED
    BY <2>3, <2>4, <2>5 DEF Fair
<1>13. ASSUME NEW v \in Withdrawals, v # w
       PROVE  Progress(v)' /\ Chosen(v)' /\ Fair(v)'
  <2>1. xfer'[v].pc = xfer[v].pc /\ xfer'[v].inputs = xfer[v].inputs
    BY <1>7, <1>8, <1>13
  <2> QED
    BY <2>1, <1>3, <1>5, <1>6, <1>9, <1>13, OthersKeep
<1> QED
  BY <1>9, <1>10, <1>11, <1>12, <1>13 DEF WithdrawalInv, Transfers

LEMMA FinalKeeps ==
  ASSUME WithdrawalInv, NEW w \in Withdrawals, SubmitFinal(w)
  PROVE  WithdrawalInv'
<1> DEFINE c == <<"change", w>>
<1>1. PICK m : m = Worth(xfer[w].inputs) - AmountOf[w]
  OBVIOUS
<1>2. PICK y : y = [xfer EXCEPT ![w].pc = "confirm"]
  OBVIOUS
<1>3. /\ xfer[w].pc = "final" /\ Spendable(w) /\ Spend(w, c, m)
      /\ xfer' = Informed(y, pending', m > 0) /\ order' = order
      /\ paid' = [paid EXCEPT ![w] = @ + 1]
  BY <1>1, <1>2 DEF SubmitFinal, Stands
<1>4. /\ Transfers /\ Progress(w) /\ Chosen(w) /\ xfer \in [Withdrawals -> Xfers]
      /\ AmountOf[w] \in Nat
  BY InvAt DEF WithdrawalInv
<1>5. m \in Nat
  <2>1. xfer[w].inputs \in SUBSET Unspents
    BY <1>3 DEF Spendable
  <2>2. Worth(xfer[w].inputs) \in Nat
    BY <1>4, <2>1, WorthIs
  <2> QED
    BY <1>1, <1>3, <1>4, <2>2 DEF Chosen
<1>6. c \in Coins /\ c \notin Unspents /\ c \in Made
      /\ \A v \in Withdrawals : c \notin xfer[v].inputs
  BY <1>3, <1>4 DEF Transfers, Unmade, Before, Coins, Made
<1>7. /\ y \in [Withdrawals -> Xfers] /\ y[w].pc = "confirm"
      /\ \A v \in Withdrawals : y[v].inputs = xfer[v].inputs
      /\ \A v \in Withdrawals \ {w} : y[v] = xfer[v]
  BY <1>2, <1>4 DEF Xfers
<1>8. /\ xfer' \in [Withdrawals -> Xfers]
      /\ \A v \in Withdrawals :
            xfer'[v].pc = y[v].pc /\ xfer'[v].inputs = y[v].inputs /\ xfer'[v].failed = y[v].failed
  <2>1. (m > 0) \in BOOLEAN
    OBVIOUS
  <2> QED
    BY <2>1, <1>3, <1>7, InformedIs, Zenon
<1>9. /\ Unspents' \ {c} = Unspents \ xfer[w].inputs
      /\ Unspents' \subseteq Coins /\ pending' \subseteq Unspents' /\ IsFiniteSet(Unspents')
      /\ \A d \in Unspents' : coins'[d] \in Nat \ {0}
  BY <1>3, <1>4, <1>5, <1>6, SpendIs
<1>10. paid' \in [Withdrawals -> Nat] /\ paid'[w] = 1 /\ \A v \in Withdrawals \ {w} : paid'[v] = paid[v]
  BY <1>3, <1>4 DEF Transfers, WithdrawalTypeOK, Progress
<1>11. WithdrawalTypeOK'
  BY <1>3, <1>4, <1>8, <1>9, <1>10 DEF Transfers, WithdrawalTypeOK, Xfers
<1>12. Unmade'
  <2>1. ASSUME NEW u \in Withdrawals, NEW v \in Withdrawals
        PROVE  /\ xfer'[u].pc \in Before =>
                     <<"compound", u>> \notin Unspents' \cup xfer'[v].inputs
               /\ xfer'[u].pc \in Before \cup {"final"} =>
                     <<"change", u>> \notin Unspents' \cup xfer'[v].inputs
    <3>1. xfer'[v].inputs = xfer[v].inputs /\ Unspents' \subseteq Unspents \cup {c}
      BY <1>7, <1>8, <1>9
    <3>2. /\ xfer[u].pc \in Before => <<"compound", u>> \notin Unspents \cup xfer[v].inputs
          /\ xfer[u].pc \in Before \cup {"final"} =>
                <<"change", u>> \notin Unspents \cup xfer[v].inputs
      BY <1>4 DEF Transfers, Unmade
    <3>3. CASE u = w
      <4>1. xfer'[u].pc = "confirm"
        BY <3>3, <1>7, <1>8
      <4> QED
        BY <4>1 DEF Before
    <3>4. CASE u # w
      <4>1. xfer'[u].pc = xfer[u].pc /\ <<"compound", u>> # c /\ <<"change", u>> # c
        BY <3>4, <1>7, <1>8
      <4> QED
        BY <4>1, <3>1, <3>2
    <3> QED
      BY <3>3, <3>4
  <2> QED
    BY <2>1 DEF Unmade
<1>13. Progress(w)' /\ Chosen(w)' /\ Fair(w)'
  <2>1. xfer'[w].pc = "confirm"
    BY <1>7, <1>8
  <2> QED
    BY <2>1, <1>3, <1>4, <1>10 DEF Progress, Before, Chosen, Fair, Enough
<1>14. ASSUME NEW v \in Withdrawals, v # w
       PROVE  Progress(v)' /\ Chosen(v)' /\ Fair(v)'
  <2>1. xfer'[v].pc = xfer[v].pc /\ xfer'[v].inputs = xfer[v].inputs /\ paid'[v] = paid[v]
        /\ paid'[w] > 0
    BY <1>7, <1>8, <1>10, <1>14
  <2> QED
    BY <2>1, <1>3, <1>5, <1>6, <1>9, <1>14, OthersKeep
<1> QED
  BY <1>9, <1>11, <1>12, <1>13, <1>14 DEF WithdrawalInv, Transfers

-----------------------------------------------------------------------------
(* The theorems about withdrawals *)

LEMMA WithdrawalsInitially ==
  ASSUME WithdrawalInit
  PROVE  WithdrawalInv
<1>1. /\ Unspents = Funds /\ Funds \subseteq External /\ External \cap Made = {} /\ pending = {}
      /\ \A c \in Funds : coins[c] = FundAmount[c] /\ FundAmount[c] \in Nat \ {0}
      /\ \A w \in Withdrawals : xfer[w].inputs = {} /\ xfer[w].pc = "create"
  BY WithdrawalAssumption DEF WithdrawalInit, Unspents, External
<1>2. WithdrawalTypeOK /\ IsFiniteSet(Unspents)
  BY <1>1, WithdrawalAssumption DEF WithdrawalInit, WithdrawalTypeOK, Coins
<1>3. Unmade
  <2>1. \A u \in Withdrawals : <<"compound", u>> \in Made /\ <<"change", u>> \in Made
    BY DEF Made
  <2> QED
    BY <1>1, <2>1 DEF Unmade
<1>4. \A w \in Withdrawals : Progress(w) /\ Chosen(w) /\ Enough(w)
  BY <1>1 DEF WithdrawalInit, Progress, Chosen, Enough, Before
<1> QED
  BY <1>2, <1>3, <1>4 DEF WithdrawalInv, Transfers, Fair

LEMMA WithdrawalsNext ==
  ASSUME WithdrawalInv, WithdrawalNext
  PROVE  WithdrawalInv'
<1>1. ASSUME NEW w \in Withdrawals, Create(w) \/ TransferSteps(w) \/ RequestFails(w)
      PROVE  WithdrawalInv'
  BY <1>1, CreateKeeps, BalanceKeeps, RefuseKeeps, TrackKeeps, FundKeeps, FeesKeep, SettledKeeps,
     NotEnoughKeeps, BuildKeeps, CompoundKeeps, FinalKeeps, RejectedKeeps, ConfirmKeeps,
     CompleteKeeps, FailKeeps DEF TransferSteps
<1>2. ASSUME NEW c \in Coins, Arrive(c) \/ Ripen(c)
      PROVE  WithdrawalInv'
  BY <1>2, ArriveKeeps, RipenKeeps
<1> QED
  BY <1>1, <1>2 DEF WithdrawalNext

LEMMA WithdrawalsStand ==
  WithdrawalSpec => []WithdrawalInv
<1>1. ASSUME WithdrawalInv, UNCHANGED withdrawalVars
      PROVE  WithdrawalInv'
  <2>1. /\ order' = order /\ coins' = coins /\ pending' = pending /\ paid' = paid
        /\ xfer' = xfer
    BY <1>1 DEF withdrawalVars
  <2>2. /\ WithdrawalTypeOK' = WithdrawalTypeOK /\ Unspents' = Unspents /\ Unmade' = Unmade
    BY <2>1 DEF WithdrawalTypeOK, Unspents, Unmade
  <2>3. \A w \in Withdrawals :
           Progress(w)' = Progress(w) /\ Chosen(w)' = Chosen(w) /\ Fair(w)' = Fair(w)
    BY <2>1 DEF Progress, Chosen, Fair, Rival, Enough, Total, Mature, Worth, Spendable, Unspents
  <2> QED
    BY <1>1, <2>2, <2>3 DEF WithdrawalInv, Transfers
<1> QED
  BY <1>1, WithdrawalsInitially, WithdrawalsNext, PTL DEF WithdrawalSpec

\* Every variable of the withdrawals keeps its type: in particular no output of the wallet is
\* worth less than nothing, since a request never spends less than it pays.
THEOREM WithdrawalTypes ==
  WithdrawalSpec => []WithdrawalTypeOK
<1>1. WithdrawalInv => WithdrawalTypeOK
  BY DEF WithdrawalInv, Transfers
<1> QED
  BY <1>1, WithdrawalsStand, PTL

\* However many withdrawals share the wallet, and whatever fails when, a receiving wallet is paid
\* once at most, a COMPLETED withdrawal was paid and one that waits for KAS was not
\* (createWithdrawal, doTransactionWithUtxoProcessor).
THEOREM PaidAtMostOnce ==
  WithdrawalSpec => []PaidOnce
<1>1. WithdrawalInv => PaidOnce
  BY DEF WithdrawalInv, Transfers, Progress, PaidOnce
<1> QED
  BY <1>1, WithdrawalsStand, PTL

\* A withdrawal the wallet had enough for ends unpaid only when a call failed or another one took
\* outputs from the wallet, whichever outputs are pending, arrive or ripen meanwhile: a request
\* that goes on after waiting for them finds its amount mature (doTransactionWithUtxoProcessor,
\* waitForPendingUtxoToFinish).
THEOREM OnlyRivalsCost ==
  WithdrawalSpec => []LostOnlyToRival
<1>1. ASSUME WithdrawalInv, NEW w \in Withdrawals,
             Stands(w, "end"), order[w].status = "CREATED", AmountOf[w] > MinimalAmount
      PROVE  xfer[w].failed \/ Rival(w)
  <2>1. Fair(w) /\ AmountOf[w] \in Nat /\ MinimalAmount \in Nat
    BY <1>1, InvAt
  <2> QED
    BY <1>1, <2>1 DEF Fair, Enough, Stands
<1>2. WithdrawalInv => LostOnlyToRival
  BY <1>1 DEF LostOnlyToRival, Rival
<1> QED
  BY <1>2, WithdrawalsStand, PTL

-----------------------------------------------------------------------------
(* The budget of a batch *)

Reserve(n, fee) == Base + Commission(n) + 3 * fee + 3 * MaxMass - Tolerance

StageFunds ==
    /\ stage = "unpaid" => finished = 0
    /\ stage = "mint" => balance >= (mints - finished) * PerMint(limit) + Reserve(mints, limit)
    /\ stage = "mintReveal" =>
           /\ finished < mints /\ balance > Minimal
           /\ balance + locked >= (mints - finished - 1) * PerMint(limit) + MaxMass
                                  + Larger(limit, MintCost) + Reserve(mints, limit)
    /\ stage = "transfer" => balance >= Reserve(mints, limit)
    /\ stage = "transferReveal" =>
           balance > Minimal /\ balance + locked >= Reserve(mints, limit) - MaxMass - limit
    /\ stage = "refund" => balance >= Reserve(mints, limit) - 2 * MaxMass - 2 * limit - TransferCost

BudgetInv == BudgetTypeOK /\ stage # "short" /\ StageFunds

-----------------------------------------------------------------------------
(* The amounts.                                                            *)

LEMMA LargerBounds ==
  ASSUME NEW m \in Nat, NEW n \in Nat
  PROVE  Larger(m, n) \in Nat /\ Larger(m, n) >= m /\ Larger(m, n) >= n /\ Larger(m, n) <= m + n
  BY DEF Larger

LEMMA LargerMonotone ==
  ASSUME NEW m \in Nat, NEW n \in Nat, NEW k \in Nat, m <= n
  PROVE  Larger(m, k) <= Larger(n, k)
  BY DEF Larger

LEMMA ProductMonotone ==
  ASSUME NEW m \in Nat, NEW n \in Nat, NEW k \in Nat, m <= n
  PROVE  m * k \in Nat /\ n * k \in Nat /\ m * k <= n * k
<1>1. PICK d \in Nat : n = m + d
  BY n - m \in Nat
<1>2. n * k = m * k + d * k
  BY <1>1
<1>3. m * k \in Nat /\ d * k \in Nat
  OBVIOUS
<1> QED
  BY <1>2, <1>3

LEMMA HundredthMonotone ==
  ASSUME NEW m \in Nat, NEW n \in Nat, m <= n
  PROVE  m \div 100 \in Nat /\ m \div 100 <= n \div 100
  OBVIOUS

\* A batch that ends early owes no more commission than it was asked for.
LEMMA CommissionMonotone ==
  ASSUME NEW m \in Nat, NEW n \in Nat, m <= n
  PROVE  Commission(m) \in Nat /\ Commission(m) <= Commission(n) /\ Commission(m) >= MinCommission
<1>1. m * Percentage \in Nat /\ n * Percentage \in Nat /\ m * Percentage <= n * Percentage
  BY BudgetAssumption, ProductMonotone
<1>2. /\ m * Percentage * MintCost \in Nat /\ n * Percentage * MintCost \in Nat
      /\ m * Percentage * MintCost <= n * Percentage * MintCost
  BY <1>1, BudgetAssumption, ProductMonotone
<1>3. /\ (m * Percentage * MintCost) \div 100 \in Nat /\ (n * Percentage * MintCost) \div 100 \in Nat
      /\ (m * Percentage * MintCost) \div 100 <= (n * Percentage * MintCost) \div 100
  BY <1>2, HundredthMonotone
<1> QED
  BY <1>3, BudgetAssumption, LargerBounds, LargerMonotone DEF Commission

\* Amounts are rounded up to whole KAS, never down.
LEMMA WholeKasAbove ==
  ASSUME NEW m \in Nat
  PROVE  WholeKas(m) \in Nat /\ WholeKas(m) >= m
<1>1. PICK k \in Nat \ {0} : k = Kas
  BY BudgetAssumption
<1>2. PICK q : q = (m + k - 1) \div k
  OBVIOUS
<1>3. q \in Nat /\ m + k - 1 < q * k + k
  BY <1>2, Z3
<1>4. q * k \in Nat
  BY <1>3
<1>5. WholeKas(m) = q * k
  BY <1>1, <1>2 DEF WholeKas
<1> QED
  BY <1>3, <1>4, <1>5

LEMMA PerMintIs ==
  ASSUME NEW fee \in Nat
  PROVE  PerMint(fee) \in Nat /\ PerMint(fee) = fee + 2 * MaxMass + Larger(fee, MintCost)
<1>1. MintCost \in Nat /\ MaxMass \in Nat
  BY BudgetAssumption
<1>2. PICK l \in Nat : l = Larger(fee, MintCost)
  BY <1>1, LargerBounds
<1>3. PerMint(fee) = fee + (l - MintCost) + 2 * MaxMass + MintCost
  BY <1>2 DEF PerMint
<1> QED
  BY <1>1, <1>2, <1>3

LEMMA ReserveIs ==
  ASSUME NEW n \in Nat, NEW fee \in Nat
  PROVE  /\ Reserve(n, fee) \in Nat
         /\ Reserve(n, fee) > Base + TransferCost + Minimal + 3 * fee + 3 * MaxMass
         /\ Commission(n) \in Nat
         /\ Reserve(n, fee) = Base + Commission(n) + 3 * fee + 3 * MaxMass - Tolerance
  BY BudgetAssumption, CommissionMonotone DEF Reserve

LEMMA RequiredAbove ==
  ASSUME NEW n \in Nat, NEW fee \in Nat
  PROVE  /\ Required(n, fee) \in Nat /\ n * PerMint(fee) \in Nat
         /\ Required(n, fee) - Tolerance >= n * PerMint(fee) + Reserve(n, fee)
<1>1. n * PerMint(fee) \in Nat
  BY PerMintIs
<1>2. Commission(n) \in Nat
  BY CommissionMonotone
<1>3. PICK t \in Nat : t = n * PerMint(fee) + Base + Commission(n) + 3 * fee + 2 * MaxMass + MaxMass
  BY <1>1, <1>2, BudgetAssumption
<1>4. WholeKas(t) \in Nat /\ WholeKas(t) >= t
  BY WholeKasAbove
<1> QED
  BY <1>1, <1>2, <1>3, <1>4, BudgetAssumption DEF Required, Reserve

-----------------------------------------------------------------------------
LEMMA BudgetInvInit == BudgetInit => BudgetInv
  BY BudgetAssumption DEF BudgetInit, BudgetInv, BudgetTypeOK, StageFunds

LEMMA PaidInv == BudgetInv /\ Paid => BudgetInv'
<1> SUFFICES ASSUME BudgetInv, Paid PROVE BudgetInv'
  OBVIOUS
<1>1. PICK n \in 1..MaxMints, f \in FeeLimits :
          /\ mints' = n /\ limit' = f
          /\ balance' \in (Required(n, f) - Tolerance)..(Required(n, f) + Tolerance)
  BY DEF Paid
<1>2. n \in Nat /\ f \in Nat /\ Tolerance \in Nat
  BY BudgetAssumption
<1>3. /\ Required(n, f) \in Nat /\ n * PerMint(f) \in Nat /\ Reserve(n, f) \in Nat
      /\ Required(n, f) - Tolerance >= n * PerMint(f) + Reserve(n, f)
  BY <1>2, RequiredAbove, ReserveIs
<1>4. balance' \in Nat /\ balance' >= n * PerMint(f) + Reserve(n, f)
  BY <1>1, <1>2, <1>3
<1>5. finished = 0 /\ finished' = 0 /\ stage' = "mint" /\ locked' = locked /\ locked \in Nat
  BY DEF Paid, BudgetInv, BudgetTypeOK, StageFunds
<1>6. BudgetTypeOK'
  BY <1>1, <1>2, <1>4, <1>5 DEF BudgetTypeOK
<1>7. (mints' - finished') * PerMint(limit') = n * PerMint(f) /\ Reserve(mints', limit') = Reserve(n, f)
  BY <1>1, <1>2, <1>5
<1>8. StageFunds'
  BY <1>4, <1>5, <1>7 DEF StageFunds
<1> QED
  BY <1>5, <1>6, <1>8 DEF BudgetInv

\* What is known where a transaction is made.
LEMMA StageFacts ==
  ASSUME BudgetInv
  PROVE  /\ limit \in Nat /\ mints \in Nat /\ finished \in Nat /\ finished <= mints /\ balance \in Nat /\ locked \in Nat
         /\ PerMint(limit) \in Nat /\ PerMint(limit) = limit + 2 * MaxMass + Larger(limit, MintCost)
         /\ Larger(limit, MintCost) \in Nat /\ Larger(limit, MintCost) >= MintCost
         /\ Reserve(mints, limit) \in Nat
         /\ Reserve(mints, limit) > Base + TransferCost + Minimal + 3 * limit + 3 * MaxMass
         /\ MaxMass \in Nat /\ MintCost \in Nat /\ TransferCost \in Nat /\ Base \in Nat /\ Minimal \in Nat
         /\ TransferCost <= Base
<1>1. limit \in Nat /\ mints \in Nat /\ finished \in Nat /\ finished <= mints /\ balance \in Nat /\ locked \in Nat
  BY BudgetAssumption DEF BudgetInv, BudgetTypeOK
<1> QED
  BY <1>1, PerMintIs, ReserveIs, LargerBounds, BudgetAssumption

\* A commit takes the amount it locks, and its fees.
LEMMA CommitTakes ==
  ASSUME BudgetInv, NEW cost \in Nat, NEW next, CommitOf(cost, next), next # "short",
         balance >= Larger(Base, cost) + MaxMass + limit
  PROVE  /\ stage' = next /\ locked' = Larger(Base, cost) /\ locked' \in Nat /\ balance' \in Nat
         /\ balance' >= balance - Larger(Base, cost) - MaxMass - limit
<1>1. PICK l \in Nat : l = Larger(Base, cost)
  BY LargerBounds, StageFacts
<1>2. PICK m \in Masses, p \in Priorities : Take(l + m + p, balance, l, next)
  BY <1>1 DEF CommitOf
<1>3. m \in Nat /\ m <= MaxMass /\ p \in Nat /\ p <= limit /\ balance \in Nat /\ limit \in Nat /\ MaxMass \in Nat
  BY StageFacts DEF Masses, Priorities
<1>4. ~(balance < l + m + p)
  BY <1>1, <1>3
<1>5. stage' = next /\ locked' = l /\ balance' = balance - (l + m + p)
  BY <1>2, <1>4 DEF Take
<1> QED
  BY <1>1, <1>3, <1>4, <1>5

\* A reveal spends what the commit locked, and takes its fees from both.
LEMMA RevealTakes ==
  ASSUME BudgetInv, NEW cost \in Nat, NEW next, RevealOf(cost, next), next # "short",
         balance + locked >= MaxMass + Larger(limit, cost)
  PROVE  /\ stage' = next /\ locked' = 0 /\ balance' \in Nat
         /\ balance' >= balance + locked - MaxMass - Larger(limit, cost)
<1>1. PICK m \in Masses, p \in Priorities : Take(m + Larger(p, cost), balance + locked, 0, next)
  BY DEF RevealOf
<1>2. m \in Nat /\ m <= MaxMass /\ p \in Nat /\ p <= limit /\ balance \in Nat /\ locked \in Nat
      /\ limit \in Nat /\ MaxMass \in Nat
  BY StageFacts DEF Masses, Priorities
<1>3. PICK l \in Nat : l = Larger(p, cost)
  BY <1>2, LargerBounds
<1>4. PICK h \in Nat : h = Larger(limit, cost)
  BY <1>2, LargerBounds
<1>5. l <= h
  BY <1>2, <1>3, <1>4, LargerMonotone
<1>6. ~(balance + locked < m + l)
  <2>1. Larger(limit, cost) \in Nat /\ balance + locked >= MaxMass + Larger(limit, cost)
    BY <1>4
  <2>2. balance + locked >= MaxMass + h
    BY <1>2, <1>4, <2>1
  <2> QED
    BY <1>2, <1>3, <1>4, <1>5, <2>2
<1>7. stage' = next /\ locked' = 0 /\ balance' = balance + locked - (m + l)
  BY <1>1, <1>2, <1>3, <1>6 DEF Take
<1> QED
  BY <1>2, <1>4, <1>5, <1>6, <1>7

\* The funds of the mints to come, with one mint split off.
LEMMA OneMintLess ==
  ASSUME NEW n \in Nat, NEW k \in Nat, k < n, NEW p \in Nat
  PROVE  /\ (n - k - 1) * p \in Nat /\ (n - k) * p \in Nat
         /\ (n - k) * p = (n - k - 1) * p + p
<1>1. PICK d \in Nat : n = k + d + 1
  BY n - k - 1 \in Nat
<1>2. n - k - 1 = d /\ n - k = d + 1
  BY <1>1
<1>3. (d + 1) * p = d * p + p /\ d * p \in Nat /\ (d + 1) * p \in Nat
  OBVIOUS
<1> QED
  BY <1>2, <1>3

LEMMA MintCommitInv == BudgetInv /\ MintCommit => BudgetInv'
<1> SUFFICES ASSUME BudgetInv, MintCommit PROVE BudgetInv'
  OBVIOUS
<1>1. PICK n \in Nat, k \in Nat, f \in Nat : n = mints /\ k = finished /\ f = limit
  BY StageFacts
<1>2. PICK p \in Nat, r \in Nat, h \in Nat, l \in Nat :
          p = PerMint(f) /\ r = Reserve(n, f) /\ h = Larger(f, MintCost) /\ l = Larger(Base, MintCost)
  BY <1>1, StageFacts, LargerBounds
<1>3. k < n /\ stage = "mint" /\ CommitOf(MintCost, "mintReveal") /\ UNCHANGED <<mints, limit, finished>>
  BY <1>1 DEF MintCommit
<1>4. PICK q \in Nat : q = (n - k - 1) * p /\ (n - k) * p = q + p
  BY <1>3, OneMintLess
<1>5. /\ balance \in Nat /\ balance >= q + p + r /\ p = f + 2 * MaxMass + h
      /\ r > Base + TransferCost + Minimal + 3 * f + 3 * MaxMass
      /\ h >= MintCost /\ l <= Base + MintCost /\ MaxMass \in Nat /\ MintCost \in Nat /\ Base \in Nat
      /\ TransferCost \in Nat /\ Minimal \in Nat
  BY <1>1, <1>2, <1>3, <1>4, StageFacts, LargerBounds DEF BudgetInv, StageFunds
<1>6. balance >= Larger(Base, MintCost) + MaxMass + limit /\ MintCost \in Nat
  BY <1>1, <1>2, <1>5
<1>7. /\ stage' = "mintReveal" /\ locked' = l /\ balance' \in Nat
      /\ balance' >= balance - l - MaxMass - f
  <2>1. /\ stage' = "mintReveal" /\ locked' = Larger(Base, MintCost) /\ balance' \in Nat
        /\ balance' >= balance - Larger(Base, MintCost) - MaxMass - limit
    BY <1>3, <1>6, CommitTakes
  <2> QED
    BY <1>1, <1>2, <1>5, <2>1, StageFacts
<1>8. balance' > Minimal /\ balance' + l >= q + MaxMass + h + r
  <2>1. PICK b \in Nat, d \in Nat : b = balance /\ d = balance'
    BY <1>5, <1>7
  <2>2. b >= q + p + r /\ d >= b - l - MaxMass - f
    BY <1>5, <1>7, <2>1
  <2>3. d > Minimal /\ d + l >= q + MaxMass + h + r
    BY <1>5, <2>2
  <2> QED
    BY <2>1, <2>3
<1>9. BudgetTypeOK'
  BY <1>2, <1>3, <1>7 DEF BudgetInv, BudgetTypeOK
<1>10. StageFunds'
  BY <1>1, <1>2, <1>3, <1>4, <1>7, <1>8 DEF StageFunds
<1> QED
  BY <1>7, <1>9, <1>10 DEF BudgetInv

LEMMA MintRevealInv == BudgetInv /\ MintReveal => BudgetInv'
<1> SUFFICES ASSUME BudgetInv, MintReveal PROVE BudgetInv'
  OBVIOUS
<1>1. PICK n \in Nat, k \in Nat, f \in Nat : n = mints /\ k = finished /\ f = limit
  BY StageFacts
<1>2. PICK p \in Nat, r \in Nat, h \in Nat : p = PerMint(f) /\ r = Reserve(n, f) /\ h = Larger(f, MintCost)
  BY <1>1, StageFacts
<1>3. k < n /\ stage = "mintReveal" /\ RevealOf(MintCost, "mint") /\ UNCHANGED <<mints, limit>>
  BY <1>1 DEF MintReveal, BudgetInv, StageFunds
<1>4. PICK q \in Nat : q = (n - k - 1) * p
  BY <1>3, OneMintLess
<1>5. balance + locked >= q + MaxMass + h + r /\ balance \in Nat /\ locked \in Nat /\ MaxMass \in Nat
      /\ MintCost \in Nat
  BY <1>1, <1>2, <1>3, <1>4, StageFacts DEF BudgetInv, StageFunds
<1>6. balance + locked >= MaxMass + h
  BY <1>5
<1>7. stage' = "mint" /\ locked' = 0 /\ balance' \in Nat /\ balance' >= balance + locked - MaxMass - h
  BY <1>1, <1>2, <1>3, <1>5, <1>6, RevealTakes
<1>8. finished' = k + 1
  BY <1>1, <1>7 DEF MintReveal
<1>9. balance' >= q + r
  BY <1>5, <1>7
<1>10. BudgetTypeOK'
  BY <1>1, <1>3, <1>7, <1>8 DEF BudgetInv, BudgetTypeOK
<1>11. n - (k + 1) = n - k - 1
  OBVIOUS
<1>12. StageFunds'
  BY <1>1, <1>2, <1>3, <1>4, <1>7, <1>8, <1>9, <1>11 DEF StageFunds
<1> QED
  BY <1>7, <1>10, <1>12 DEF BudgetInv

LEMMA EndOfMintsInv == BudgetInv /\ EndOfMints => BudgetInv'
<1> SUFFICES ASSUME BudgetInv, EndOfMints PROVE BudgetInv'
  OBVIOUS
<1>1. stage = "mint" /\ stage' \in {"refund", "transfer"} /\ UNCHANGED <<mints, limit, balance, locked, finished>>
  BY DEF EndOfMints
<1>2. balance >= (mints - finished) * PerMint(limit) + Reserve(mints, limit)
  BY <1>1 DEF BudgetInv, StageFunds
<1>3. PICK d \in Nat, p \in Nat, r \in Nat : d = mints - finished /\ p = PerMint(limit) /\ r = Reserve(mints, limit)
  BY StageFacts, mints - finished \in Nat
<1>4. d * p \in Nat /\ balance >= d * p + r
  BY <1>2, <1>3
<1>5. balance >= r /\ balance \in Nat
  BY <1>3, <1>4, StageFacts
<1>6. balance >= r - 2 * MaxMass - 2 * limit - TransferCost
  BY <1>3, <1>5, StageFacts
<1>7. BudgetTypeOK'
  BY <1>1 DEF BudgetInv, BudgetTypeOK
<1>8. StageFunds'
  BY <1>1, <1>3, <1>5, <1>6 DEF StageFunds
<1> QED
  BY <1>1, <1>7, <1>8 DEF BudgetInv

LEMMA TransferCommitInv == BudgetInv /\ TransferCommit => BudgetInv'
<1> SUFFICES ASSUME BudgetInv, TransferCommit PROVE BudgetInv'
  OBVIOUS
<1>1. stage = "transfer" /\ CommitOf(TransferCost, "transferReveal") /\ UNCHANGED <<mints, limit, finished>>
  BY DEF TransferCommit
<1>2. PICK r \in Nat, f \in Nat : r = Reserve(mints, limit) /\ f = limit
  BY StageFacts
<1>3. /\ balance >= r /\ r > Base + TransferCost + Minimal + 3 * f + 3 * MaxMass
      /\ balance \in Nat /\ Base \in Nat /\ TransferCost \in Nat /\ Minimal \in Nat /\ MaxMass \in Nat
  BY <1>1, <1>2, StageFacts DEF BudgetInv, StageFunds
<1>4. Larger(Base, TransferCost) = Base
  BY StageFacts DEF Larger
<1>5. balance >= Larger(Base, TransferCost) + MaxMass + limit /\ TransferCost \in Nat
  BY <1>2, <1>3, <1>4
<1>6. /\ stage' = "transferReveal" /\ locked' = Base /\ balance' \in Nat
      /\ balance' >= balance - Base - MaxMass - f
  <2>1. /\ stage' = "transferReveal" /\ locked' = Larger(Base, TransferCost) /\ balance' \in Nat
        /\ balance' >= balance - Larger(Base, TransferCost) - MaxMass - limit
    BY <1>1, <1>5, CommitTakes
  <2> QED
    BY <1>2, <1>3, <1>4, <2>1, StageFacts
<1>7. balance' > Minimal /\ balance' + locked' >= r - MaxMass - f
  <2>1. PICK b \in Nat, d \in Nat : b = balance /\ d = balance'
    BY <1>3, <1>6
  <2>2. b >= r /\ d >= b - Base - MaxMass - f
    BY <1>3, <1>6, <2>1
  <2>3. d > Minimal /\ d + Base >= r - MaxMass - f
    BY <1>3, <2>2
  <2> QED
    BY <1>6, <2>1, <2>3
<1>8. BudgetTypeOK'
  BY <1>1, <1>3, <1>6 DEF BudgetInv, BudgetTypeOK
<1>9. StageFunds'
  BY <1>1, <1>2, <1>6, <1>7 DEF StageFunds
<1> QED
  BY <1>6, <1>8, <1>9 DEF BudgetInv

LEMMA TransferRevealInv == BudgetInv /\ TransferReveal => BudgetInv'
<1> SUFFICES ASSUME BudgetInv, TransferReveal PROVE BudgetInv'
  OBVIOUS
<1>1. stage = "transferReveal" /\ RevealOf(TransferCost, "refund") /\ UNCHANGED <<mints, limit, finished>>
  BY DEF TransferReveal
<1>2. PICK r \in Nat, f \in Nat : r = Reserve(mints, limit) /\ f = limit
  BY StageFacts
<1>3. PICK h \in Nat : h = Larger(f, TransferCost) /\ h <= f + TransferCost
  BY StageFacts, LargerBounds
<1>4. /\ balance + locked >= r - MaxMass - f /\ r > Base + TransferCost + Minimal + 3 * f + 3 * MaxMass
      /\ balance \in Nat /\ locked \in Nat /\ TransferCost \in Nat /\ Minimal \in Nat /\ MaxMass \in Nat /\ Base \in Nat
  BY <1>1, <1>2, StageFacts DEF BudgetInv, StageFunds
<1>5. balance + locked >= MaxMass + h
  BY <1>3, <1>4
<1>6. stage' = "refund" /\ locked' = 0 /\ balance' \in Nat /\ balance' >= balance + locked - MaxMass - h
  BY <1>1, <1>2, <1>3, <1>4, <1>5, RevealTakes
<1>7. balance' >= r - 2 * MaxMass - 2 * f - TransferCost
  BY <1>3, <1>4, <1>6
<1>8. BudgetTypeOK'
  BY <1>1, <1>6 DEF BudgetInv, BudgetTypeOK
<1>9. StageFunds'
  BY <1>1, <1>2, <1>6, <1>7 DEF StageFunds
<1> QED
  BY <1>6, <1>8, <1>9 DEF BudgetInv

\* The commission on the mints done, the smallest amount and the fees are there at the refund.
LEMMA RefundCovered ==
  ASSUME BudgetInv, stage = "refund"
  PROVE  LET commission == IF finished = 0 THEN 0 ELSE Commission(finished) IN
         /\ commission \in Nat /\ balance > commission + Minimal
         /\ balance >= commission + MaxMass + limit
<1>1. PICK n \in Nat, k \in Nat, f \in Nat : n = mints /\ k = finished /\ f = limit /\ k <= n
  BY StageFacts
<1>2. PICK c \in Nat, d \in Nat : c = Commission(k) /\ d = Commission(n) /\ c <= d /\ c >= MinCommission
  BY <1>1, CommissionMonotone
<1>3. PICK b \in Nat : b = balance
  BY StageFacts
<1>4. /\ b >= Base + d + 3 * f + 3 * MaxMass - Tolerance - 2 * MaxMass - 2 * f - TransferCost
      /\ MaxMass \in Nat /\ Base \in Nat /\ TransferCost \in Nat /\ Minimal \in Nat /\ Tolerance \in Nat
      /\ TransferCost + Tolerance + Minimal < MinCommission /\ MinCommission <= Base /\ MinCommission \in Nat
  BY <1>1, <1>2, <1>3, BudgetAssumption DEF BudgetInv, StageFunds, Reserve
<1>5. b > c + Minimal /\ b >= c + MaxMass + f
  BY <1>2, <1>4
<1> QED
  BY <1>1, <1>2, <1>3, <1>4, <1>5

LEMMA RefundInv == BudgetInv /\ Refund => BudgetInv'
<1> SUFFICES ASSUME BudgetInv, Refund PROVE BudgetInv'
  OBVIOUS
<1>1. PICK c : c = IF finished = 0 THEN 0 ELSE Commission(finished)
  OBVIOUS
<1>2. /\ stage = "refund" /\ UNCHANGED <<mints, limit, locked, finished>>
      /\ \E m \in Masses, p \in Priorities :
             IF balance <= c + Minimal \/ balance < c + m + p
             THEN stage' = "short" /\ UNCHANGED balance
             ELSE stage' = "end" /\ balance' = 0
  BY <1>1 DEF Refund
<1>3. c \in Nat /\ balance > c + Minimal /\ balance >= c + MaxMass + limit
  BY <1>1, <1>2, RefundCovered
<1>4. PICK m \in Masses, p \in Priorities :
          IF balance <= c + Minimal \/ balance < c + m + p
          THEN stage' = "short" /\ UNCHANGED balance
          ELSE stage' = "end" /\ balance' = 0
  BY <1>2
<1>5. /\ m \in Nat /\ m <= MaxMass /\ p \in Nat /\ p <= limit /\ balance \in Nat /\ Minimal \in Nat
      /\ limit \in Nat /\ MaxMass \in Nat
  BY StageFacts DEF Masses, Priorities
<1>6. stage' = "end" /\ balance' = 0
  BY <1>3, <1>4, <1>5
<1>7. BudgetTypeOK' /\ StageFunds'
  BY <1>2, <1>6 DEF BudgetInv, BudgetTypeOK, StageFunds
<1> QED
  BY <1>6, <1>7 DEF BudgetInv

LEMMA BudgetStep == BudgetInv /\ [BudgetNext]_budgetVars => BudgetInv'
<1>1. BudgetInv /\ UNCHANGED budgetVars => BudgetInv'
  BY DEF budgetVars, BudgetInv, BudgetTypeOK, StageFunds
<1> QED
  BY <1>1, PaidInv, MintCommitInv, MintRevealInv, EndOfMintsInv, TransferCommitInv, TransferRevealInv, RefundInv
     DEF BudgetNext

LEMMA BudgetInvariant == BudgetSpec => []BudgetInv
  BY BudgetInvInit, BudgetStep, PTL DEF BudgetSpec

-----------------------------------------------------------------------------
\* The variables have their types.
THEOREM BudgetTypeCorrect == BudgetSpec => []BudgetTypeOK
<1>1. BudgetInv => BudgetTypeOK
  BY DEF BudgetInv
<1> QED
  BY <1>1, BudgetInvariant, PTL

\* The amount asked for covers the batch, whatever the fees are within their limit and whenever
\* the mints end.
THEOREM BudgetSufficesHolds == BudgetSpec => []BudgetSuffices
<1>1. BudgetInv => BudgetSuffices
  <2> SUFFICES ASSUME BudgetInv, stage \notin {"unpaid", "end"} PROVE balance > Minimal
    BY DEF BudgetInv, BudgetSuffices
  <2>1. /\ balance \in Nat /\ Minimal \in Nat
        /\ Reserve(mints, limit) > Base + TransferCost + Minimal + 3 * limit + 3 * MaxMass
        /\ Reserve(mints, limit) \in Nat /\ limit \in Nat /\ MaxMass \in Nat /\ TransferCost \in Nat /\ Base \in Nat
    BY StageFacts
  <2>2. CASE stage = "mint"
    <3>1. PICK d \in Nat, p \in Nat : d = mints - finished /\ p = PerMint(limit)
      BY StageFacts, mints - finished \in Nat
    <3>2. d * p \in Nat /\ balance >= d * p + Reserve(mints, limit)
      BY <2>2, <3>1 DEF BudgetInv, StageFunds
    <3> QED
      BY <2>1, <3>2
  <2>3. CASE stage = "transfer"
    BY <2>1, <2>3 DEF BudgetInv, StageFunds
  <2>4. CASE stage \in {"mintReveal", "transferReveal"}
    BY <2>4 DEF BudgetInv, StageFunds
  <2>5. CASE stage = "refund"
    BY <2>1, <2>5 DEF BudgetInv, StageFunds
  <2> QED
    BY <2>2, <2>3, <2>4, <2>5 DEF BudgetInv, BudgetTypeOK
<1> QED
  BY <1>1, BudgetInvariant, PTL

-----------------------------------------------------------------------------
(* All services *)

\* Each part keeps its own specification while the others are explored.
LEMMA PartsAlone ==
  /\ Spec => PsktSpec
  /\ Spec => ShutdownSpec
  /\ Spec => WithdrawalSpec
  /\ Spec => NetworkSpec
  /\ Spec => BudgetSpec
<1> DEFINE all == <<part, psktVars, shutdownVars, withdrawalVars, networkVars, budgetVars>>
<1>1. Init => PsktInit /\ ShutdownInit /\ WithdrawalInit /\ NetworkInit /\ BudgetInit
  BY DEF Init
<1>2. [Next]_all => /\ [PsktNext]_psktVars /\ [ShutdownNext]_shutdownVars
                    /\ [WithdrawalNext]_withdrawalVars /\ [NetworkNext]_networkVars
                    /\ [BudgetNext]_budgetVars
  BY DEF Next
<1> QED
  BY <1>1, <1>2, PTL DEF Spec, PsktSpec, ShutdownSpec, WithdrawalSpec, NetworkSpec, BudgetSpec

\* Every variable of every service keeps its type in the system of all services.
THEOREM ServicesTypes == Spec => []ServicesTypeOK
<1>1. PsktTypeOK /\ ShutdownTypeOK /\ WithdrawalTypeOK /\ NetworkTypeOK /\ BudgetTypeOK
        => ServicesTypeOK
  BY DEF ServicesTypeOK
<1> QED
  BY <1>1, PartsAlone, PsktTypeCorrect, ShutdownTypeCorrect, WithdrawalTypes, NetworkTypeCorrect,
     BudgetTypeCorrect, PTL

=============================================================================
