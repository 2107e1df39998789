----------------------------- MODULE BatchMint -----------------------------
(***************************************************************************)
(* A batch of mints.  The owner pays for Total mints into the batch's own  *)
(* wallet; a request or the cron job validates the payment and starts a    *)
(* pod, another operating system process, whose job mints, hands the       *)
(* tokens over and refunds what is left.  A failed job may be started      *)
(* again, by hand at any time, and resumes from the batch's document.      *)
(*                                                                         *)
(* Requests, the cron job and the jobs are processes; every step is one    *)
(* database operation or one network call.  KAS is counted in mints: a     *)
(* mint costs one, and Reserve are for fees, commission and refund.        *)
(***************************************************************************)
EXTENDS Integers, Sequences, FiniteSets, Functions

CONSTANTS Handlers,   \* concurrent requests
          Cron,       \* the process of the cron job
          Jobs,       \* concurrent pods
          Payments,   \* the KAS transfers that may reach the batch's wallet
          Total,      \* totalMints
          Reserve,    \* KAS required beyond the mints
          Faults      \* whether pods and requests crash and the calls of jobs fail

Servers == Handlers \cup {Cron}
Procs == Servers \cup Jobs
Required == Total + Reserve

ASSUME ConstantsAssumption ==
    /\ Cron \notin Handlers /\ Servers \cap Jobs = {}
    /\ Total \in Nat \ {0} /\ Reserve \in Nat \ {0}
    /\ \A t \in Payments : t.units \in Nat \ {0} /\ t.owner \in BOOLEAN
    /\ Faults \in BOOLEAN

Statuses == {"CREATED_AND_WAITING_FOR_KAS", "WAITING_FOR_JOB", "IN_PROGRESS", "COMPLETED",
             "ERROR", "POD_NOT_INITIALIZED_ERROR", "KAS_NOT_SENT", "UNKOWN_MONEY_ERROR"}

\* txs: the recorded mints, whether their reveal is recorded; transfer: the recorded ids
\* of the transfer of the tokens; refunded: refundTransactionId is set.
Batches == [status: Statuses, finished: Nat, txs: Seq(BOOLEAN), cancelled: BOOLEAN,
            transfer: SUBSET {"commit", "reveal"}, refunded: BOOLEAN]

Labels == {"idle", "validate", "toJob", "startPod", "podError", "balance", "unknownMoney",
           "notSent", "cancel",
           "jobRead", "jobValidate", "jobStatus", "mint", "await", "commit", "submitCommit",
           "reveal", "submitReveal", "finish", "give", "submitGive", "giveReveal",
           "submitGiveReveal", "refund", "submitRefund", "complete", "error"}

\* from, left, cur, given: of the document the job started with, its status, the mints
\* still to do, the unfinished mint and the recorded transfer; cancelled: isUserCanceled
\* when the job last heard of it; amount: the tokens to hand over.
Locals == [pc: Labels, from: Statuses, left: Int, cur: Nat, cancelled: BOOLEAN,
           given: SUBSET {"commit", "reveal"}, amount: Int]

Idle == [pc |-> "idle", from |-> "CREATED_AND_WAITING_FOR_KAS", left |-> 0, cur |-> 0,
         cancelled |-> FALSE, given |-> {}, amount |-> 0]

VARIABLES
    batch,      \* the document
    inbox,      \* every transfer to the wallet
    spent,      \* KAS that left the wallet
    onChain,    \* the commits and reveals of recorded mints that were sent
    locked,     \* outputs at the address of the mint script, all mints share it
    tokens,     \* mints' worth of tokens in the wallet
    offer,      \* the tokens an unrevealed transfer commit speaks of, 0 if there is none
    delivered,  \* tokens handed over to the owner
    over,       \* the token has no more than stopMintsAtMintsLeft mints left
    proc,       \* the local state of every process
    overtaken   \* some job started with a document that was no longer current

chain == <<inbox, spent, onChain, locked, tokens, offer, delivered, over>>
vars == <<batch, inbox, spent, onChain, locked, tokens, offer, delivered, over, proc, overtaken>>

TypeOK ==
    /\ batch \in Batches
    /\ inbox \subseteq Payments
    /\ {spent, locked, tokens, offer, delivered} \subseteq Nat
    /\ onChain \subseteq (DOMAIN batch.txs) \X {"commit", "reveal"}
    /\ over \in BOOLEAN /\ overtaken \in BOOLEAN
    /\ proc \in [Procs -> Locals]

Init ==
    /\ batch = [status |-> "CREATED_AND_WAITING_FOR_KAS", finished |-> 0, txs |-> <<>>,
                cancelled |-> FALSE, transfer |-> {}, refunded |-> FALSE]
    /\ inbox = {} /\ onChain = {} /\ over = FALSE /\ overtaken = FALSE
    /\ spent = 0 /\ locked = 0 /\ tokens = 0 /\ offer = 0 /\ delivered = 0
    /\ proc = [p \in Procs |-> Idle]

-----------------------------------------------------------------------------
(* Shared steps *)

At(p, l) == proc[p].pc = l
Goto(p, l) == proc' = [proc EXCEPT ![p].pc = l]
End(p) == proc' = [proc EXCEPT ![p] = Idle]

\* getWalletBalanceAndUtxos
Received == SumFunctionOnSet([t \in Payments |-> t.units], inbox)
Kas == Received - spent

\* validateBatchMintWalletAmount, before the first mint: one output, from the owner,
\* of the amount required.
Valid == spent = 0 /\ \E t \in Payments : inbox = {t} /\ t.owner /\ t.units = Required

\* updateBatchmintByStatus: one findOneAndUpdate filtered on the status.
Transition(required, new) == batch.status = required /\ batch' = [batch EXCEPT !.status = new]

-----------------------------------------------------------------------------
(* validateAndStartBatchMintPod, by a request or by the cron job *)

StartBatchMint(p) ==
    /\ p \in Handlers /\ At(p, "idle")
    /\ batch.status = "CREATED_AND_WAITING_FOR_KAS"
    /\ Goto(p, "validate") /\ UNCHANGED <<batch, chain, overtaken>>

\* A node that does not answer is a payment that is not valid.
Validate(p) ==
    /\ At(p, "validate")
    /\ \/ Valid /\ Goto(p, "toJob")
       \/ (~Valid \/ Faults) /\ IF p = Cron THEN Goto(p, "unknownMoney") ELSE End(p)
    /\ UNCHANGED <<batch, chain, overtaken>>

\* Mutant of ToJob: the status is not compared.
ToJobAnyway(p) ==
    /\ At(p, "toJob")
    /\ batch' = [batch EXCEPT !.status = "WAITING_FOR_JOB"] /\ Goto(p, "startPod")
    /\ UNCHANGED <<chain, overtaken>>

ToJob(p) ==
    /\ At(p, "toJob")
    /\ \/ Transition("CREATED_AND_WAITING_FOR_KAS", "WAITING_FOR_JOB") /\ Goto(p, "startPod")
       \/ /\ batch.status # "CREATED_AND_WAITING_FOR_KAS" /\ End(p)
          /\ UNCHANGED batch
    /\ UNCHANGED <<chain, overtaken>>

\* A pod is started, or no method to start one is configured.
StartPod(p) ==
    /\ At(p, "startPod")
    /\ \/ \E j \in Jobs : At(j, "idle") /\ proc' = [proc EXCEPT ![p] = Idle, ![j].pc = "jobRead"]
       \/ Goto(p, "podError")
    /\ UNCHANGED <<batch, chain, overtaken>>

\* updateStatusToPodNotInitializedError looks at no status.
PodError(p) ==
    /\ At(p, "podError")
    /\ batch' = [batch EXCEPT !.status = "POD_NOT_INITIALIZED_ERROR"]
    /\ End(p) /\ UNCHANGED <<chain, overtaken>>

\* cancelBatchMint writes whatever the status has become.
CancelBatchMint(p) ==
    /\ p \in Handlers /\ At(p, "idle")
    /\ batch.status # "COMPLETED" /\ ~batch.cancelled
    /\ Goto(p, "cancel") /\ UNCHANGED <<batch, chain, overtaken>>

Cancel(p) ==
    /\ At(p, "cancel")
    /\ batch' = [batch EXCEPT !.cancelled = TRUE]
    /\ End(p) /\ UNCHANGED <<chain, overtaken>>

-----------------------------------------------------------------------------
(* The cron job: handleWaitingKasMints, for a batch that waited ten minutes. *)

HandleWaitingKas ==
    /\ At(Cron, "idle") /\ batch.status = "CREATED_AND_WAITING_FOR_KAS"
    /\ Goto(Cron, "balance") /\ UNCHANGED <<batch, chain, overtaken>>

\* Mutant of Balance: a batch without KAS is left for the next round.
BalanceOfPaid ==
    /\ At(Cron, "balance")
    /\ IF Kas > 0 /\ batch.status = "CREATED_AND_WAITING_FOR_KAS"
       THEN Goto(Cron, "validate") ELSE End(Cron)
    /\ UNCHANGED <<batch, chain, overtaken>>

\* With KAS in the wallet the batch is read again and validated.
Balance ==
    /\ At(Cron, "balance")
    /\ IF Kas = 0 THEN Goto(Cron, "notSent")
       ELSE IF batch.status = "CREATED_AND_WAITING_FOR_KAS" THEN Goto(Cron, "validate")
       ELSE End(Cron)
    /\ UNCHANGED <<batch, chain, overtaken>>

\* updateStatusToKasNotSend and updateStatusToUnkownMoneyError: no error when nothing matches.
Unpaid ==
    /\ At(Cron, "notSent") \/ At(Cron, "unknownMoney")
    /\ \/ Transition("CREATED_AND_WAITING_FOR_KAS",
                     IF At(Cron, "notSent") THEN "KAS_NOT_SENT" ELSE "UNKOWN_MONEY_ERROR")
       \/ batch.status # "CREATED_AND_WAITING_FOR_KAS" /\ UNCHANGED batch
    /\ End(Cron) /\ UNCHANGED <<chain, overtaken>>

-----------------------------------------------------------------------------
(* startBatchMintJob *)

\* By hand, beside the pods that requests and the cron job start.
StartBatchMintPod(j) ==
    /\ j \in Jobs /\ At(j, "idle")
    /\ Goto(j, "jobRead") /\ UNCHANGED <<batch, chain, overtaken>>

\* The last recorded mint, if its reveal is not recorded; the mints to do, that one included.
Unfinished(txs) == IF txs # <<>> /\ ~txs[Len(txs)] THEN Len(txs) ELSE 0

\* Mutant of Left: the unfinished mint is counted as if it were yet to be committed.
LeftAndOne(txs) == Total - Len(txs) + 1

Left(txs) == Total - Len(txs) + (IF Unfinished(txs) # 0 THEN 1 ELSE 0)

JobRead(j) ==
    /\ At(j, "jobRead")
    /\ IF batch.status \in {"ERROR", "WAITING_FOR_JOB"}
       THEN proc' = [proc EXCEPT ![j] =
              [Idle EXCEPT !.pc = IF batch.status = "ERROR" THEN "jobStatus" ELSE "jobValidate",
                           !.from = batch.status, !.left = Left(batch.txs),
                           !.cur = Unfinished(batch.txs), !.given = batch.transfer]]
       ELSE End(j)
    /\ UNCHANGED <<batch, chain, overtaken>>

JobValidate(j) ==
    /\ At(j, "jobValidate")
    /\ IF Valid THEN Goto(j, "jobStatus") ELSE End(j)
    /\ UNCHANGED <<batch, chain, overtaken>>

Stale(j) ==
    <<proc[j].left, proc[j].cur, proc[j].given>>
        # <<Left(batch.txs), Unfinished(batch.txs), batch.transfer>>

\* Mutant of JobStatus: the status is not compared with the one read.
JobStatusAnyway(j) ==
    /\ At(j, "jobStatus")
    /\ batch' = [batch EXCEPT !.status = "IN_PROGRESS"]
    /\ proc' = [proc EXCEPT ![j].pc = "mint", ![j].cancelled = batch.cancelled]
    /\ overtaken' = (overtaken \/ Stale(j))
    /\ UNCHANGED chain

\* updateStatusToInProgress; the job goes on with the document it read before.
JobStatus(j) ==
    /\ At(j, "jobStatus")
    /\ \/ /\ Transition(proc[j].from, "IN_PROGRESS")
          /\ proc' = [proc EXCEPT ![j].pc = "mint", ![j].cancelled = batch.cancelled]
          /\ overtaken' = (overtaken \/ Stale(j))
       \/ batch.status # proc[j].from /\ End(j) /\ UNCHANGED <<batch, overtaken>>
    /\ UNCHANGED chain

-----------------------------------------------------------------------------
(* doBatchMint: the mints *)

AddMintAction == [batch EXCEPT !.txs = Append(@, FALSE)]

FinishMintAction(n) == [batch EXCEPT !.txs[n] = TRUE, !.finished = @ + 1]

\* One round of the loop.  An unfinished mint is finished whatever the owner wants.
Mint(j) ==
    /\ At(j, "mint")
    /\ Goto(j, IF proc[j].left <= 0 THEN "finish"
               ELSE IF proc[j].cur # 0 THEN "await"
               ELSE IF proc[j].cancelled \/ over THEN "finish" ELSE "commit")
    /\ UNCHANGED <<batch, chain, overtaken>>

\* verifyTransactionReceivedOnKaspaApi: a commit that never was sent is not found.
AwaitCommit(j) ==
    /\ At(j, "await")
    /\ Goto(j, IF <<proc[j].cur, "commit">> \in onChain THEN "reveal" ELSE "error")
    /\ UNCHANGED <<batch, chain, overtaken>>

\* Mutant of Commit: the commit is sent without a record.
CommitUnrecorded(j) ==
    /\ At(j, "commit")
    /\ IF Kas > 0
       THEN proc' = [proc EXCEPT ![j].pc = "submitCommit", ![j].cur = Len(batch.txs) + 1]
       ELSE Goto(j, "error")
    /\ UNCHANGED <<batch, chain, overtaken>>

\* Mutant of Commit: a mint counts as finished when it is committed.
CommitCounted(j) ==
    /\ At(j, "commit")
    /\ IF Kas > 0
       THEN /\ batch' = [batch EXCEPT !.txs = Append(@, FALSE), !.finished = @ + 1]
            /\ proc' = [proc EXCEPT ![j].pc = "submitCommit", ![j].cur = Len(batch.txs) + 1,
                                    ![j].cancelled = batch.cancelled]
       ELSE Goto(j, "error") /\ UNCHANGED batch
    /\ UNCHANGED <<chain, overtaken>>

\* The commit's id is recorded before it is sent.
Commit(j) ==
    /\ At(j, "commit")
    /\ IF Kas > 0
       THEN /\ batch' = AddMintAction
            /\ proc' = [proc EXCEPT ![j].pc = "submitCommit", ![j].cur = Len(batch.txs) + 1,
                                    ![j].cancelled = batch.cancelled]
       ELSE Goto(j, "error") /\ UNCHANGED batch
    /\ UNCHANGED <<chain, overtaken>>

SubmitCommit(j) ==
    /\ At(j, "submitCommit")
    /\ onChain' = onChain \cup {<<proc[j].cur, "commit">>}
    /\ spent' = spent + 1 /\ locked' = locked + 1
    /\ Goto(j, "reveal")
    /\ UNCHANGED <<batch, inbox, tokens, offer, delivered, over, overtaken>>

\* The reveal spends the first output of the mint script; its id is recorded
\* before it is sent.
Reveal(j) ==
    /\ At(j, "reveal")
    /\ IF locked > 0
       THEN /\ batch' = FinishMintAction(proc[j].cur)
            /\ proc' = [proc EXCEPT ![j].pc = "submitReveal", ![j].cancelled = batch.cancelled]
       ELSE Goto(j, "error") /\ UNCHANGED batch
    /\ UNCHANGED <<chain, overtaken>>

SubmitReveal(j) ==
    /\ At(j, "submitReveal")
    /\ onChain' = onChain \cup {<<proc[j].cur, "reveal">>}
    /\ locked' = locked - 1 /\ tokens' = tokens + 1
    /\ proc' = [proc EXCEPT ![j].pc = "mint", ![j].cur = 0, ![j].left = @ - 1]
    /\ UNCHANGED <<batch, inbox, spent, offer, delivered, over, overtaken>>

-----------------------------------------------------------------------------
(* doBatchMint: the tokens and the rest of the KAS *)

\* Mutant of Finish: tokens are not looked for when no mint is left to do.
FinishRefund(j) ==
    /\ At(j, "finish")
    /\ Goto(j, "refund") /\ UNCHANGED <<batch, chain, overtaken>>

\* The last mint must be revealed and known to the indexer.
Finish(j) ==
    /\ At(j, "finish")
    /\ LET last == Len(batch.txs)
       IN \/ batch.finished = 0 /\ Goto(j, "refund")
          \/ /\ batch.finished > 0 /\ <<last, "reveal">> \notin onChain
             /\ Goto(j, "error")
          \/ /\ batch.finished > 0 /\ <<last, "reveal">> \in onChain
             /\ proc' = [proc EXCEPT ![j].amount = tokens,
                  ![j].pc = IF tokens = 0 THEN "refund"
                            ELSE IF "commit" \in proc[j].given THEN "giveReveal" ELSE "give"]
    /\ UNCHANGED <<batch, chain, overtaken>>

Give(j) ==
    /\ At(j, "give")
    /\ IF Kas > 0
       THEN /\ batch' = [batch EXCEPT !.transfer = proc[j].given \cup {"commit"}]
            /\ proc' = [proc EXCEPT ![j].pc = "submitGive", ![j].given = @ \cup {"commit"}]
       ELSE Goto(j, "error") /\ UNCHANGED batch
    /\ UNCHANGED <<chain, overtaken>>

SubmitGive(j) ==
    /\ At(j, "submitGive")
    /\ offer' = proc[j].amount /\ Goto(j, "giveReveal")
    /\ UNCHANGED <<batch, inbox, spent, onChain, locked, tokens, delivered, over, overtaken>>

\* A recorded reveal is neither sent again nor asked for; the script's address
\* depends on the amount.
GiveReveal(j) ==
    /\ At(j, "giveReveal")
    /\ \/ "reveal" \in proc[j].given /\ Goto(j, "refund") /\ UNCHANGED batch
       \/ /\ "reveal" \notin proc[j].given /\ offer # proc[j].amount
          /\ Goto(j, "error") /\ UNCHANGED batch
       \/ /\ "reveal" \notin proc[j].given /\ offer = proc[j].amount
          /\ batch' = [batch EXCEPT !.transfer = {"commit", "reveal"}]
          /\ Goto(j, "submitGiveReveal")
    /\ UNCHANGED <<chain, overtaken>>

SubmitGiveReveal(j) ==
    /\ At(j, "submitGiveReveal")
    /\ tokens' = tokens - proc[j].amount /\ delivered' = delivered + proc[j].amount
    /\ offer' = 0
    /\ Goto(j, "refund")
    /\ UNCHANGED <<batch, inbox, spent, onChain, locked, over, overtaken>>

\* transferAllRemainingKaspa, less the commission; the id is recorded first.
Refund(j) ==
    /\ At(j, "refund")
    /\ IF Kas > 0
       THEN batch' = [batch EXCEPT !.refunded = TRUE] /\ Goto(j, "submitRefund")
       ELSE Goto(j, "error") /\ UNCHANGED batch
    /\ UNCHANGED <<chain, overtaken>>

SubmitRefund(j) ==
    /\ At(j, "submitRefund")
    /\ spent' = spent + Kas
    /\ Goto(j, "complete")
    /\ UNCHANGED <<batch, inbox, onChain, locked, tokens, offer, delivered, over, overtaken>>

\* updateStatusToCompleted
Complete(j) ==
    /\ At(j, "complete")
    /\ \/ Transition("IN_PROGRESS", "COMPLETED") /\ End(j)
       \/ batch.status # "IN_PROGRESS" /\ Goto(j, "error") /\ UNCHANGED batch
    /\ UNCHANGED <<chain, overtaken>>

\* updateStatusToError looks at no status.
Error(j) ==
    /\ At(j, "error")
    /\ batch' = [batch EXCEPT !.status = "ERROR"]
    /\ End(j) /\ UNCHANGED <<chain, overtaken>>

\* A call of the job fails, or a transaction that was sent is not found in time.
JobFails(j) ==
    /\ Faults
    /\ proc[j].pc \in {"mint", "await", "commit", "submitCommit", "reveal", "submitReveal",
                       "finish", "give", "submitGive", "giveReveal", "submitGiveReveal",
                       "refund", "submitRefund", "complete"}
    /\ Goto(j, "error") /\ UNCHANGED <<batch, chain, overtaken>>

-----------------------------------------------------------------------------
(* The world *)

Pay(t) ==
    /\ t \notin inbox /\ inbox' = inbox \cup {t}
    /\ UNCHANGED <<batch, spent, onChain, locked, tokens, offer, delivered, over, proc, overtaken>>

\* Others mint the token, too.
MintedOut ==
    /\ ~over /\ over' = TRUE
    /\ UNCHANGED <<batch, inbox, spent, onChain, locked, tokens, offer, delivered, proc, overtaken>>

\* A pod or a request is gone.
Stop(p) ==
    /\ Faults /\ p # Cron /\ ~At(p, "idle")
    /\ End(p) /\ UNCHANGED <<batch, chain, overtaken>>

-----------------------------------------------------------------------------
(* The system *)

ServerSteps(p) ==
    Validate(p) \/ ToJob(p) \/ StartPod(p) \/ PodError(p) \/ Cancel(p)

CronSteps == Balance \/ Unpaid

JobStarts(j) == JobRead(j) \/ JobValidate(j) \/ JobStatus(j)

JobSteps(j) ==
    \/ Mint(j) \/ AwaitCommit(j) \/ Commit(j) \/ SubmitCommit(j) \/ Reveal(j) \/ SubmitReveal(j)
    \/ Finish(j) \/ Give(j) \/ SubmitGive(j) \/ GiveReveal(j) \/ SubmitGiveReveal(j)
    \/ Refund(j) \/ SubmitRefund(j) \/ Complete(j) \/ Error(j) \/ JobFails(j)

Next ==
    \/ \E p \in Servers : StartBatchMint(p) \/ CancelBatchMint(p) \/ ServerSteps(p)
    \/ HandleWaitingKas \/ CronSteps
    \/ \E j \in Jobs : StartBatchMintPod(j) \/ JobStarts(j) \/ JobSteps(j)
    \/ \E p \in Procs : Stop(p)
    \/ MintedOut \/ \E t \in Payments : Pay(t)

Spec == Init /\ [][Next]_vars

\* The cron job runs every five minutes and ends what it begins; nothing else
\* has to happen.
Fairness ==
    WF_vars(HandleWaitingKas) /\ WF_vars(CronSteps) /\ WF_vars(ServerSteps(Cron))

FairSpec == Spec /\ Fairness

-----------------------------------------------------------------------------
(* Properties *)

\* Between the status IN_PROGRESS and the end of the job.
Working(j) ==
    proc[j].pc \in {"mint", "await", "commit", "submitCommit", "reveal", "submitReveal", "finish",
                    "give", "submitGive", "giveReveal", "submitGiveReveal", "refund",
                    "submitRefund", "complete", "error"}

\* At most one job works on a batch, and none is let in while it does, however
\* many pods are started and whatever the other writers of the status do.
JobExclusion ==
    \A j \in Jobs : Working(j) =>
        /\ batch.status \in {"IN_PROGRESS", "POD_NOT_INITIALIZED_ERROR"}
        /\ \A k \in Jobs : Working(k) => k = j

\* No more is minted than paid for, through failures and restarts at any step, as long as every
\* job starts with the current document.
MintsBounded ==
    ~overtaken => Len(batch.txs) <= Total /\ tokens + locked + delivered <= Total

\* The commission is taken for finishedMints: the mints with a recorded reveal, each once.
CommissionExact ==
    ~overtaken => batch.finished = Cardinality({i \in DOMAIN batch.txs : batch.txs[i]})

\* What was sent is recorded, so that a restart does not send it again.
SentRecorded ==
    \A m \in onChain : m[1] \in DOMAIN batch.txs /\ (m[2] = "reveal" => batch.txs[m[1]])

\* A completed batch has refunded its KAS and handed over its tokens, unless the transfer was
\* recorded and then not sent.
CompletedDelivered ==
    batch.status = "COMPLETED" =>
        /\ batch.refunded
        /\ ~overtaken => tokens = 0 \/ "reveal" \in batch.transfer

\* A batch does not wait for KAS for ever.
WaitingEnds ==
    batch.status = "CREATED_AND_WAITING_FOR_KAS" ~> batch.status # "CREATED_AND_WAITING_FOR_KAS"

=============================================================================
