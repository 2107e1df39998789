------------------------- MODULE BatchMint_proofs -------------------------
(***************************************************************************)
(* Theorems about the batch mint, for every set of requests, pods and      *)
(* payments and every number of mints, with crashes and failed calls.      *)
(* The invariants lean on each other: one job at a time (JobExclusion)     *)
(* starts only from a status no working job leaves behind (Entering); the  *)
(* mint it works on is a recorded one (Current); and the mints left to it  *)
(* add up with the recorded ones to those paid for (Budget), as long as it *)
(* started with the current document.  Closing adds what the working job   *)
(* may count on as it closes the batch (Due), and Coffers what it may      *)
(* count on as it sends KAS or tokens (Holds).                             *)
(***************************************************************************)
EXTENDS BatchMint, Sums_proofs

-----------------------------------------------------------------------------
(* The inductive invariant *)

Shape ==
    /\ batch \in Batches /\ proc \in [Procs -> Locals] /\ overtaken \in BOOLEAN
    /\ tokens \in Int /\ locked \in Int /\ delivered \in Int

\* A job is let in from the status its document had, never from one of a working job.
Entering ==
    \A j \in Jobs :
        proc[j].pc \in {"jobValidate", "jobStatus"} => proc[j].from \in {"ERROR", "WAITING_FOR_JOB"}

\* The mint a job works on is recorded, its reveal too when it is about to be sent.
Current ==
    \A j \in Jobs :
        /\ proc[j].cur <= Len(batch.txs)
        /\ proc[j].pc \in {"await", "submitCommit", "reveal", "submitReveal"} => proc[j].cur # 0
        /\ At(j, "submitReveal") => batch.txs[proc[j].cur]

\* Mints left to a working job and recorded ones, its own once.
Budget ==
    ~overtaken =>
        /\ Len(batch.txs) <= Total
        /\ \A j \in Jobs :
             /\ Working(j) =>
                  proc[j].left + Len(batch.txs) = Total + (IF proc[j].cur = 0 THEN 0 ELSE 1)
             /\ At(j, "commit") => proc[j].cur = 0 /\ proc[j].left > 0

\* Every mint on its way was recorded first; one about to be sent is not counted yet.
Minted ==
    /\ tokens + locked + delivered <= Len(batch.txs)
    /\ \A j \in Jobs : At(j, "submitCommit") => tokens + locked + delivered < Len(batch.txs)

IInv ==
    Shape /\ JobExclusion /\ Entering /\ Current /\ Budget /\ Minted /\ SentRecorded

-----------------------------------------------------------------------------
(* Steps *)

\* The records and what was sent stay as they are; tokens may change hands.
RecordsKept ==
    /\ batch' \in Batches /\ batch'.txs = batch.txs /\ overtaken' = overtaken
    /\ onChain' = onChain /\ tokens' \in Int /\ locked' \in Int /\ delivered' \in Int
    /\ tokens' + locked' + delivered' = tokens + locked + delivered

\* A job that stays where it is or does not work.
Aside(j) ==
    \/ proc'[j] = proc[j]
    \/ /\ proc'[j].pc \in {"idle", "jobRead", "jobValidate", "jobStatus"}
       /\ proc'[j].pc \in {"jobValidate", "jobStatus"} => proc'[j].from \in {"ERROR", "WAITING_FOR_JOB"}
       /\ proc'[j].cur <= Len(batch.txs)

\* No step of a working job, or its last; whoever still works finds a status nobody starts from.
Outside ==
    /\ RecordsKept /\ proc' \in [Procs -> Locals]
    /\ \A j \in Jobs : Aside(j)
    /\ \A j \in Jobs : Working(j)' => batch'.status \in {"IN_PROGRESS", "POD_NOT_INITIALIZED_ERROR"}

\* Of the processes only j changes.
Only(j) == proc' \in [Procs -> Locals] /\ \A q \in Procs : q # j => proc'[q] = proc[q]

\* A step of a working job that records nothing about a mint.
Inside(j) ==
    /\ RecordsKept /\ batch'.status = batch.status /\ Only(j)
    /\ Working(j) /\ Working(j)'
    /\ proc'[j].cur = proc[j].cur /\ proc'[j].left = proc[j].left
    /\ proc'[j].pc \notin {"submitCommit", "submitReveal"}
    /\ proc'[j].pc \in {"await", "reveal"} => proc[j].cur # 0
    /\ proc'[j].pc = "commit" => proc[j].cur = 0 /\ proc[j].left > 0

LEMMA LenTxs ==
  ASSUME batch \in Batches
  PROVE  batch.txs \in Seq(BOOLEAN) /\ Len(batch.txs) \in Nat
  BY DEF Batches

\* A step outside of the jobs' work keeps the invariant.
LEMMA OutsideKeeps ==
  ASSUME ConstantsAssumption, IInv, Outside
  PROVE  IInv'
<1>1. Shape'
  BY DEF Outside, RecordsKept, IInv, Shape
<1>2. JobExclusion'
  <2>1. \A j \in Jobs : Working(j)' => Working(j)
    BY DEF Outside, Aside, Working
  <2> QED
    BY <2>1 DEF Outside, IInv, JobExclusion
<1>3. Entering'
  BY DEF Outside, Aside, IInv, Entering, At
<1>4. Current'
  BY DEF Outside, RecordsKept, Aside, IInv, Current, At
<1>5. Budget'
  BY ZenonT(60) DEF Outside, RecordsKept, Aside, IInv, Budget, At, Working
<1>6. Minted'
  BY DEF Outside, RecordsKept, Aside, IInv, Minted, At
<1>7. SentRecorded'
  BY DEF Outside, RecordsKept, IInv, SentRecorded
<1> QED
  BY <1>1, <1>2, <1>3, <1>4, <1>5, <1>6, <1>7 DEF IInv

\* So does a step of a job that leaves the mints alone.
LEMMA InsideKeeps ==
  ASSUME ConstantsAssumption, IInv, NEW j \in Jobs, Inside(j)
  PROVE  IInv'
<1> USE DEF Procs, Only
<1>1. Shape'
  BY DEF Inside, RecordsKept, IInv, Shape
<1>2. JobExclusion'
  BY DEF Inside, IInv, JobExclusion, Working
<1>3. Entering'
  BY DEF Inside, IInv, Entering, At, Working
<1>4. Current'
  BY DEF Inside, RecordsKept, IInv, Current, At
<1>5. Budget'
  BY DEF Inside, RecordsKept, IInv, Budget, At, Working
<1>6. Minted'
  BY DEF Inside, RecordsKept, IInv, Minted, At
<1>7. SentRecorded'
  BY DEF Inside, RecordsKept, IInv, SentRecorded
<1> QED
  BY <1>1, <1>2, <1>3, <1>4, <1>5, <1>6, <1>7 DEF IInv

-----------------------------------------------------------------------------
(* The actions *)

\* What Goto and End do to the processes.
LEMMA Moves ==
  ASSUME proc \in [Procs -> Locals], NEW p \in Procs, NEW l \in Labels, Goto(p, l)
  PROVE  /\ Only(p) /\ proc'[p].pc = l
         /\ proc'[p].cur = proc[p].cur /\ proc'[p].left = proc[p].left
         /\ proc'[p].from = proc[p].from
<1>1. [proc[p] EXCEPT !.pc = l] \in Locals
  BY DEF Locals
<1>2. proc' = [proc EXCEPT ![p] = [proc[p] EXCEPT !.pc = l]]
  BY DEF Goto
<1> QED
  BY <1>1, <1>2 DEF Only, Locals

LEMMA Ends ==
  ASSUME proc \in [Procs -> Locals], NEW p \in Procs, End(p)
  PROVE  Only(p) /\ proc'[p] = Idle
<1>1. Idle \in Locals
  BY DEF Idle, Locals, Labels, Statuses
<1> QED
  BY <1>1 DEF Only, End

\* A write of the status, or of the wish to cancel.
LEMMA Writes ==
  ASSUME batch \in Batches, NEW s \in Statuses,
         \/ batch' = [batch EXCEPT !.status = s]
         \/ batch' = [batch EXCEPT !.cancelled = TRUE] /\ s = batch.status
         \/ batch' = batch /\ s = batch.status
  PROVE  batch' \in Batches /\ batch'.txs = batch.txs /\ batch'.status = s
  BY DEF Batches

\* Requests and the cron job touch no working job and no record; they start from a status
\* that no working job leaves, or write the one no job starts from.
LEMMA ServerOutside ==
  ASSUME ConstantsAssumption, IInv, NEW p \in Servers, Only(p), UNCHANGED <<chain, overtaken>>,
         batch' \in Batches, batch'.txs = batch.txs,
         \/ batch'.status = batch.status
         \/ batch'.status = "POD_NOT_INITIALIZED_ERROR"
         \/ batch.status = "CREATED_AND_WAITING_FOR_KAS"
  PROVE  IInv'
<1>1. \A j \in Jobs : proc'[j] = proc[j]
  BY DEF ConstantsAssumption, Procs, Only
<1>2. \A j \in Jobs : Working(j)' => Working(j)
  BY <1>1 DEF Working
<1>3. Outside
  BY <1>1, <1>2 DEF Outside, Aside, RecordsKept, Only, chain, IInv, Shape, JobExclusion
<1> QED
  BY <1>3, OutsideKeeps

LEMMA ServerKeeps ==
  ASSUME ConstantsAssumption, IInv, NEW p \in Servers,
         \/ StartBatchMint(p) \/ CancelBatchMint(p) \/ ServerSteps(p)
         \/ p = Cron /\ (HandleWaitingKas \/ CronSteps)
  PROVE  IInv'
<1>0. /\ proc \in [Procs -> Locals] /\ batch \in Batches /\ p \in Procs
      /\ batch.status \in Statuses
  BY DEF IInv, Shape, Procs, Batches
<1> DEFINE Moved == Only(p) /\ UNCHANGED <<chain, overtaken>>
<1>1. CASE StartBatchMint(p) \/ CancelBatchMint(p) \/ Validate(p)
  <2>1. Moved /\ batch' = batch
    BY <1>0, <1>1, Moves, Ends DEF StartBatchMint, CancelBatchMint, Validate, Labels
  <2> QED
    BY <1>0, <2>1, ServerOutside
<1>2. CASE ToJob(p)
  <2>1. Moved
    BY <1>0, <1>2, Moves, Ends DEF ToJob, Labels
  <2>2. CASE batch' = batch
    BY <1>0, <2>1, <2>2, ServerOutside
  <2>3. CASE Transition("CREATED_AND_WAITING_FOR_KAS", "WAITING_FOR_JOB")
    <3>1. batch' \in Batches /\ batch'.txs = batch.txs
      BY <1>0, <2>3, Writes DEF Transition, Statuses
    <3> QED
      BY <2>1, <2>3, <3>1, ServerOutside DEF Transition
  <2> QED
    BY <1>2, <2>2, <2>3 DEF ToJob
<1>3. CASE StartPod(p)
  <2>1. CASE Goto(p, "podError")
    BY <1>0, <1>3, <2>1, Moves, ServerOutside DEF StartPod, Labels
  <2>2. CASE \E j \in Jobs : At(j, "idle") /\ proc' = [proc EXCEPT ![p] = Idle, ![j].pc = "jobRead"]
    <3>1. PICK j \in Jobs : At(j, "idle") /\ proc' = [proc EXCEPT ![p] = Idle, ![j].pc = "jobRead"]
      BY <2>2
    <3>2. Idle \in Locals /\ [proc[j] EXCEPT !.pc = "jobRead"] \in Locals /\ p # j
      BY <1>0 DEF ConstantsAssumption, Idle, Locals, Labels, Statuses, Procs
    <3>3. proc' \in [Procs -> Locals]
      BY <1>0, <3>1, <3>2 DEF Procs
    <3>4. /\ \A k \in Jobs : k # j => proc'[k] = proc[k]
          /\ proc'[j] = [proc[j] EXCEPT !.pc = "jobRead"]
      BY <1>0, <3>1, <3>2 DEF ConstantsAssumption, Procs
    <3>5. proc'[j].pc = "jobRead" /\ proc'[j].cur = proc[j].cur
      BY <1>0, <3>4 DEF Locals, Procs
    <3>6. \A k \in Jobs : Aside(k) /\ (Working(k)' => Working(k))
      BY <3>4, <3>5 DEF Aside, Working, IInv, Current
    <3>7. Outside
      BY <1>0, <1>3, <3>3, <3>6 DEF StartPod, Outside, RecordsKept, chain, IInv, Shape, JobExclusion
    <3> QED
      BY <3>7, OutsideKeeps
  <2> QED
    BY <1>3, <2>1, <2>2 DEF StartPod
<1>4. CASE PodError(p)
  <2>1. Moved
    BY <1>0, <1>4, Ends DEF PodError
  <2>2. batch' \in Batches /\ batch'.txs = batch.txs /\ batch'.status = "POD_NOT_INITIALIZED_ERROR"
    BY <1>0, <1>4, Writes DEF PodError, Statuses
  <2> QED
    BY <2>1, <2>2, ServerOutside
<1>5. CASE Cancel(p)
  <2>1. Moved
    BY <1>0, <1>5, Ends DEF Cancel
  <2>2. batch' \in Batches /\ batch'.txs = batch.txs /\ batch'.status = batch.status
    BY <1>0, <1>5, Writes DEF Cancel
  <2> QED
    BY <2>1, <2>2, ServerOutside
<1>6. CASE p = Cron /\ (HandleWaitingKas \/ Balance)
  <2>1. Moved /\ batch' = batch
    BY <1>0, <1>6, Moves, Ends DEF HandleWaitingKas, Balance, Labels
  <2> QED
    BY <1>0, <2>1, ServerOutside
<1>7. CASE p = Cron /\ Unpaid
  <2>1. Moved
    BY <1>0, <1>7, Ends DEF Unpaid
  <2>2. \E s \in Statuses :
          \/ batch' = batch
          \/ batch.status = "CREATED_AND_WAITING_FOR_KAS" /\ batch' = [batch EXCEPT !.status = s]
    BY <1>7 DEF Unpaid, Transition, Statuses
  <2>3. /\ batch' \in Batches /\ batch'.txs = batch.txs
        /\ batch'.status = batch.status \/ batch.status = "CREATED_AND_WAITING_FOR_KAS"
    BY <1>0, <2>2, Writes
  <2> QED
    BY <2>1, <2>3, ServerOutside
<1> QED
  BY <1>1, <1>2, <1>3, <1>4, <1>5, <1>6, <1>7 DEF ServerSteps, CronSteps

LEMMA WorldKeeps ==
  ASSUME ConstantsAssumption, IInv, MintedOut \/ \E t \in Payments : Pay(t)
  PROVE  IInv'
<1> SUFFICES Outside
  BY OutsideKeeps
<1>1. /\ UNCHANGED <<batch, proc, overtaken, onChain, tokens, locked, delivered>>
  BY DEF MintedOut, Pay
<1> QED
  BY <1>1 DEF Outside, RecordsKept, Aside, IInv, Shape, JobExclusion, Working

\* A pod or a request that is gone.
LEMMA StopKeeps ==
  ASSUME ConstantsAssumption, IInv, NEW p \in Procs, Stop(p)
  PROVE  IInv'
<1> SUFFICES Outside
  BY OutsideKeeps
<1>1. /\ UNCHANGED <<batch, overtaken, onChain, tokens, locked, delivered>>
      /\ proc' = [proc EXCEPT ![p] = Idle]
  BY DEF Stop, chain, End
<1>2. Idle \in Locals /\ 0 <= Len(batch.txs)
  BY LenTxs DEF Idle, Locals, Labels, Statuses, IInv, Shape
<1>3. proc' \in [Procs -> Locals] /\ \A j \in Jobs : Aside(j)
  BY <1>1, <1>2 DEF Aside, Idle, IInv, Shape, Procs
<1>4. \A j \in Jobs : Working(j)' => Working(j)
  BY <1>3 DEF Aside, Working
<1> QED
  BY <1>1, <1>3, <1>4 DEF Outside, RecordsKept, IInv, Shape, JobExclusion

\* A job that stays outside of its work.
LEMMA JobOutside ==
  ASSUME ConstantsAssumption, IInv, NEW j \in Jobs, Only(j), Aside(j),
         proc'[j] # proc[j], UNCHANGED <<batch, chain, overtaken>>
  PROVE  IInv'
<1>1. \A k \in Jobs : k # j => proc'[k] = proc[k]
  BY DEF Procs, Only
<1>2. \A k \in Jobs : Working(k)' => Working(k)
  BY <1>1 DEF Working, Aside
<1>3. Outside
  BY <1>1, <1>2 DEF Outside, Aside, RecordsKept, Only, chain, IInv, Shape, JobExclusion
<1> QED
  BY <1>3, OutsideKeeps

LEMMA UnfinishedMint ==
  ASSUME ConstantsAssumption, batch \in Batches
  PROVE  /\ Unfinished(batch.txs) \in Nat /\ Left(batch.txs) \in Int
         /\ Unfinished(batch.txs) <= Len(batch.txs)
         /\ Left(batch.txs) + Len(batch.txs)
              = Total + (IF Unfinished(batch.txs) = 0 THEN 0 ELSE 1)
  BY LenTxs DEF Unfinished, Left, ConstantsAssumption

LEMMA JobStartsKeep ==
  ASSUME ConstantsAssumption, IInv, NEW j \in Jobs,
         StartBatchMintPod(j) \/ JobRead(j) \/ JobValidate(j)
  PROVE  IInv'
<1>0. /\ proc \in [Procs -> Locals] /\ batch \in Batches /\ j \in Procs
      /\ Idle \in Locals /\ Idle.cur <= Len(batch.txs) /\ proc[j].cur <= Len(batch.txs)
  BY LenTxs DEF IInv, Shape, Procs, Idle, Locals, Labels, Statuses, Current
<1>1. CASE StartBatchMintPod(j)
  BY <1>0, <1>1, Moves, JobOutside DEF StartBatchMintPod, Labels, At, Aside
<1>2. CASE JobRead(j)
  <2>1. CASE End(j)
    BY <1>0, <1>2, <2>1, Ends, JobOutside DEF JobRead, At, Aside, Idle
  <2>2. CASE batch.status \in {"ERROR", "WAITING_FOR_JOB"}
    <3> DEFINE here == [Idle EXCEPT !.pc = IF batch.status = "ERROR" THEN "jobStatus" ELSE "jobValidate",
                                    !.from = batch.status, !.left = Left(batch.txs),
                                    !.cur = Unfinished(batch.txs), !.given = batch.transfer]
    <3>1. here \in Locals /\ here.pc \in {"jobStatus", "jobValidate"} /\ here.from = batch.status
          /\ here.cur <= Len(batch.txs)
      BY <1>0, <2>2, UnfinishedMint DEF Idle, Locals, Labels, Batches
    <3>2. proc' = [proc EXCEPT ![j] = here]
      BY <1>2, <2>2 DEF JobRead
    <3> HIDE DEF here
    <3>3. Only(j) /\ proc'[j] = here
      BY <1>0, <3>1, <3>2 DEF Only
    <3>4. proc'[j] # proc[j] /\ Aside(j)
      BY <1>2, <2>2, <3>1, <3>3 DEF JobRead, At, Aside
    <3> QED
      BY <1>2, <3>3, <3>4, JobOutside DEF JobRead
  <2> QED
    BY <1>2, <2>1, <2>2 DEF JobRead
<1>3. CASE JobValidate(j)
  <2>1. CASE Valid
    <3>1. Only(j) /\ proc'[j].pc = "jobStatus" /\ proc'[j].cur = proc[j].cur
          /\ proc'[j].from = proc[j].from
      BY <1>0, <1>3, <2>1, Moves DEF JobValidate, Labels
    <3> QED
      BY <1>0, <1>3, <3>1, JobOutside DEF JobValidate, At, Aside, IInv, Entering
  <2>2. CASE ~Valid
    BY <1>0, <1>3, <2>2, Ends, JobOutside DEF JobValidate, At, Aside, Idle
  <2> QED
    BY <2>1, <2>2
<1> QED
  BY <1>1, <1>2, <1>3

\* A job enters: nobody works on a batch with the status it found.
LEMMA JobStatusKeeps ==
  ASSUME ConstantsAssumption, IInv, NEW j \in Jobs, JobStatus(j)
  PROVE  IInv'
<1>0. /\ proc \in [Procs -> Locals] /\ batch \in Batches /\ j \in Procs
      /\ Idle \in Locals /\ Idle.cur <= Len(batch.txs)
      /\ proc[j].from \in {"ERROR", "WAITING_FOR_JOB"} /\ At(j, "jobStatus")
  BY LenTxs DEF IInv, Shape, Procs, Idle, Locals, Labels, Statuses, Entering, JobStatus, At
<1>1. CASE End(j) /\ UNCHANGED <<batch, overtaken>>
  BY <1>0, <1>1, Ends, JobOutside DEF JobStatus, At, Aside, Idle
<1>2. CASE /\ Transition(proc[j].from, "IN_PROGRESS")
           /\ proc' = [proc EXCEPT ![j].pc = "mint", ![j].cancelled = batch.cancelled]
           /\ overtaken' = (overtaken \/ Stale(j))
  <2>1. /\ batch' \in Batches /\ batch'.txs = batch.txs /\ batch'.status = "IN_PROGRESS"
        /\ batch.status \in {"ERROR", "WAITING_FOR_JOB"}
    BY <1>0, <1>2, Writes DEF Transition, Statuses
  <2>2. /\ Only(j) /\ proc'[j].pc = "mint"
        /\ proc'[j].cur = proc[j].cur /\ proc'[j].left = proc[j].left
    BY ZenonT(60), <1>0, <1>2 DEF Only, Locals, Labels, Batches
  <2>3. \A k \in Jobs : ~Working(k) /\ (k # j => proc'[k] = proc[k])
    BY <2>1, <2>2 DEF IInv, JobExclusion, Only, Procs
  <2>4. UNCHANGED <<onChain, tokens, locked, delivered>>
    BY DEF JobStatus, chain
  <2> HIDE DEF Only
  <2>5. Shape'
    BY <1>2, <2>1, <2>2, <2>4 DEF IInv, Shape, Only
  <2>6. JobExclusion'
    BY <2>1, <2>3 DEF JobExclusion, Working
  <2>7. Entering'
    BY <2>2, <2>3 DEF IInv, Entering
  <2>8. Current'
    BY <2>1, <2>2, <2>3 DEF IInv, Current, At
  <2>9. Budget'
    <3> SUFFICES ASSUME ~overtaken' PROVE Budget'
      BY DEF Budget
    <3>1. ~overtaken /\ proc[j].left = Left(batch.txs) /\ proc[j].cur = Unfinished(batch.txs)
      BY <1>2 DEF Stale
    <3>2. Len(batch'.txs) <= Total
      BY <2>1, <3>1 DEF IInv, Budget
    <3>3. ASSUME NEW k \in Jobs, Working(k)'
          PROVE  /\ proc'[k].left + Len(batch'.txs) = Total + (IF proc'[k].cur = 0 THEN 0 ELSE 1)
                 /\ proc'[k].pc # "commit"
      BY <1>0, <2>1, <2>2, <2>3, <3>1, <3>3, UnfinishedMint DEF Working
    <3> QED
      BY <3>2, <3>3 DEF Budget, At, Working
  <2>10. Minted'
    BY <2>1, <2>2, <2>3, <2>4 DEF IInv, Minted, At
  <2>11. SentRecorded'
    BY <2>1, <2>4 DEF IInv, SentRecorded
  <2> QED
    BY <2>5, <2>6, <2>7, <2>8, <2>9, <2>10, <2>11 DEF IInv
<1> QED
  BY <1>1, <1>2 DEF JobStatus

\* What a working job knows of the others.
LEMMA Alone ==
  ASSUME IInv, NEW j \in Jobs, Working(j), Only(j)
  PROVE  \A k \in Jobs : k # j => ~Working(k) /\ proc'[k] = proc[k] /\ ~Working(k)'
  BY DEF IInv, JobExclusion, Only, Procs, Working

\* What a record of a commit and one of a reveal do to the list of mints.
LEMMA CommitRecorded ==
  ASSUME NEW t \in Seq(BOOLEAN)
  PROVE  /\ Append(t, FALSE) \in Seq(BOOLEAN) /\ Len(Append(t, FALSE)) = Len(t) + 1
         /\ \A i \in 1 .. Len(t) : Append(t, FALSE)[i] = t[i]
         /\ DOMAIN t = 1 .. Len(t) /\ DOMAIN Append(t, FALSE) = 1 .. Len(t) + 1
         /\ ~Append(t, FALSE)[Len(t) + 1]
  OBVIOUS

LEMMA RevealRecorded ==
  ASSUME NEW t \in Seq(BOOLEAN), NEW n \in 1 .. Len(t)
  PROVE  LET u == [t EXCEPT ![n] = TRUE]
         IN /\ u \in Seq(BOOLEAN) /\ Len(u) = Len(t) /\ u[n]
            /\ \A i \in 1 .. Len(t) : t[i] => u[i]
            /\ DOMAIN t = 1 .. Len(t) /\ DOMAIN u = 1 .. Len(t)
  OBVIOUS

\* The records of a mint, before it is sent: a new one, or the last part of one.
LEMMA CommitKeeps ==
  ASSUME ConstantsAssumption, IInv, NEW j \in Jobs, At(j, "commit"), UNCHANGED <<chain, overtaken>>,
         batch' = [batch EXCEPT !.txs = Append(@, FALSE)],
         proc' = [proc EXCEPT ![j].pc = "submitCommit", ![j].cur = Len(batch.txs) + 1,
                              ![j].cancelled = batch.cancelled]
  PROVE  IInv'
<1>0. /\ proc \in [Procs -> Locals] /\ batch \in Batches /\ j \in Procs /\ Working(j)
      /\ batch.txs \in Seq(BOOLEAN) /\ Len(batch.txs) \in Nat
  BY LenTxs DEF IInv, Shape, Procs, Working, At
<1>1. /\ batch' \in Batches /\ batch'.status = batch.status
      /\ batch'.txs = Append(batch.txs, FALSE)
  BY <1>0, CommitRecorded DEF Batches
<1>2. /\ Len(batch'.txs) = Len(batch.txs) + 1
      /\ \A i \in 1 .. Len(batch.txs) : batch'.txs[i] = batch.txs[i]
      /\ DOMAIN batch.txs = 1 .. Len(batch.txs) /\ DOMAIN batch'.txs = 1 .. Len(batch.txs) + 1
  BY <1>0, <1>1, CommitRecorded
<1>3. /\ Only(j) /\ proc'[j].pc = "submitCommit"
      /\ proc'[j].cur = Len(batch.txs) + 1 /\ proc'[j].left = proc[j].left
  <2> DEFINE here == [proc[j] EXCEPT !.pc = "submitCommit", !.cur = Len(batch.txs) + 1,
                                     !.cancelled = batch.cancelled]
  <2>1. proc[j] \in Locals /\ batch.cancelled \in BOOLEAN
    BY <1>0 DEF Batches
  <2>2. /\ here \in Locals /\ here.pc = "submitCommit"
        /\ here.cur = Len(batch.txs) + 1 /\ here.left = proc[j].left
    <3>1. Len(batch.txs) + 1 \in Nat
      BY <1>0
    <3> DEFINE n == Len(batch.txs) + 1
    <3> HIDE DEF n
    <3> QED
      BY <2>1, <3>1 DEF Locals, Labels, n
  <2>3. proc' = [proc EXCEPT ![j] = here]
    OBVIOUS
  <2> HIDE DEF here
  <2> QED
    BY ZenonT(60), <1>0, <2>2, <2>3 DEF Only
<1>4. \A k \in Jobs : k # j => ~Working(k) /\ proc'[k] = proc[k] /\ ~Working(k)'
  BY <1>0, <1>3, Alone
<1>5. Shape'
  BY <1>1, <1>3 DEF IInv, Shape, Only, chain
<1>6. JobExclusion'
  BY <1>0, <1>1, <1>4 DEF IInv, JobExclusion
<1>7. Entering'
  BY <1>3, <1>4 DEF IInv, Entering
<1>8. Current'
  <2> SUFFICES ASSUME NEW k \in Jobs
               PROVE  /\ proc'[k].cur <= Len(batch'.txs)
                      /\ proc'[k].pc \in {"await", "submitCommit", "reveal", "submitReveal"}
                           => proc'[k].cur # 0
                      /\ At(k, "submitReveal")' => batch'.txs[proc'[k].cur]
    BY DEF Current
  <2>1. CASE k = j
    BY <1>0, <1>2, <1>3, <2>1 DEF At
  <2>2. CASE k # j
    <3>1. proc'[k] = proc[k] /\ proc[k].cur \in Nat /\ proc[k].cur <= Len(batch.txs) /\ ~Working(k)'
      BY <1>0, <1>4, <2>2 DEF IInv, Current, Locals, Procs
    <3> QED
      BY <1>0, <1>2, <3>1 DEF Working, At
  <2> QED
    BY <2>1, <2>2
<1>9. Budget'
  BY <1>0, <1>2, <1>3, <1>4 DEF IInv, Budget, At, Shape, Locals, Procs, ConstantsAssumption
<1>10. Minted'
  BY <1>0, <1>2, <1>3, <1>4 DEF IInv, Minted, Shape, chain, At
<1>11. SentRecorded'
  BY <1>0, <1>2 DEF IInv, SentRecorded, chain
<1> QED
  BY <1>5, <1>6, <1>7, <1>8, <1>9, <1>10, <1>11 DEF IInv

LEMMA RevealKeeps ==
  ASSUME ConstantsAssumption, IInv, NEW j \in Jobs, At(j, "reveal"), UNCHANGED <<chain, overtaken>>,
         batch' = [batch EXCEPT !.txs[proc[j].cur] = TRUE, !.finished = @ + 1],
         proc' = [proc EXCEPT ![j].pc = "submitReveal", ![j].cancelled = batch.cancelled]
  PROVE  IInv'
<1>0. /\ proc \in [Procs -> Locals] /\ batch \in Batches /\ j \in Procs /\ Working(j)
      /\ batch.txs \in Seq(BOOLEAN) /\ Len(batch.txs) \in Nat
      /\ proc[j].cur \in 1 .. Len(batch.txs)
  BY LenTxs DEF IInv, Shape, Procs, Working, At, Current, Locals
<1>1. /\ batch'.status = batch.status
      /\ batch'.txs = [batch.txs EXCEPT ![proc[j].cur] = TRUE]
  BY <1>0 DEF Batches
<1>2. /\ batch'.txs \in Seq(BOOLEAN) /\ Len(batch'.txs) = Len(batch.txs)
      /\ \A i \in 1 .. Len(batch.txs) : batch.txs[i] => batch'.txs[i]
      /\ batch'.txs[proc[j].cur]
      /\ DOMAIN batch.txs = 1 .. Len(batch.txs) /\ DOMAIN batch'.txs = 1 .. Len(batch.txs)
  BY <1>0, <1>1, RevealRecorded
<1>3. batch' \in Batches
  <2>1. batch.finished + 1 \in Nat /\ [batch.txs EXCEPT ![proc[j].cur] = TRUE] \in Seq(BOOLEAN)
    BY <1>0, <1>1, <1>2 DEF Batches
  <2> QED
    BY <1>0, <2>1 DEF Batches
<1>4. /\ Only(j) /\ proc'[j].pc = "submitReveal"
      /\ proc'[j].cur = proc[j].cur /\ proc'[j].left = proc[j].left
  <2> DEFINE here == [proc[j] EXCEPT !.pc = "submitReveal", !.cancelled = batch.cancelled]
  <2>1. proc[j] \in Locals /\ batch.cancelled \in BOOLEAN
    BY <1>0 DEF Batches
  <2>2. /\ here \in Locals /\ here.pc = "submitReveal"
        /\ here.cur = proc[j].cur /\ here.left = proc[j].left
    BY <2>1 DEF Locals, Labels
  <2>3. proc' = [proc EXCEPT ![j] = here]
    OBVIOUS
  <2> HIDE DEF here
  <2> QED
    BY <1>0, <2>2, <2>3 DEF Only
<1>5. \A k \in Jobs : k # j => ~Working(k) /\ proc'[k] = proc[k] /\ ~Working(k)'
  BY <1>0, <1>4, Alone
<1>6. Shape'
  BY <1>3, <1>4 DEF IInv, Shape, Only, chain
<1>7. JobExclusion'
  BY <1>0, <1>1, <1>5 DEF IInv, JobExclusion
<1>8. Entering'
  BY <1>4, <1>5 DEF IInv, Entering
<1>9. Current'
  BY ZenonT(60), <1>0, <1>2, <1>4, <1>5 DEF IInv, Current, At, Working
<1>10. Budget'
  <2> SUFFICES ASSUME ~overtaken
               PROVE  /\ Len(batch'.txs) <= Total
                      /\ \A k \in Jobs :
                           /\ Working(k)' => proc'[k].left + Len(batch'.txs)
                                               = Total + (IF proc'[k].cur = 0 THEN 0 ELSE 1)
                           /\ At(k, "commit")' => proc'[k].cur = 0 /\ proc'[k].left > 0
    BY DEF Budget
  <2>1. /\ Len(batch.txs) <= Total
        /\ proc[j].left + Len(batch.txs) = Total + (IF proc[j].cur = 0 THEN 0 ELSE 1)
    BY <1>0 DEF IInv, Budget
  <2>2. \A k \in Jobs : At(k, "commit")' => Working(k)' /\ k # j
    BY <1>4 DEF At, Working
  <2> QED
    BY <1>2, <1>4, <1>5, <2>1, <2>2
<1>11. Minted'
  BY <1>0, <1>2, <1>4, <1>5 DEF IInv, Minted, chain, At
<1>12. SentRecorded'
  BY <1>0, <1>2 DEF IInv, SentRecorded, chain
<1> QED
  BY <1>6, <1>7, <1>8, <1>9, <1>10, <1>11, <1>12 DEF IInv

\* The mint's transactions are sent.
LEMMA SubmitsKeep ==
  ASSUME ConstantsAssumption, IInv, NEW j \in Jobs, SubmitCommit(j) \/ SubmitReveal(j)
  PROVE  IInv'
<1>0. /\ proc \in [Procs -> Locals] /\ batch \in Batches /\ j \in Procs /\ Working(j)
      /\ batch.txs \in Seq(BOOLEAN) /\ Len(batch.txs) \in Nat
      /\ proc[j].cur \in 1 .. Len(batch.txs) /\ DOMAIN batch.txs = 1 .. Len(batch.txs)
      /\ tokens \in Int /\ locked \in Int /\ delivered \in Int
      /\ UNCHANGED <<batch, overtaken, delivered>>
  BY LenTxs DEF IInv, Shape, Procs, Working, At, Current, Locals, SubmitCommit, SubmitReveal
<1>1. CASE SubmitCommit(j)
  <2>1. /\ Only(j) /\ proc'[j].pc = "reveal"
        /\ proc'[j].cur = proc[j].cur /\ proc'[j].left = proc[j].left
    BY <1>0, <1>1, Moves DEF SubmitCommit, Labels
  <2>2. \A k \in Jobs : k # j => ~Working(k) /\ proc'[k] = proc[k] /\ ~Working(k)'
    BY <1>0, <2>1, Alone
  <2>3. Shape'
    BY <1>0, <1>1, <2>1 DEF IInv, Shape, Only, SubmitCommit
  <2>4. JobExclusion' /\ Entering'
    BY <1>0, <2>1, <2>2 DEF IInv, JobExclusion, Entering
  <2>5. Current'
    BY <1>0, <2>1, <2>2 DEF IInv, Current, At, Working
  <2>6. Budget'
    BY <1>0, <2>1, <2>2 DEF IInv, Budget, At
  <2>7. Minted'
    BY <1>0, <1>1, <2>1, <2>2 DEF IInv, Minted, At, SubmitCommit, Working
  <2>8. SentRecorded'
    BY <1>0, <1>1 DEF IInv, SentRecorded, SubmitCommit
  <2> QED
    BY <2>3, <2>4, <2>5, <2>6, <2>7, <2>8 DEF IInv
<1>2. CASE SubmitReveal(j)
  <2>1. /\ Only(j) /\ proc'[j].pc = "mint"
        /\ proc'[j].cur = 0 /\ proc'[j].left = proc[j].left - 1
    <3> DEFINE here == [proc[j] EXCEPT !.pc = "mint", !.cur = 0, !.left = @ - 1]
    <3>1. here \in Locals /\ here.pc = "mint" /\ here.cur = 0 /\ here.left = proc[j].left - 1
      <4>1. proc[j] \in Locals /\ proc[j].left - 1 \in Int /\ 0 \in Nat
        BY <1>0 DEF Locals
      <4> QED
        BY <4>1 DEF Locals, Labels
    <3>2. proc' = [proc EXCEPT ![j] = here]
      BY <1>2 DEF SubmitReveal
    <3> HIDE DEF here
    <3> QED
      BY <1>0, <3>1, <3>2 DEF Only
  <2>2. \A k \in Jobs : k # j => ~Working(k) /\ proc'[k] = proc[k] /\ ~Working(k)'
    BY <1>0, <2>1, Alone
  <2>3. Shape'
    BY <1>0, <1>2, <2>1 DEF IInv, Shape, Only, SubmitReveal
  <2>4. JobExclusion' /\ Entering'
    BY <1>0, <2>1, <2>2 DEF IInv, JobExclusion, Entering
  <2>5. Current'
    BY <1>0, <2>1, <2>2 DEF IInv, Current, At, Working
  <2>6. Budget'
    <3>1. proc[j].left \in Int /\ proc[j].cur # 0
      BY <1>0 DEF Locals
    <3> QED
      BY <1>0, <2>1, <2>2, <3>1 DEF IInv, Budget, At, ConstantsAssumption
  <2>7. Minted'
    <3>1. tokens' + locked' + delivered' = tokens + locked + delivered
      BY <1>0, <1>2 DEF SubmitReveal
    <3>2. \A k \in Jobs : ~At(k, "submitCommit")'
      BY <2>1, <2>2 DEF At, Working
    <3> QED
      BY <1>0, <3>1, <3>2 DEF IInv, Minted
  <2>8. SentRecorded'
    BY <1>0, <1>2 DEF IInv, SentRecorded, SubmitReveal, Current, At
  <2> QED
    BY <2>3, <2>4, <2>5, <2>6, <2>7, <2>8 DEF IInv
<1> QED
  BY <1>1, <1>2

\* A job that gives the lock back, or never can.
LEMMA LastSteps ==
  ASSUME ConstantsAssumption, IInv, NEW j \in Jobs, Working(j), End(j),
         batch' \in Batches, batch'.txs = batch.txs, UNCHANGED <<chain, overtaken>>
  PROVE  IInv'
<1>1. Only(j) /\ proc'[j] = Idle
  BY Ends DEF IInv, Shape, Procs
<1>2. \A k \in Jobs : Aside(k) /\ ~Working(k)'
  BY <1>1, Alone, LenTxs DEF Aside, Idle, Working, IInv, Shape
<1>3. Outside
  BY <1>1, <1>2 DEF Outside, RecordsKept, Only, chain, IInv, Shape
<1> QED
  BY <1>3, OutsideKeeps

\* The other steps of a working job: the hand-over, the refund and the ways to fail.
LEMMA JobMoves ==
  ASSUME ConstantsAssumption, IInv, NEW j \in Jobs, Working(j), NEW l \in Labels, Goto(j, l),
         RecordsKept, batch'.status = batch.status,
         l \in {"mint", "await", "commit", "reveal", "finish", "give", "submitGive", "giveReveal",
                "submitGiveReveal", "refund", "submitRefund", "complete", "error"},
         l \in {"await", "reveal"} => proc[j].cur # 0,
         l = "commit" => proc[j].cur = 0 /\ proc[j].left > 0
  PROVE  IInv'
<1>1. /\ Only(j) /\ proc'[j].pc = l
      /\ proc'[j].cur = proc[j].cur /\ proc'[j].left = proc[j].left
  BY Moves DEF IInv, Shape, Procs
<1> QED
  BY <1>1, InsideKeeps DEF Inside, Working

LEMMA JobStepsKeep ==
  ASSUME ConstantsAssumption, IInv, NEW j \in Jobs, JobSteps(j)
  PROVE  IInv'
<1>0. /\ proc \in [Procs -> Locals] /\ proc[j] \in Locals /\ batch \in Batches /\ j \in Procs
      /\ tokens \in Int /\ locked \in Int /\ delivered \in Int
  BY DEF IInv, Shape, Procs
<1>1. Working(j)
  BY DEF JobSteps, Working, At, Mint, AwaitCommit, Commit, SubmitCommit, Reveal, SubmitReveal,
         Finish, Give, SubmitGive, GiveReveal, SubmitGiveReveal, Refund, SubmitRefund, Complete,
         Error, JobFails
<1> DEFINE Same == RecordsKept /\ batch'.status = batch.status
<1>2. ASSUME batch' = batch, UNCHANGED <<overtaken, onChain, tokens, locked, delivered>> PROVE Same
  BY <1>0, <1>2 DEF RecordsKept
<1>3. CASE Goto(j, "error") /\ UNCHANGED <<batch, chain, overtaken>>
  BY <1>1, <1>2, <1>3, JobMoves DEF Labels, chain
<1>4. CASE Mint(j)
  <2>1. CASE proc[j].left > 0 /\ proc[j].cur # 0
    BY <1>0, <1>1, <1>2, <1>4, <2>1, JobMoves DEF Mint, Labels, chain, Locals
  <2>2. CASE proc[j].left > 0 /\ proc[j].cur = 0 /\ ~(proc[j].cancelled \/ over)
    BY <1>0, <1>1, <1>2, <1>4, <2>2, JobMoves DEF Mint, Labels, chain, Locals
  <2>3. CASE proc[j].left <= 0 \/ (proc[j].cur = 0 /\ (proc[j].cancelled \/ over))
    BY <1>0, <1>1, <1>2, <1>4, <2>3, JobMoves DEF Mint, Labels, chain, Locals
  <2> QED
    BY <1>0, <2>1, <2>2, <2>3 DEF Locals
<1>5. CASE AwaitCommit(j)
  <2>1. proc[j].cur # 0
    BY <1>5 DEF AwaitCommit, IInv, Current, At
  <2> QED
    BY <1>1, <1>2, <1>3, <1>5, <2>1, JobMoves DEF AwaitCommit, Labels, chain
<1>6. CASE Commit(j)
  BY <1>3, <1>6, CommitKeeps DEF Commit, AddMintAction
<1>7. CASE Reveal(j)
  BY <1>3, <1>7, RevealKeeps DEF Reveal, FinishMintAction
<1>8. CASE SubmitCommit(j) \/ SubmitReveal(j)
  BY <1>8, SubmitsKeep
<1>9. CASE Finish(j)
  <2>1. CASE \/ Goto(j, "refund") \/ Goto(j, "error")
    BY <1>1, <1>2, <1>9, <2>1, JobMoves DEF Finish, Labels, chain
  <2>2. CASE \E l \in {"refund", "giveReveal", "give"} :
               proc' = [proc EXCEPT ![j].amount = tokens, ![j].pc = l]
    <3>1. PICK l \in {"refund", "giveReveal", "give"} :
            proc' = [proc EXCEPT ![j].amount = tokens, ![j].pc = l]
      BY <2>2
    <3> DEFINE here == [proc[j] EXCEPT !.amount = tokens, !.pc = l]
    <3>2. here \in Locals /\ here.pc = l /\ here.cur = proc[j].cur /\ here.left = proc[j].left
      BY <1>0 DEF Locals, Labels
    <3>3. proc' = [proc EXCEPT ![j] = here]
      BY <3>1
    <3> HIDE DEF here
    <3>4. Only(j) /\ proc'[j] = here
      BY <1>0, <3>2, <3>3 DEF Only
    <3>5. Inside(j)
      BY <1>1, <1>2, <1>9, <3>2, <3>4 DEF Inside, Working, Finish, chain
    <3> QED
      BY <3>5, InsideKeeps
  <2> QED
    BY <1>9, <2>1, <2>2 DEF Finish
<1>10. CASE Give(j)
  <2>1. CASE Goto(j, "error") /\ UNCHANGED batch
    BY <1>3, <1>10, <2>1 DEF Give
  <2>2. CASE /\ batch' = [batch EXCEPT !.transfer = proc[j].given \cup {"commit"}]
             /\ proc' = [proc EXCEPT ![j].pc = "submitGive", ![j].given = @ \cup {"commit"}]
    <3> DEFINE here == [proc[j] EXCEPT !.pc = "submitGive", !.given = @ \cup {"commit"}]
    <3>1. here \in Locals /\ here.pc = "submitGive" /\ here.cur = proc[j].cur /\ here.left = proc[j].left
      BY <1>0 DEF Locals, Labels
    <3>2. proc' = [proc EXCEPT ![j] = here]
      BY <2>2
    <3> HIDE DEF here
    <3>3. Only(j) /\ proc'[j] = here
      BY <1>0, <3>1, <3>2 DEF Only
    <3>4. batch' \in Batches /\ batch'.txs = batch.txs /\ batch'.status = batch.status
      BY <1>0, <2>2 DEF Batches, Locals
    <3>5. Inside(j)
      BY <1>0, <1>1, <1>10, <3>1, <3>3, <3>4 DEF Inside, RecordsKept, Working, Give, chain
    <3> QED
      BY <3>5, InsideKeeps
  <2> QED
    BY <1>10, <2>1, <2>2 DEF Give
<1>11. CASE SubmitGive(j) \/ SubmitRefund(j)
  BY <1>1, <1>2, <1>11, JobMoves DEF SubmitGive, SubmitRefund, Labels
<1>12. CASE GiveReveal(j)
  <2>1. CASE UNCHANGED batch
    BY <1>1, <1>2, <1>3, <1>12, <2>1, JobMoves DEF GiveReveal, Labels, chain
  <2>2. CASE batch' = [batch EXCEPT !.transfer = {"commit", "reveal"}] /\ Goto(j, "submitGiveReveal")
    <3>1. Same
      BY <1>0, <1>12, <2>2 DEF GiveReveal, RecordsKept, Batches, chain
    <3> QED
      BY <1>1, <2>2, <3>1, JobMoves DEF Labels
  <2> QED
    BY <1>12, <2>1, <2>2 DEF GiveReveal
<1>13. CASE SubmitGiveReveal(j)
  <2>1. Same
    BY <1>0, <1>13 DEF SubmitGiveReveal, RecordsKept, Locals
  <2> QED
    BY <1>1, <1>13, <2>1, JobMoves DEF SubmitGiveReveal, Labels
<1>14. CASE Refund(j)
  <2>1. CASE batch' = [batch EXCEPT !.refunded = TRUE] /\ Goto(j, "submitRefund")
    <3>1. Same
      BY <1>0, <1>14, <2>1 DEF Refund, RecordsKept, Batches, chain
    <3> QED
      BY <1>1, <2>1, <3>1, JobMoves DEF Labels
  <2> QED
    BY <1>3, <1>14, <2>1 DEF Refund
<1>15. CASE Complete(j)
  <2>1. CASE Transition("IN_PROGRESS", "COMPLETED") /\ End(j)
    BY <1>0, <1>1, <1>15, <2>1, Writes, LastSteps DEF Complete, Transition, Statuses
  <2> QED
    BY <1>3, <1>15, <2>1 DEF Complete
<1>16. CASE Error(j)
  BY <1>0, <1>1, <1>16, Writes, LastSteps DEF Error, Statuses
<1>17. CASE JobFails(j)
  BY <1>3, <1>17 DEF JobFails
<1> QED
  BY <1>4, <1>5, <1>6, <1>7, <1>8, <1>9, <1>10, <1>11, <1>12, <1>13, <1>14, <1>15, <1>16, <1>17
  DEF JobSteps

LEMMA Inductive ==
  ASSUME ConstantsAssumption, IInv, [Next]_vars
  PROVE  IInv'
<1>1. CASE UNCHANGED vars
  <2>1. Outside
    BY <1>1 DEF vars, Outside, RecordsKept, Aside, IInv, Shape, JobExclusion, Working
  <2> QED
    BY <2>1, OutsideKeeps
<1>2. CASE Next
  <2>1. ASSUME NEW p \in Servers, StartBatchMint(p) \/ CancelBatchMint(p) \/ ServerSteps(p)
        PROVE  IInv'
    BY <2>1, ServerKeeps
  <2>2. CASE HandleWaitingKas \/ CronSteps
    BY <2>2, ServerKeeps DEF Servers
  <2>3. ASSUME NEW j \in Jobs, StartBatchMintPod(j) \/ JobStarts(j) \/ JobSteps(j)
        PROVE  IInv'
    BY <2>3, JobStartsKeep, JobStatusKeeps, JobStepsKeep DEF JobStarts
  <2>4. ASSUME NEW p \in Procs, Stop(p) PROVE IInv'
    BY <2>4, StopKeeps
  <2>5. CASE MintedOut \/ \E t \in Payments : Pay(t)
    BY <2>5, WorldKeeps
  <2> QED
    BY <1>2, <2>1, <2>2, <2>3, <2>4, <2>5 DEF Next
<1> QED
  BY <1>1, <1>2

LEMMA Initially ==
  ASSUME ConstantsAssumption, Init
  PROVE  IInv
<1>1. \A p \in Procs : proc[p] = Idle
  BY DEF Init
<1>2. Idle \in Locals /\ Idle.pc = "idle" /\ Idle.cur = 0
  BY DEF Idle, Locals, Labels, Statuses
<1>3. batch \in Batches /\ batch.txs = <<>> /\ Len(batch.txs) = 0
  BY DEF Init, Batches, Statuses
<1>4. Shape
  <2>1. proc \in [Procs -> Locals]
    BY <1>2 DEF Init
  <2>2. overtaken \in BOOLEAN
    BY DEF Init
  <2>3. tokens = 0 /\ locked = 0 /\ delivered = 0
    BY DEF Init
  <2> QED
    BY <1>3, <2>1, <2>2, <2>3 DEF Shape
<1>5. JobExclusion /\ Entering /\ Current
  BY <1>1, <1>2, <1>3 DEF JobExclusion, Entering, Current, Working, At, Procs
<1>6. Budget
  BY <1>1, <1>2, <1>3 DEF Budget, Working, At, Procs, ConstantsAssumption
<1>7. Minted /\ SentRecorded
  BY <1>1, <1>2, <1>3 DEF Init, Minted, SentRecorded, At, Procs
<1> QED
  BY <1>4, <1>5, <1>6, <1>7 DEF IInv

LEMMA Invariant == Spec => []IInv
<1>1. Init => IInv
  BY Initially, ConstantsAssumption
<1>2. IInv /\ [Next]_vars => IInv'
  BY Inductive, ConstantsAssumption
<1> QED
  BY <1>1, <1>2, PTL DEF Spec

-----------------------------------------------------------------------------
(* Theorems *)

\* However many pods are started, by requests, the cron job or by hand, and whatever the
\* unconditional writers of the status do, one job at a time works on the batch
\* (updateStatusToInProgress is a lock that only the end of the job gives back).
THEOREM OneJob == Spec => []JobExclusion
<1>1. IInv => JobExclusion
  BY DEF IInv
<1> QED
  BY <1>1, Invariant, PTL

\* No restart mints more than was paid for, whatever failed at whichever step, unless a job
\* started with a document another job had changed in between.
THEOREM NoMintTooMany == Spec => []MintsBounded
<1>1. IInv => MintsBounded
  <2> SUFFICES ASSUME IInv, ~overtaken
               PROVE  Len(batch.txs) <= Total /\ tokens + locked + delivered <= Total
    BY DEF MintsBounded
  <2>1. Len(batch.txs) <= Total /\ tokens + locked + delivered <= Len(batch.txs)
    BY DEF IInv, Budget, Minted
  <2>2. /\ Total \in Int /\ Len(batch.txs) \in Int
        /\ tokens \in Int /\ locked \in Int /\ delivered \in Int
    BY LenTxs, ConstantsAssumption DEF IInv, Shape, ConstantsAssumption
  <2> QED
    BY <2>1, <2>2
<1> QED
  BY <1>1, Invariant, PTL

\* A commit or a reveal on the chain has its id in the batch's document, so that
\* doBatchMint, started again, goes on after it.
THEOREM RecordedFirst == Spec => []SentRecorded
<1>1. IInv => SentRecorded
  BY DEF IInv
<1> QED
  BY <1>1, Invariant, PTL

-----------------------------------------------------------------------------
(* The counter of the commission and the end of a batch.  What a working job
   knows (Due) is written by nobody else, since it is alone. *)

Revealed == {i \in DOMAIN batch.txs : batch.txs[i]}

\* A job closes the batch once the tokens are gone or their transfer is recorded, and
\* completes it once the refund is; a mint it has yet to reveal is not recorded as revealed.
Due(j) ==
    /\ proc[j].pc \in {"submitReveal", "give", "submitGive", "giveReveal", "submitGiveReveal"}
         => batch.finished > 0
    /\ Working(j) /\ ~overtaken => proc[j].given \subseteq batch.transfer
    /\ At(j, "submitGiveReveal") => "reveal" \in batch.transfer
    /\ proc[j].pc \in {"refund", "submitRefund", "complete"} /\ ~overtaken
         => tokens = 0 \/ "reveal" \in batch.transfer
    /\ proc[j].pc \in {"submitRefund", "complete"} => batch.refunded
    /\ proc[j].pc \in {"mint", "await", "submitCommit", "reveal"} /\ proc[j].cur # 0 /\ ~overtaken
         => ~batch.txs[proc[j].cur]

Closing ==
    /\ \A j \in Jobs : Due(j)
    /\ tokens # 0 => batch.finished > 0
    /\ CommissionExact /\ CompletedDelivered

\* No job begins to work, and the batch's records and tokens stay as they are.
Idling ==
    /\ \A j \in Jobs : Working(j)' => proc'[j] = proc[j]
    /\ batch'.txs = batch.txs /\ batch'.finished = batch.finished
    /\ batch'.transfer = batch.transfer /\ batch'.refunded = batch.refunded
    /\ batch'.status = "COMPLETED" => batch.status = "COMPLETED"
    /\ tokens' = tokens /\ overtaken' = overtaken

LEMMA DueOfWorking ==
  ASSUME NEW j \in Jobs, ~Working(j)
  PROVE  Due(j)
  BY DEF Due, Working, At

LEMMA IdlingCloses ==
  ASSUME Closing, Idling
  PROVE  Closing'
<1>1. ASSUME NEW j \in Jobs PROVE Due(j)'
  BY DEF Closing, Idling, Due, Working, At
<1>2. CommissionExact' /\ CompletedDelivered' /\ (tokens' # 0 => batch'.finished > 0)
  BY DEF Closing, Idling, CommissionExact, CompletedDelivered
<1> QED
  BY <1>1, <1>2 DEF Closing

\* Requests, the cron job, the world, and jobs that do not work yet.
LEMMA OthersIdle ==
  ASSUME ConstantsAssumption, IInv,
         \/ \E p \in Servers : StartBatchMint(p) \/ CancelBatchMint(p) \/ ServerSteps(p)
         \/ HandleWaitingKas \/ CronSteps
         \/ \E j \in Jobs : StartBatchMintPod(j) \/ JobRead(j) \/ JobValidate(j)
         \/ \E p \in Procs : Stop(p)
         \/ MintedOut \/ \E t \in Payments : Pay(t)
         \/ UNCHANGED vars
  PROVE  Idling
<1>0. /\ proc \in [Procs -> Locals] /\ batch \in Batches
      /\ Idle.pc = "idle" /\ Cron \in Servers /\ Jobs \cap Servers = {}
  BY DEF IInv, Shape, Idle, ConstantsAssumption, Servers
<1> DEFINE Same == batch' = batch /\ tokens' = tokens /\ overtaken' = overtaken
<1>1. ASSUME NEW p \in Servers, Only(p), UNCHANGED <<chain, overtaken>>,
             \/ batch' = batch \/ batch' = [batch EXCEPT !.cancelled = TRUE]
             \/ \E s \in Statuses \ {"COMPLETED"} : batch' = [batch EXCEPT !.status = s]
      PROVE  Idling
  <2>1. \A j \in Jobs : proc'[j] = proc[j]
    BY <1>0, <1>1 DEF Only, Procs
  <2>2. /\ batch'.txs = batch.txs /\ batch'.finished = batch.finished
        /\ batch'.transfer = batch.transfer /\ batch'.refunded = batch.refunded
        /\ batch'.status = "COMPLETED" => batch.status = "COMPLETED"
    BY <1>0, <1>1 DEF Batches
  <2> QED
    BY <1>1, <2>1, <2>2 DEF Idling, chain
<1>2. ASSUME NEW p \in Servers, StartBatchMint(p) \/ CancelBatchMint(p) \/ Validate(p)
      PROVE  Idling
  <2>1. Only(p) /\ UNCHANGED <<batch, chain, overtaken>>
    BY <1>0, <1>2, Moves, Ends DEF StartBatchMint, CancelBatchMint, Validate, Labels, Procs
  <2> QED
    BY <1>1, <2>1
<1>3. ASSUME NEW p \in Servers, ToJob(p) \/ PodError(p) \/ Cancel(p)
      PROVE  Idling
  <2>1. Only(p) /\ UNCHANGED <<chain, overtaken>>
    BY <1>0, <1>3, Moves, Ends DEF ToJob, PodError, Cancel, Labels, Procs
  <2>2. \/ batch' = batch \/ batch' = [batch EXCEPT !.cancelled = TRUE]
        \/ \E s \in Statuses \ {"COMPLETED"} : batch' = [batch EXCEPT !.status = s]
    BY <1>3 DEF ToJob, PodError, Cancel, Transition, Statuses
  <2> QED
    BY <1>1, <2>1, <2>2
<1>4. ASSUME NEW p \in Servers, StartPod(p)
      PROVE  Idling
  <2>1. CASE Goto(p, "podError")
    BY <1>0, <1>1, <1>4, <2>1, Moves DEF StartPod, Labels, Procs
  <2>2. CASE \E j \in Jobs : At(j, "idle") /\ proc' = [proc EXCEPT ![p] = Idle, ![j].pc = "jobRead"]
    <3>1. PICK j \in Jobs : At(j, "idle") /\ proc' = [proc EXCEPT ![p] = Idle, ![j].pc = "jobRead"]
      BY <2>2
    <3>2. \A k \in Jobs : k # j => proc'[k] = proc[k]
      BY <1>0, <3>1 DEF Procs
    <3>3. proc'[j].pc = "jobRead"
      BY <1>0, <3>1 DEF Procs, Locals
    <3> QED
      BY <1>4, <3>2, <3>3 DEF Idling, StartPod, chain, Working
  <2> QED
    BY <1>4, <2>1, <2>2 DEF StartPod
<1>5. CASE HandleWaitingKas \/ Balance
  <2>1. Only(Cron) /\ UNCHANGED <<batch, chain, overtaken>>
    BY <1>0, <1>5, Moves, Ends DEF HandleWaitingKas, Balance, Labels, Procs
  <2> QED
    BY <1>0, <1>1, <2>1
<1>6. CASE Unpaid
  <2>1. Only(Cron) /\ UNCHANGED <<chain, overtaken>>
    BY <1>0, <1>6, Ends DEF Unpaid, Procs
  <2>2. batch' = batch \/ \E s \in Statuses \ {"COMPLETED"} : batch' = [batch EXCEPT !.status = s]
    BY <1>6 DEF Unpaid, Transition, Statuses
  <2> QED
    BY <1>0, <1>1, <2>1, <2>2
<1>7. ASSUME NEW j \in Jobs, StartBatchMintPod(j) \/ JobRead(j) \/ JobValidate(j)
      PROVE  Idling
  <2>1. UNCHANGED <<batch, chain, overtaken>>
    BY <1>7 DEF StartBatchMintPod, JobRead, JobValidate
  <2>2. \A k \in Jobs : k # j => proc'[k] = proc[k]
    BY <1>0, <1>7 DEF StartBatchMintPod, JobRead, JobValidate, Goto, End, Procs
  <2>3. proc'[j].pc \in {"idle", "jobRead", "jobStatus", "jobValidate"}
    <3>1. CASE StartBatchMintPod(j) \/ JobValidate(j)
      BY <1>0, <3>1, Moves, Ends DEF StartBatchMintPod, JobValidate, Labels, Procs
    <3>2. CASE JobRead(j)
      BY ZenonT(60), <1>0, <3>2 DEF JobRead, End, Idle, Procs
    <3> QED
      BY <1>7, <3>1, <3>2
  <2> QED
    BY <2>1, <2>2, <2>3 DEF Idling, Working, chain
<1>8. ASSUME NEW p \in Procs, Stop(p)
      PROVE  Idling
  <2>1. Only(p) /\ proc'[p] = Idle /\ UNCHANGED <<batch, chain, overtaken>>
    BY <1>0, <1>8, Ends DEF Stop
  <2> QED
    BY <1>0, <2>1 DEF Only, Idling, Working, chain, Procs
<1>9. CASE MintedOut \/ \E t \in Payments : Pay(t)
  <2>1. UNCHANGED <<batch, proc, overtaken, tokens>>
    BY <1>9 DEF MintedOut, Pay
  <2> QED
    BY <2>1 DEF Idling
<1>10. CASE UNCHANGED vars
  BY <1>10 DEF vars, Idling
<1> QED
  BY <1>2, <1>3, <1>4, <1>5, <1>6, <1>7, <1>8, <1>9, <1>10 DEF ServerSteps, CronSteps

\* A working job finds nothing completed, and what the others know is theirs to find out.
LEMMA WorkCloses ==
  ASSUME IInv, Closing, NEW j \in Jobs, Working(j), Only(j), Due(j)',
         tokens' # 0 => batch'.finished > 0, CommissionExact',
         batch'.status = batch.status \/ CompletedDelivered'
  PROVE  Closing'
<1>1. \A k \in Jobs : k # j => ~Working(k)'
  BY Alone
<1>2. \A k \in Jobs : Due(k)'
  <2>1. ASSUME NEW k \in Jobs, k # j PROVE Due(k)'
    BY <1>1, <2>1 DEF Due, Working, At
  <2> QED
    BY <2>1
<1>3. CompletedDelivered'
  BY DEF IInv, JobExclusion, CompletedDelivered
<1> QED
  BY <1>2, <1>3 DEF Closing

\* A step of a job that records nothing about a mint.
LEMMA ElsewhereCloses ==
  ASSUME IInv, Closing, NEW j \in Jobs, Working(j), Only(j), Due(j)',
         batch'.txs = batch.txs, batch'.finished = batch.finished, overtaken' = overtaken,
         tokens' # 0 => batch.finished > 0,
         batch'.status = batch.status \/ CompletedDelivered'
  PROVE  Closing'
<1>1. CommissionExact'
  BY DEF Closing, CommissionExact
<1> QED
  BY <1>1, WorkCloses

LEMMA UnfinishedUnrevealed ==
  ASSUME batch \in Batches, Unfinished(batch.txs) # 0
  PROVE  ~batch.txs[Unfinished(batch.txs)]
  BY DEF Unfinished

\* A job starts with what the document says, unless it was overtaken.
LEMMA JobStatusCloses ==
  ASSUME ConstantsAssumption, IInv, Closing, NEW j \in Jobs, JobStatus(j)
  PROVE  Closing'
<1>0. /\ proc \in [Procs -> Locals] /\ batch \in Batches /\ j \in Procs /\ Idle.pc = "idle"
      /\ proc[j].from \in {"ERROR", "WAITING_FOR_JOB"} /\ UNCHANGED chain
  BY DEF IInv, Shape, Procs, Idle, Entering, JobStatus, At
<1>1. CASE End(j) /\ UNCHANGED <<batch, overtaken>>
  <2>1. Idling
    BY <1>0, <1>1, Ends DEF Idling, Only, Working, chain, Procs
  <2> QED
    BY <2>1, IdlingCloses
<1>2. CASE /\ Transition(proc[j].from, "IN_PROGRESS")
           /\ proc' = [proc EXCEPT ![j].pc = "mint", ![j].cancelled = batch.cancelled]
           /\ overtaken' = (overtaken \/ Stale(j))
  <2>1. /\ batch'.txs = batch.txs /\ batch'.status = "IN_PROGRESS"
        /\ batch'.finished = batch.finished /\ batch'.transfer = batch.transfer
        /\ batch.status \in {"ERROR", "WAITING_FOR_JOB"} /\ tokens' = tokens
    BY <1>0, <1>2 DEF Transition, Batches, chain
  <2>2. /\ proc'[j].pc = "mint" /\ proc'[j].cur = proc[j].cur
        /\ proc'[j].given = proc[j].given
        /\ \A k \in Jobs : k # j => proc'[k] = proc[k] /\ ~Working(k)'
    BY <1>0, <1>2, <2>1 DEF Locals, IInv, JobExclusion, Procs, Working
  <2>3. ASSUME ~overtaken'
        PROVE  /\ ~overtaken /\ proc[j].given = batch.transfer
               /\ proc[j].cur = Unfinished(batch.txs)
    BY <1>2, <2>3 DEF Stale
  <2>4. Due(j)'
    BY <1>0, <2>1, <2>2, <2>3, UnfinishedUnrevealed DEF Due, Working, At
  <2>5. ASSUME NEW k \in Jobs, k # j PROVE Due(k)'
    BY <2>2, <2>5 DEF Due, Working, At
  <2>6. CommissionExact' /\ CompletedDelivered'
    BY <2>1, <2>3 DEF Closing, CommissionExact, CompletedDelivered
  <2> QED
    BY <2>1, <2>4, <2>5, <2>6 DEF Closing
<1> QED
  BY <1>1, <1>2 DEF JobStatus

\* A commit is recorded as a mint that is not revealed.
LEMMA CommitCloses ==
  ASSUME ConstantsAssumption, IInv, Closing, NEW j \in Jobs, At(j, "commit"),
         UNCHANGED <<chain, overtaken>>,
         batch' = [batch EXCEPT !.txs = Append(@, FALSE)],
         proc' = [proc EXCEPT ![j].pc = "submitCommit", ![j].cur = Len(batch.txs) + 1,
                              ![j].cancelled = batch.cancelled]
  PROVE  Closing'
<1>0. /\ proc \in [Procs -> Locals] /\ batch \in Batches /\ j \in Procs /\ Working(j)
      /\ batch.txs \in Seq(BOOLEAN) /\ Len(batch.txs) \in Nat
  BY LenTxs DEF IInv, Shape, Procs, Working, At
<1>1. /\ batch'.status = batch.status /\ batch'.finished = batch.finished
      /\ batch'.transfer = batch.transfer /\ batch'.refunded = batch.refunded
      /\ batch'.txs = Append(batch.txs, FALSE)
  BY <1>0 DEF Batches
<1>2. /\ \A i \in 1 .. Len(batch.txs) : batch'.txs[i] = batch.txs[i]
      /\ DOMAIN batch.txs = 1 .. Len(batch.txs) /\ DOMAIN batch'.txs = 1 .. Len(batch.txs) + 1
      /\ ~batch'.txs[Len(batch.txs) + 1]
  BY <1>0, <1>1, CommitRecorded
<1>3. /\ Only(j) /\ proc'[j].pc = "submitCommit"
      /\ proc'[j].cur = Len(batch.txs) + 1 /\ proc'[j].given = proc[j].given
  <2> DEFINE here == [proc[j] EXCEPT !.pc = "submitCommit", !.cur = Len(batch.txs) + 1,
                                     !.cancelled = batch.cancelled]
  <2>1. Len(batch.txs) + 1 \in Nat /\ batch.cancelled \in BOOLEAN /\ proc[j] \in Locals
    BY <1>0 DEF Batches
  <2>2. /\ here \in Locals /\ here.pc = "submitCommit"
        /\ here.cur = Len(batch.txs) + 1 /\ here.given = proc[j].given
    <3> DEFINE n == Len(batch.txs) + 1
    <3> HIDE DEF n
    <3> QED
      BY <2>1 DEF Locals, Labels, n
  <2>3. proc' = [proc EXCEPT ![j] = here]
    OBVIOUS
  <2> HIDE DEF here
  <2> QED
    BY <1>0, <2>2, <2>3 DEF Only
<1>4. CommissionExact'
  <2>1. Revealed' = Revealed
    BY <1>0, <1>2 DEF Revealed
  <2> QED
    BY <1>1, <2>1 DEF Closing, CommissionExact, Revealed
<1>5. Due(j)'
  BY <1>0, <1>1, <1>2, <1>3 DEF Closing, Due, Working, At
<1>6. tokens' # 0 => batch'.finished > 0
  BY <1>1 DEF Closing, chain
<1> QED
  BY <1>0, <1>1, <1>3, <1>4, <1>5, <1>6, WorkCloses

\* A reveal is counted when it is recorded, and recorded once.
LEMMA RevealCloses ==
  ASSUME ConstantsAssumption, IInv, Closing, NEW j \in Jobs, At(j, "reveal"),
         UNCHANGED <<chain, overtaken>>,
         batch' = [batch EXCEPT !.txs[proc[j].cur] = TRUE, !.finished = @ + 1],
         proc' = [proc EXCEPT ![j].pc = "submitReveal", ![j].cancelled = batch.cancelled]
  PROVE  Closing'
<1>0. /\ proc \in [Procs -> Locals] /\ batch \in Batches /\ j \in Procs /\ Working(j)
      /\ batch.txs \in Seq(BOOLEAN) /\ Len(batch.txs) \in Nat /\ batch.finished \in Nat
      /\ proc[j].cur \in 1 .. Len(batch.txs) /\ DOMAIN batch.txs = 1 .. Len(batch.txs)
  BY LenTxs DEF IInv, Shape, Procs, Working, At, Current, Locals, Batches
<1>1. /\ batch'.status = batch.status /\ batch'.finished = batch.finished + 1
      /\ batch'.transfer = batch.transfer /\ batch'.refunded = batch.refunded
      /\ batch'.txs = [batch.txs EXCEPT ![proc[j].cur] = TRUE]
  BY <1>0 DEF Batches
<1>2. /\ Only(j) /\ proc'[j].pc = "submitReveal" /\ proc'[j].given = proc[j].given
  <2> DEFINE here == [proc[j] EXCEPT !.pc = "submitReveal", !.cancelled = batch.cancelled]
  <2>1. proc[j] \in Locals /\ batch.cancelled \in BOOLEAN
    BY <1>0 DEF Batches
  <2>2. here \in Locals /\ here.pc = "submitReveal" /\ here.given = proc[j].given
    BY <2>1 DEF Locals, Labels
  <2>3. proc' = [proc EXCEPT ![j] = here]
    OBVIOUS
  <2> HIDE DEF here
  <2> QED
    BY <1>0, <2>2, <2>3 DEF Only
<1>3. CommissionExact'
  <2> SUFFICES ASSUME ~overtaken PROVE batch'.finished = Cardinality(Revealed')
    BY DEF CommissionExact, Revealed
  <2>1. IsFiniteSet(Revealed)
    <3>1. IsFiniteSet(1 .. Len(batch.txs))
      <4>1. 1 \in Int /\ Len(batch.txs) \in Int
        BY <1>0
      <4> QED
        BY <4>1, FS_Interval, Zenon
    <3>2. Revealed \subseteq 1 .. Len(batch.txs)
      BY <1>0 DEF Revealed
    <3> QED
      BY <3>1, <3>2, FS_Subset
  <2>2. proc[j].cur \notin Revealed /\ batch.finished = Cardinality(Revealed)
    BY <1>0 DEF Closing, Due, At, CommissionExact, Revealed
  <2>3. Revealed' = Revealed \cup {proc[j].cur}
    BY <1>0, <1>1 DEF Revealed
  <2>4. Cardinality(Revealed \cup {proc[j].cur}) = Cardinality(Revealed) + 1
    BY <2>1, <2>2, FS_AddElement
  <2> QED
    BY <1>1, <2>2, <2>3, <2>4
<1>4. Due(j)'
  BY <1>0, <1>1, <1>2 DEF Closing, Due, Working, At
<1> QED
  BY <1>0, <1>1, <1>2, <1>3, <1>4, WorkCloses

\* The steps that leave the records of the mints alone.
LEMMA JobStepsClose ==
  ASSUME ConstantsAssumption, IInv, Closing, NEW j \in Jobs, JobSteps(j)
  PROVE  Closing'
<1>0. /\ proc \in [Procs -> Locals] /\ proc[j] \in Locals /\ batch \in Batches /\ j \in Procs
      /\ tokens \in Int
  BY DEF IInv, Shape, Procs
<1>1. Working(j) /\ Due(j) /\ (tokens # 0 => batch.finished > 0) /\ CompletedDelivered
  BY DEF JobSteps, Working, At, Mint, AwaitCommit, Commit, SubmitCommit, Reveal, SubmitReveal,
         Finish, Give, SubmitGive, GiveReveal, SubmitGiveReveal, Refund, SubmitRefund, Complete,
         Error, JobFails, Closing
<1>2. \A l \in Labels : Goto(j, l) =>
          /\ Only(j) /\ proc'[j].pc = l /\ proc'[j].cur = proc[j].cur
          /\ proc'[j].given = proc[j].given
  BY ZenonT(60), <1>0, Moves DEF Goto, Locals
<1>3. CASE Goto(j, "error") /\ UNCHANGED <<batch, chain, overtaken>>
  <2>1. Only(j) /\ proc'[j].pc = "error" /\ proc'[j].given = proc[j].given
    BY <1>2, <1>3 DEF Labels
  <2>2. Due(j)'
    BY <1>1, <1>3, <2>1 DEF Due, Working, At
  <2> QED
    BY <1>1, <1>3, <2>1, <2>2, ElsewhereCloses DEF chain
<1>4. CASE Mint(j) \/ AwaitCommit(j)
  <2>1. /\ UNCHANGED <<batch, chain, overtaken>> /\ proc[j].pc \in {"mint", "await"}
        /\ \E l \in {"finish", "await", "commit", "reveal", "error"} : Goto(j, l)
    BY <1>4 DEF Mint, AwaitCommit, At
  <2>2. /\ Only(j) /\ proc'[j].pc \in {"finish", "await", "commit", "reveal", "error"}
        /\ proc'[j].cur = proc[j].cur /\ proc'[j].given = proc[j].given
    BY <1>2, <2>1 DEF Labels
  <2>3. Due(j)'
    BY <1>1, <2>1, <2>2 DEF Due, Working, At
  <2> QED
    BY <1>1, <2>1, <2>2, <2>3, ElsewhereCloses DEF chain
<1>5. CASE Commit(j)
  BY <1>3, <1>5, CommitCloses DEF Commit, AddMintAction
<1>6. CASE Reveal(j)
  BY <1>3, <1>6, RevealCloses DEF Reveal, FinishMintAction
<1>7. CASE SubmitCommit(j)
  <2>1. Only(j) /\ proc'[j].pc = "reveal" /\ proc'[j].cur = proc[j].cur
        /\ proc'[j].given = proc[j].given
    BY <1>2, <1>7 DEF SubmitCommit, Labels
  <2>2. UNCHANGED <<batch, tokens, overtaken>> /\ proc[j].pc = "submitCommit"
    BY <1>7 DEF SubmitCommit, At
  <2>3. Due(j)'
    BY <1>1, <2>1, <2>2 DEF Due, Working, At
  <2> QED
    BY <1>1, <2>1, <2>2, <2>3, ElsewhereCloses
<1>8. CASE SubmitReveal(j)
  <2>1. Only(j) /\ proc'[j].pc = "mint" /\ proc'[j].cur = 0 /\ proc'[j].given = proc[j].given
    <3> DEFINE here == [proc[j] EXCEPT !.pc = "mint", !.cur = 0, !.left = @ - 1]
    <3>1. here \in Locals /\ here.pc = "mint" /\ here.cur = 0 /\ here.given = proc[j].given
      <4>1. proc[j].left - 1 \in Int /\ 0 \in Nat
        BY <1>0 DEF Locals
      <4> QED
        BY <1>0, <4>1 DEF Locals, Labels
    <3>2. proc' = [proc EXCEPT ![j] = here]
      BY <1>8 DEF SubmitReveal
    <3> HIDE DEF here
    <3> QED
      BY <1>0, <3>1, <3>2 DEF Only
  <2>2. UNCHANGED <<batch, overtaken>> /\ batch.finished > 0
    BY <1>1, <1>8 DEF SubmitReveal, Due, At
  <2>3. Due(j)'
    BY <1>1, <2>1, <2>2 DEF Due, Working, At
  <2> QED
    BY <1>1, <2>1, <2>2, <2>3, ElsewhereCloses
<1>9. CASE Finish(j)
  <2>1. UNCHANGED <<batch, tokens, overtaken>> /\ proc[j].pc = "finish"
    BY <1>9 DEF Finish, chain, At
  <2>2. /\ Only(j) /\ proc'[j].pc \in {"refund", "error", "giveReveal", "give"}
        /\ proc'[j].given = proc[j].given
        /\ proc'[j].pc \in {"giveReveal", "give"} => batch.finished > 0
        /\ proc'[j].pc = "refund" => batch.finished = 0 \/ tokens = 0
    <3>1. CASE batch.finished = 0 /\ Goto(j, "refund")
      BY <1>2, <3>1 DEF Labels
    <3>2. CASE Goto(j, "error")
      BY <1>2, <3>2 DEF Labels
    <3>3. CASE /\ batch.finished > 0
               /\ proc' = [proc EXCEPT ![j].amount = tokens,
                    ![j].pc = IF tokens = 0 THEN "refund"
                              ELSE IF "commit" \in proc[j].given THEN "giveReveal" ELSE "give"]
      <4> DEFINE l == IF tokens = 0 THEN "refund"
                      ELSE IF "commit" \in proc[j].given THEN "giveReveal" ELSE "give"
                 here == [proc[j] EXCEPT !.amount = tokens, !.pc = l]
      <4>1. l \in {"refund", "giveReveal", "give"} /\ (l = "refund" => tokens = 0)
        OBVIOUS
      <4>2. proc' = [proc EXCEPT ![j] = here]
        BY <3>3
      <4> HIDE DEF l
      <4>3. here \in Locals /\ here.pc = l /\ here.given = proc[j].given
        BY <1>0, <4>1 DEF Locals, Labels
      <4> HIDE DEF here
      <4>4. Only(j) /\ proc'[j] = here
        BY <1>0, <4>2, <4>3 DEF Only
      <4> QED
        BY <3>3, <4>1, <4>3, <4>4
    <3> QED
      BY <1>9, <3>1, <3>2, <3>3 DEF Finish
  <2>3. Due(j)'
    <3>1. proc'[j].pc = "refund" => tokens = 0
      BY <1>0, <1>1, <2>2 DEF Batches
    <3> QED
      BY <1>1, <2>1, <2>2, <3>1 DEF Due, Working, At
  <2> QED
    BY <1>1, <2>1, <2>2, <2>3, ElsewhereCloses
<1>10. CASE Give(j)
  <2>1. CASE Goto(j, "error") /\ UNCHANGED batch
    BY <1>3, <1>10, <2>1 DEF Give
  <2>2. CASE /\ batch' = [batch EXCEPT !.transfer = proc[j].given \cup {"commit"}]
             /\ proc' = [proc EXCEPT ![j].pc = "submitGive", ![j].given = @ \cup {"commit"}]
    <3> DEFINE here == [proc[j] EXCEPT !.pc = "submitGive", !.given = @ \cup {"commit"}]
    <3>1. here \in Locals /\ here.pc = "submitGive" /\ here.given = proc[j].given \cup {"commit"}
      BY <1>0 DEF Locals, Labels
    <3>2. proc' = [proc EXCEPT ![j] = here]
      BY <2>2
    <3> HIDE DEF here
    <3>3. Only(j) /\ proc'[j] = here
      BY <1>0, <3>1, <3>2 DEF Only
    <3>4. /\ batch'.txs = batch.txs /\ batch'.status = batch.status
          /\ batch'.finished = batch.finished
          /\ batch'.transfer = proc[j].given \cup {"commit"}
          /\ UNCHANGED <<tokens, overtaken>> /\ proc[j].pc = "give"
      BY <1>0, <1>10, <2>2 DEF Batches, Give, chain, At
    <3>5. Due(j)'
      BY <1>1, <3>1, <3>3, <3>4 DEF Due, Working, At
    <3> QED
      BY <1>1, <3>3, <3>4, <3>5, ElsewhereCloses
  <2> QED
    BY <1>10, <2>1, <2>2 DEF Give
<1>11. CASE SubmitGive(j)
  <2>1. /\ Only(j) /\ proc'[j].pc = "giveReveal" /\ proc'[j].given = proc[j].given
        /\ UNCHANGED <<batch, tokens, overtaken>> /\ proc[j].pc = "submitGive"
    BY <1>2, <1>11 DEF SubmitGive, Labels, At
  <2>2. Due(j)'
    BY <1>1, <2>1 DEF Due, Working, At
  <2> QED
    BY <1>1, <2>1, <2>2, ElsewhereCloses
<1>12. CASE GiveReveal(j)
  <2>1. CASE Goto(j, "error") /\ UNCHANGED batch
    BY <1>3, <1>12, <2>1 DEF GiveReveal
  <2>2. CASE "reveal" \in proc[j].given /\ Goto(j, "refund") /\ UNCHANGED batch
    <3>1. /\ Only(j) /\ proc'[j].pc = "refund" /\ proc'[j].given = proc[j].given
          /\ UNCHANGED <<batch, tokens, overtaken>>
      BY <1>2, <1>12, <2>2 DEF GiveReveal, Labels, chain
    <3>2. Due(j)'
      BY <1>1, <2>2, <3>1 DEF Due, Working, At
    <3> QED
      BY <1>1, <3>1, <3>2, ElsewhereCloses
  <2>3. CASE /\ batch' = [batch EXCEPT !.transfer = {"commit", "reveal"}]
             /\ Goto(j, "submitGiveReveal")
    <3>1. /\ Only(j) /\ proc'[j].pc = "submitGiveReveal" /\ proc'[j].given = proc[j].given
          /\ UNCHANGED <<tokens, overtaken>> /\ proc[j].pc = "giveReveal"
      BY <1>2, <1>12, <2>3 DEF GiveReveal, Labels, chain, At
    <3>2. /\ batch'.txs = batch.txs /\ batch'.status = batch.status
          /\ batch'.finished = batch.finished /\ batch'.transfer = {"commit", "reveal"}
          /\ proc[j].given \subseteq batch'.transfer
      BY <1>0, <2>3 DEF Batches, Locals
    <3>3. Due(j)'
      BY <1>1, <3>1, <3>2 DEF Due, Working, At
    <3> QED
      BY <1>1, <3>1, <3>2, <3>3, ElsewhereCloses
  <2> QED
    BY <1>12, <2>1, <2>2, <2>3 DEF GiveReveal
<1>13. CASE SubmitGiveReveal(j)
  <2>1. /\ Only(j) /\ proc'[j].pc = "refund" /\ proc'[j].given = proc[j].given
        /\ UNCHANGED <<batch, overtaken>>
        /\ "reveal" \in batch.transfer /\ batch.finished > 0
    BY <1>1, <1>2, <1>13 DEF SubmitGiveReveal, Labels, Due, At
  <2>2. Due(j)'
    BY <1>1, <2>1 DEF Due, Working, At
  <2> QED
    BY <1>1, <2>1, <2>2, ElsewhereCloses
<1>14. CASE Refund(j)
  <2>1. CASE batch' = [batch EXCEPT !.refunded = TRUE] /\ Goto(j, "submitRefund")
    <3>1. /\ Only(j) /\ proc'[j].pc = "submitRefund" /\ proc'[j].given = proc[j].given
          /\ UNCHANGED <<tokens, overtaken>> /\ proc[j].pc = "refund"
      BY <1>2, <1>14, <2>1 DEF Refund, Labels, chain, At
    <3>2. /\ batch'.txs = batch.txs /\ batch'.status = batch.status
          /\ batch'.finished = batch.finished /\ batch'.transfer = batch.transfer
          /\ batch'.refunded
      BY <1>0, <2>1 DEF Batches
    <3>3. Due(j)'
      BY <1>1, <3>1, <3>2 DEF Due, Working, At
    <3> QED
      BY <1>1, <3>1, <3>2, <3>3, ElsewhereCloses
  <2> QED
    BY <1>3, <1>14, <2>1 DEF Refund
<1>15. CASE SubmitRefund(j)
  <2>1. /\ Only(j) /\ proc'[j].pc = "complete" /\ proc'[j].given = proc[j].given
        /\ UNCHANGED <<batch, tokens, overtaken>> /\ proc[j].pc = "submitRefund"
    BY <1>2, <1>15 DEF SubmitRefund, Labels, At
  <2>2. Due(j)'
    BY <1>1, <2>1 DEF Due, Working, At
  <2> QED
    BY <1>1, <2>1, <2>2, ElsewhereCloses
<1>16. CASE Complete(j)
  <2>1. CASE Transition("IN_PROGRESS", "COMPLETED") /\ End(j)
    <3>1. /\ Only(j) /\ proc'[j].pc = "idle" /\ UNCHANGED <<tokens, overtaken>>
          /\ proc[j].pc = "complete"
      BY <1>0, <1>16, <2>1, Ends DEF Complete, chain, At, Idle
    <3>2. /\ batch'.txs = batch.txs /\ batch'.finished = batch.finished
          /\ batch'.transfer = batch.transfer /\ batch'.refunded = batch.refunded
      BY <1>0, <2>1 DEF Transition, Batches
    <3>3. Due(j)'
      BY <3>1 DEF Due, Working, At
    <3>4. CompletedDelivered'
      BY <1>1, <3>1, <3>2 DEF CompletedDelivered, Due
    <3> QED
      BY <1>1, <3>1, <3>2, <3>3, <3>4, ElsewhereCloses
  <2> QED
    BY <1>3, <1>16, <2>1 DEF Complete
<1>17. CASE Error(j)
  <2>1. /\ Only(j) /\ proc'[j].pc = "idle" /\ UNCHANGED <<tokens, overtaken>>
    BY <1>0, <1>17, Ends DEF Error, chain, Idle
  <2>2. /\ batch'.txs = batch.txs /\ batch'.finished = batch.finished
        /\ batch'.status = "ERROR"
    BY <1>0, <1>17 DEF Error, Batches
  <2>3. Due(j)' /\ CompletedDelivered'
    BY <2>1, <2>2 DEF Due, Working, At, CompletedDelivered
  <2> QED
    BY <1>1, <2>1, <2>2, <2>3, ElsewhereCloses
<1>18. CASE JobFails(j)
  BY <1>3, <1>18 DEF JobFails
<1> QED
  BY <1>4, <1>5, <1>6, <1>7, <1>8, <1>9, <1>10, <1>11, <1>12, <1>13, <1>14, <1>15, <1>16, <1>17,
     <1>18
  DEF JobSteps

LEMMA ClosingInvariant == Spec => []Closing
<1>1. ASSUME Init PROVE Closing
  <2>1. \A j \in Jobs : ~Working(j)
    BY <1>1 DEF Init, Idle, Working, Procs
  <2>2. \A j \in Jobs : Due(j)
    BY <2>1, DueOfWorking
  <2>3. tokens = 0 /\ batch.finished = 0 /\ batch.txs = <<>> /\ batch.status # "COMPLETED"
    BY <1>1 DEF Init
  <2>4. Cardinality({i \in DOMAIN batch.txs : batch.txs[i]}) = 0
    <3>1. {i \in DOMAIN batch.txs : batch.txs[i]} = {}
      BY <2>3
    <3> QED
      BY <3>1, FS_EmptySet
  <2> QED
    BY <2>2, <2>3, <2>4 DEF Closing, CommissionExact, CompletedDelivered
<1>2. ASSUME IInv, Closing, [Next]_vars PROVE Closing'
  <2>1. ASSUME NEW j \in Jobs, JobStatus(j) PROVE Closing'
    BY <1>2, <2>1, JobStatusCloses, ConstantsAssumption
  <2>2. ASSUME NEW j \in Jobs, JobSteps(j) PROVE Closing'
    BY <1>2, <2>2, JobStepsClose, ConstantsAssumption
  <2>3. CASE \/ \E p \in Servers : StartBatchMint(p) \/ CancelBatchMint(p) \/ ServerSteps(p)
             \/ HandleWaitingKas \/ CronSteps
             \/ \E j \in Jobs : StartBatchMintPod(j) \/ JobRead(j) \/ JobValidate(j)
             \/ \E p \in Procs : Stop(p)
             \/ MintedOut \/ \E t \in Payments : Pay(t)
             \/ UNCHANGED vars
    BY <1>2, <2>3, OthersIdle, IdlingCloses, ConstantsAssumption
  <2> QED
    BY <1>2, <2>1, <2>2, <2>3 DEF Next, JobStarts
<1> QED
  BY <1>1, <1>2, Invariant, PTL DEF Spec

\* The commission of a batch is taken for each mint that was recorded as revealed once, through
\* failures and restarts of jobs (finishedMints, which doBatchMint counts up at every reveal),
\* unless a job started with a document another job had changed in between.
THEOREM CommissionCountsReveals == Spec => []CommissionExact
<1>1. Closing => CommissionExact
  BY DEF Closing
<1> QED
  BY <1>1, ClosingInvariant, PTL

\* A batch that is COMPLETED has its refund recorded and no tokens left in its wallet, or the
\* reveal of their transfer recorded, whichever job completed it after whatever failures of others.
THEOREM NothingLeftBehind == Spec => []CompletedDelivered
<1>1. Closing => CompletedDelivered
  BY DEF Closing
<1> QED
  BY <1>1, ClosingInvariant, PTL

-----------------------------------------------------------------------------
(* What is in the wallet.  A job that is about to send something has it, as it
   had when it looked, since no other job works and payments only add to it. *)

\* What a job is about to send it has: KAS for a commit, an output for a reveal, the tokens
\* it looked up for the hand-over.
Holds(j) ==
    /\ At(j, "submitCommit") => Kas > 0
    /\ At(j, "submitReveal") => locked > 0
    /\ proc[j].pc \in {"give", "submitGive", "giveReveal", "submitGiveReveal"} =>
          proc[j].amount = tokens

Coffers ==
    /\ inbox \subseteq Payments /\ IsFiniteSet(inbox) /\ over \in BOOLEAN
    /\ {spent, locked, tokens, offer, delivered} \subseteq Nat
    /\ Kas >= 0
    /\ onChain \subseteq (DOMAIN batch.txs) \X {"commit", "reveal"}
    /\ \A j \in Jobs : Holds(j)

\* Transfers are worth what they are, whatever their number.
LEMMA ReceivedIs ==
  ASSUME ConstantsAssumption, inbox \subseteq Payments, IsFiniteSet(inbox)
  PROVE  Received \in Nat
<1> DEFINE f == [t \in Payments |-> t.units]
<1>1. \A t \in inbox : f[t] \in Nat
  BY DEF ConstantsAssumption
<1> HIDE DEF f
<1>2. SumFunctionOnSet(f, inbox) \in Nat
  BY <1>1, SumNat
<1> QED
  BY <1>2 DEF Received, f

\* A transfer that arrives adds its worth.
LEMMA PayAdds ==
  ASSUME ConstantsAssumption, inbox \subseteq Payments, IsFiniteSet(inbox),
         NEW t \in Payments, Pay(t)
  PROVE  /\ Received' = Received + t.units /\ t.units \in Nat
         /\ inbox' \subseteq Payments /\ IsFiniteSet(inbox')
<1> DEFINE f == [p \in Payments |-> p.units]
<1>1. inbox' = inbox \cup {t} /\ t \notin inbox
  BY DEF Pay
<1>2. \A p \in inbox \cup {t} : f[p] \in Int
  BY DEF ConstantsAssumption
<1>3. f[t] = t.units /\ t.units \in Nat
  BY DEF ConstantsAssumption
<1>4. Received = SumFunctionOnSet(f, inbox) /\ Received' = SumFunctionOnSet(f, inbox')
  BY DEF Received
<1> HIDE DEF f
<1>5. SumFunctionOnSet(f, inbox \cup {t}) = f[t] + SumFunctionOnSet(f, inbox)
  BY <1>1, <1>2, SumAdd
<1>6. IsFiniteSet(inbox \cup {t})
  BY FS_AddElement
<1>7. Received \in Nat
  BY ReceivedIs
<1> QED
  BY <1>1, <1>3, <1>4, <1>5, <1>6, <1>7

\* Steps outside of the jobs' work: at most a transfer arrives.
LEMMA OthersKeepCoffers ==
  ASSUME ConstantsAssumption, Coffers, Idling,
         UNCHANGED chain \/ MintedOut \/ \E t \in Payments : Pay(t)
  PROVE  Coffers'
<1>1. /\ UNCHANGED <<spent, onChain, locked, tokens, offer, delivered>>
      /\ inbox' \subseteq Payments /\ IsFiniteSet(inbox') /\ over' \in BOOLEAN
      /\ Received \in Int /\ Received' \in Int /\ Received <= Received'
  <2>1. Received \in Nat
    BY ReceivedIs DEF Coffers
  <2>2. CASE UNCHANGED chain \/ MintedOut
    <3>1. /\ UNCHANGED <<inbox, spent, onChain, locked, tokens, offer, delivered>>
          /\ over' \in BOOLEAN
      BY <2>2 DEF chain, MintedOut, Coffers
    <3>2. Received' = Received
      BY <3>1 DEF Received
    <3> QED
      BY <2>1, <3>1, <3>2 DEF Coffers
  <2>3. ASSUME NEW t \in Payments, Pay(t)
        PROVE  /\ UNCHANGED <<spent, onChain, locked, tokens, offer, delivered>>
               /\ inbox' \subseteq Payments /\ IsFiniteSet(inbox') /\ over' \in BOOLEAN
               /\ Received \in Int /\ Received' \in Int /\ Received <= Received'
    <3>1. /\ UNCHANGED <<spent, onChain, locked, tokens, offer, delivered>>
          /\ over' \in BOOLEAN
      BY <2>3 DEF Pay, Coffers
    <3>2. /\ Received' = Received + t.units /\ t.units \in Nat
          /\ inbox' \subseteq Payments /\ IsFiniteSet(inbox')
      BY <2>3, PayAdds DEF Coffers
    <3> QED
      BY <2>1, <3>1, <3>2
  <2> QED
    BY <2>2, <2>3
<1>2. Kas' >= Kas /\ Kas \in Int /\ Kas' \in Int
  BY <1>1 DEF Kas, Coffers
<1>3. ASSUME NEW j \in Jobs PROVE Holds(j)'
  <2>1. Holds(j)
    BY DEF Coffers
  <2>2. CASE Working(j)'
    <3>1. proc'[j] = proc[j]
      BY <2>2 DEF Idling
    <3> QED
      BY <2>1, <3>1, <1>1, <1>2 DEF Holds, At
  <2>3. CASE ~Working(j)'
    BY <2>3 DEF Working, Holds, At
  <2> QED
    BY <2>2, <2>3
<1> QED
  BY <1>1, <1>2, <1>3 DEF Coffers, Idling

\* A job's step that sends nothing.
LEMMA QuietKeeps ==
  ASSUME Coffers, NEW j \in Jobs, Only(j), UNCHANGED chain,
         DOMAIN batch.txs \subseteq DOMAIN batch'.txs, Holds(j)'
  PROVE  Coffers'
<1>1. Kas' = Kas /\ \A k \in Jobs : k # j => proc'[k] = proc[k]
  BY DEF Kas, Received, chain, Only, Procs
<1>2. ASSUME NEW k \in Jobs, k # j PROVE Holds(k)'
  BY <1>1, <1>2 DEF Coffers, Holds, At, chain
<1> QED
  BY <1>1, <1>2 DEF Coffers, chain

\* A job's step that sends a transaction: the others are not at work.
LEMMA SendKeeps ==
  ASSUME IInv, Coffers, NEW j \in Jobs, Working(j), Only(j), UNCHANGED <<batch, inbox, over>>,
         {spent', locked', tokens', offer', delivered'} \subseteq Nat, Kas' >= 0,
         onChain' \subseteq (DOMAIN batch.txs) \X {"commit", "reveal"}, Holds(j)'
  PROVE  Coffers'
<1>1. \A k \in Jobs : k # j => ~Working(k)'
  BY Alone
<1>2. ASSUME NEW k \in Jobs, k # j PROVE Holds(k)'
  BY <1>1, <1>2 DEF Working, Holds, At
<1> QED
  BY <1>2 DEF Coffers

\* Where a job goes, its amount goes with it.
LEMMA Goes ==
  ASSUME proc \in [Procs -> Locals], NEW j \in Jobs, NEW l \in Labels, Goto(j, l)
  PROVE  Only(j) /\ proc'[j].pc = l /\ proc'[j].amount = proc[j].amount
<1>1. proc[j] \in Locals /\ proc'[j] = [proc[j] EXCEPT !.pc = l] /\ j \in Procs
  BY DEF Goto, Procs
<1>2. proc'[j].amount = proc[j].amount
  BY <1>1 DEF Locals
<1> QED
  BY <1>1, <1>2, Moves

\* A job that records something and goes on, or gives up.
LEMMA RecordsKeep ==
  ASSUME ConstantsAssumption, IInv, Coffers, NEW j \in Jobs,
         Commit(j) \/ Reveal(j) \/ Finish(j) \/ Give(j) \/ GiveReveal(j) \/ Refund(j)
  PROVE  Coffers'
<1>0. /\ proc \in [Procs -> Locals] /\ proc[j] \in Locals /\ j \in Procs
      /\ batch \in Batches /\ UNCHANGED chain /\ Holds(j)
      /\ batch.txs \in Seq(BOOLEAN) /\ proc[j].cur \in Nat /\ Len(batch.txs) \in Nat
  BY LenTxs DEF IInv, Shape, Procs, Commit, Reveal, Finish, Give, GiveReveal, Refund, Coffers, Locals
<1>1. Kas' = Kas
  BY <1>0 DEF Kas, Received, chain
<1>2. ASSUME NEW l \in {"error", "refund", "submitRefund"}, Goto(j, l), batch'.txs = batch.txs
      PROVE  Coffers'
  <2>1. Only(j) /\ proc'[j].pc = l
    BY <1>0, <1>2, Goes DEF Labels
  <2> QED
    BY <1>0, <1>2, <2>1, QuietKeeps DEF Holds, At
<1>3. CASE Commit(j) /\ Kas > 0
  <2> DEFINE r == [proc[j] EXCEPT !.pc = "submitCommit", !.cur = Len(batch.txs) + 1,
                                  !.cancelled = batch.cancelled]
  <2>0. Len(batch.txs) + 1 \in Nat /\ batch.cancelled \in BOOLEAN
    BY <1>0 DEF Batches
  <2>1. r \in Locals /\ r.pc = "submitCommit"
    BY <1>0, <2>0 DEF Locals, Labels
  <2>2. proc' = [proc EXCEPT ![j] = r]
    BY <1>3 DEF Commit
  <2> HIDE DEF r
  <2>3. Only(j) /\ proc'[j] = r
    BY <1>0, <2>1, <2>2 DEF Only
  <2>4. DOMAIN batch.txs \subseteq DOMAIN batch'.txs
    <3>1. batch'.txs = Append(batch.txs, FALSE)
      BY <1>0, <1>3 DEF Commit, AddMintAction, Batches
    <3> QED
      BY <1>0, <3>1, CommitRecorded
  <2> QED
    BY <1>0, <1>1, <1>3, <2>1, <2>3, <2>4, QuietKeeps DEF Holds, At
<1>4. CASE Reveal(j) /\ locked > 0
  <2> DEFINE r == [proc[j] EXCEPT !.pc = "submitReveal", !.cancelled = batch.cancelled]
  <2>1. r \in Locals /\ r.pc = "submitReveal"
    BY <1>0 DEF Locals, Labels, Batches
  <2>2. proc' = [proc EXCEPT ![j] = r]
    BY <1>4 DEF Reveal
  <2> HIDE DEF r
  <2>3. Only(j) /\ proc'[j] = r
    BY <1>0, <2>1, <2>2 DEF Only
  <2>4. DOMAIN batch'.txs = DOMAIN batch.txs
    <3>1. batch' = [batch EXCEPT !.txs[proc[j].cur] = TRUE, !.finished = @ + 1]
      BY <1>4 DEF Reveal, FinishMintAction
    <3>2. batch'.txs = [batch.txs EXCEPT ![proc[j].cur] = TRUE]
      BY <1>0, <3>1 DEF Batches
    <3> QED
      BY <1>0, <3>2
  <2> QED
    BY <1>0, <1>4, <2>1, <2>3, <2>4, QuietKeeps DEF Holds, At, chain
<1>5. CASE Finish(j)
  <2>1. CASE Goto(j, "refund") \/ Goto(j, "error")
    BY <1>2, <1>5, <2>1 DEF Finish
  <2>2. CASE \E l \in {"refund", "giveReveal", "give"} :
               proc' = [proc EXCEPT ![j].amount = tokens, ![j].pc = l]
    <3>1. PICK l \in {"refund", "giveReveal", "give"} :
            proc' = [proc EXCEPT ![j].amount = tokens, ![j].pc = l]
      BY <2>2
    <3> DEFINE r == [proc[j] EXCEPT !.amount = tokens, !.pc = l]
    <3>2. r \in Locals /\ r.pc = l /\ r.amount = tokens
      BY <1>0 DEF Locals, Labels, IInv, Shape
    <3>3. proc' = [proc EXCEPT ![j] = r]
      BY <3>1
    <3> HIDE DEF r
    <3>4. Only(j) /\ proc'[j] = r
      BY <1>0, <3>2, <3>3 DEF Only
    <3>5. batch' = batch
      BY <1>5 DEF Finish
    <3> QED
      BY <1>0, <3>2, <3>4, <3>5, QuietKeeps DEF Holds, At, chain
  <2> QED
    BY <1>5, <2>1, <2>2 DEF Finish
<1>6. CASE Give(j) /\ Kas > 0
  <2> DEFINE r == [proc[j] EXCEPT !.pc = "submitGive", !.given = @ \cup {"commit"}]
  <2>1. r \in Locals /\ r.pc = "submitGive" /\ r.amount = proc[j].amount
    BY <1>0 DEF Locals, Labels
  <2>2. proc' = [proc EXCEPT ![j] = r]
    BY <1>6 DEF Give
  <2> HIDE DEF r
  <2>3. Only(j) /\ proc'[j] = r
    BY <1>0, <2>1, <2>2 DEF Only
  <2>4. batch'.txs = batch.txs
    BY <1>0, <1>6 DEF Give, Batches
  <2>5. proc[j].amount = tokens
    BY <1>0, <1>6 DEF Give, Holds, At
  <2> QED
    BY <1>0, <2>1, <2>3, <2>4, <2>5, QuietKeeps DEF Holds, At, chain
<1>7. CASE GiveReveal(j)
  <2>1. batch'.txs = batch.txs
    BY <1>0, <1>7 DEF GiveReveal, Batches
  <2>2. CASE Goto(j, "submitGiveReveal")
    <3>1. Only(j) /\ proc'[j].pc = "submitGiveReveal" /\ proc'[j].amount = proc[j].amount
      BY <1>0, <2>2, Goes DEF Labels
    <3>2. proc[j].amount = tokens
      BY <1>0, <1>7 DEF GiveReveal, Holds, At
    <3> QED
      BY <1>0, <2>1, <3>1, <3>2, QuietKeeps DEF Holds, At, chain
  <2> QED
    BY <1>2, <1>7, <2>1, <2>2 DEF GiveReveal
<1>8. CASE Refund(j)
  <2>1. batch'.txs = batch.txs
    BY <1>0, <1>8 DEF Refund, Batches
  <2> QED
    BY <1>2, <1>8, <2>1 DEF Refund
<1>9. CASE (Commit(j) /\ ~(Kas > 0)) \/ (Reveal(j) /\ ~(locked > 0)) \/ (Give(j) /\ ~(Kas > 0))
  BY <1>2, <1>9 DEF Commit, Reveal, Give
<1> QED
  BY <1>3, <1>4, <1>5, <1>6, <1>7, <1>8, <1>9

\* Steps that leave the document's records alone, too.
LEMMA MovesKeep ==
  ASSUME ConstantsAssumption, IInv, Coffers, NEW j \in Jobs,
         JobStatus(j) \/ Mint(j) \/ AwaitCommit(j) \/ Complete(j) \/ Error(j) \/ JobFails(j)
  PROVE  Coffers'
<1>0. /\ proc \in [Procs -> Locals] /\ proc[j] \in Locals /\ j \in Procs
      /\ batch \in Batches /\ UNCHANGED chain
  BY DEF IInv, Shape, Procs, JobStatus, Mint, AwaitCommit, Complete, Error, JobFails
<1>1. batch'.txs = batch.txs
  BY <1>0 DEF JobStatus, Transition, Mint, AwaitCommit, Complete, Error, JobFails, Batches
<1>2. ASSUME NEW l \in {"mint", "finish", "await", "commit", "reveal", "error"}, Goto(j, l)
      PROVE  Coffers'
  <2>1. Only(j) /\ proc'[j].pc = l
    BY <1>0, <1>2, Goes DEF Labels
  <2> QED
    BY <1>0, <1>1, <2>1, QuietKeeps DEF Holds, At
<1>3. CASE End(j)
  <2>1. Only(j) /\ proc'[j].pc = "idle"
    BY <1>0, <1>3, Ends DEF Idle
  <2> QED
    BY <1>0, <1>1, <2>1, QuietKeeps DEF Holds, At
<1>4. CASE proc' = [proc EXCEPT ![j].pc = "mint", ![j].cancelled = batch.cancelled]
  <2> DEFINE r == [proc[j] EXCEPT !.pc = "mint", !.cancelled = batch.cancelled]
  <2>1. r \in Locals /\ r.pc = "mint"
    BY <1>0 DEF Locals, Labels, Batches
  <2>2. proc' = [proc EXCEPT ![j] = r]
    BY <1>4
  <2> HIDE DEF r
  <2>3. Only(j) /\ proc'[j] = r
    BY <1>0, <2>1, <2>2 DEF Only
  <2> QED
    BY <1>0, <1>1, <2>1, <2>3, QuietKeeps DEF Holds, At
<1> QED
  BY <1>2, <1>3, <1>4 DEF JobStatus, Mint, AwaitCommit, Complete, Error, JobFails

\* The transactions themselves.
LEMMA SubmitsKeepCoffers ==
  ASSUME ConstantsAssumption, IInv, Coffers, NEW j \in Jobs,
         \/ SubmitCommit(j) \/ SubmitReveal(j) \/ SubmitGive(j) \/ SubmitGiveReveal(j)
         \/ SubmitRefund(j)
  PROVE  Coffers'
<1>0. /\ proc \in [Procs -> Locals] /\ proc[j] \in Locals /\ j \in Procs /\ Holds(j)
      /\ Received \in Nat /\ spent \in Nat /\ locked \in Nat /\ tokens \in Nat /\ offer \in Nat
      /\ delivered \in Nat /\ Kas \in Int /\ Kas >= 0
      /\ onChain \subseteq (DOMAIN batch.txs) \X {"commit", "reveal"}
  BY ReceivedIs DEF IInv, Shape, Procs, Coffers, Kas
<1>1. Working(j)
  BY DEF Working, At, SubmitCommit, SubmitReveal, SubmitGive, SubmitGiveReveal, SubmitRefund
<1>2. ASSUME inbox' = inbox PROVE Received' = Received
  BY <1>2 DEF Received
<1>3. ASSUME proc[j].pc \in {"submitCommit", "submitReveal"}
      PROVE  proc[j].cur \in DOMAIN batch.txs
  BY <1>0, <1>3, LenTxs DEF IInv, Shape, Current, Locals
<1>4. CASE SubmitCommit(j)
  <2>1. Only(j) /\ proc'[j].pc = "reveal"
    BY <1>0, <1>4, Goes DEF SubmitCommit, Labels
  <2>2. /\ UNCHANGED <<batch, inbox, over, tokens, offer, delivered>>
        /\ spent' = spent + 1 /\ locked' = locked + 1
        /\ onChain' = onChain \cup {<<proc[j].cur, "commit">>}
        /\ Kas > 0
    BY <1>0, <1>4 DEF SubmitCommit, Holds, At
  <2>3. Kas' >= 0
    BY <1>0, <1>2, <2>2 DEF Kas
  <2>4. onChain' \subseteq (DOMAIN batch.txs) \X {"commit", "reveal"}
    BY <1>0, <1>3, <1>4, <2>2 DEF SubmitCommit, At
  <2> QED
    BY <1>0, <1>1, <2>1, <2>2, <2>3, <2>4, SendKeeps DEF Holds, At
<1>5. CASE SubmitReveal(j)
  <2> DEFINE r == [proc[j] EXCEPT !.pc = "mint", !.cur = 0, !.left = @ - 1]
  <2>1. r \in Locals /\ r.pc = "mint"
    <3>1. proc[j].left - 1 \in Int
      BY <1>0 DEF Locals
    <3> DEFINE n == proc[j].left - 1
    <3> HIDE DEF n
    <3> QED
      BY <1>0, <3>1 DEF Locals, Labels, n
  <2>2. proc' = [proc EXCEPT ![j] = r]
    BY <1>5 DEF SubmitReveal
  <2> HIDE DEF r
  <2>3. Only(j) /\ proc'[j] = r
    BY <1>0, <2>1, <2>2 DEF Only
  <2>4. /\ UNCHANGED <<batch, inbox, over, spent, offer, delivered>>
        /\ locked' = locked - 1 /\ tokens' = tokens + 1 /\ locked > 0
        /\ onChain' = onChain \cup {<<proc[j].cur, "reveal">>}
    BY <1>0, <1>5 DEF SubmitReveal, Holds, At
  <2>5. Kas' >= 0
    BY <1>0, <1>2, <2>4 DEF Kas
  <2>6. onChain' \subseteq (DOMAIN batch.txs) \X {"commit", "reveal"}
    BY <1>0, <1>3, <1>5, <2>4 DEF SubmitReveal, At
  <2> QED
    BY <1>0, <1>1, <2>1, <2>3, <2>4, <2>5, <2>6, SendKeeps DEF Holds, At
<1>6. CASE SubmitGive(j)
  <2>1. Only(j) /\ proc'[j].pc = "giveReveal" /\ proc'[j].amount = proc[j].amount
    BY <1>0, <1>6, Goes DEF SubmitGive, Labels
  <2>2. /\ UNCHANGED <<batch, inbox, over, spent, onChain, locked, tokens, delivered>>
        /\ offer' = proc[j].amount /\ proc[j].amount = tokens
    BY <1>0, <1>6 DEF SubmitGive, Holds, At
  <2>3. Kas' >= 0
    BY <1>0, <1>2, <2>2 DEF Kas
  <2> QED
    BY <1>0, <1>1, <2>1, <2>2, <2>3, SendKeeps DEF Holds, At
<1>7. CASE SubmitGiveReveal(j)
  <2>1. Only(j) /\ proc'[j].pc = "refund"
    BY <1>0, <1>7, Goes DEF SubmitGiveReveal, Labels
  <2>2. /\ UNCHANGED <<batch, inbox, over, spent, onChain, locked>>
        /\ offer' = 0 /\ proc[j].amount = tokens
        /\ tokens' = tokens - proc[j].amount /\ delivered' = delivered + proc[j].amount
    BY <1>0, <1>7 DEF SubmitGiveReveal, Holds, At
  <2>3. Kas' >= 0
    BY <1>0, <1>2, <2>2 DEF Kas
  <2> QED
    BY <1>0, <1>1, <2>1, <2>2, <2>3, SendKeeps DEF Holds, At
<1>8. CASE SubmitRefund(j)
  <2>1. Only(j) /\ proc'[j].pc = "complete"
    BY <1>0, <1>8, Goes DEF SubmitRefund, Labels
  <2>2. /\ UNCHANGED <<batch, inbox, over, onChain, locked, tokens, offer, delivered>>
        /\ spent' = spent + Kas
    BY <1>8 DEF SubmitRefund
  <2>3. Kas' = 0
    BY <1>0, <1>2, <2>2 DEF Kas
  <2>4. spent' \in Nat
    BY <1>0, <2>2
  <2> QED
    BY <1>0, <1>1, <2>1, <2>2, <2>3, <2>4, SendKeeps DEF Holds, At
<1> QED
  BY <1>4, <1>5, <1>6, <1>7, <1>8

LEMMA CoffersNext ==
  ASSUME ConstantsAssumption, IInv, Coffers, [Next]_vars
  PROVE  Coffers'
<1>1. ASSUME NEW j \in Jobs, JobStatus(j) \/ JobSteps(j) PROVE Coffers'
  BY <1>1, RecordsKeep, MovesKeep, SubmitsKeepCoffers DEF JobSteps
<1>2. CASE \/ \E p \in Servers : StartBatchMint(p) \/ CancelBatchMint(p) \/ ServerSteps(p)
           \/ HandleWaitingKas \/ CronSteps
           \/ \E j \in Jobs : StartBatchMintPod(j) \/ JobRead(j) \/ JobValidate(j)
           \/ \E p \in Procs : Stop(p)
           \/ MintedOut \/ \E t \in Payments : Pay(t)
           \/ UNCHANGED vars
  <2>1. Idling
    BY <1>2, OthersIdle
  <2>2. UNCHANGED chain \/ MintedOut \/ \E t \in Payments : Pay(t)
    BY <1>2 DEF StartBatchMint, CancelBatchMint, ServerSteps, Validate, ToJob, StartPod, PodError,
                Cancel, HandleWaitingKas, CronSteps, Balance, Unpaid, StartBatchMintPod, JobRead,
                JobValidate, Stop, vars, chain
  <2> QED
    BY <2>1, <2>2, OthersKeepCoffers
<1> QED
  BY <1>1, <1>2 DEF Next, JobStarts

LEMMA CoffersInvariant == Spec => []Coffers
<1>1. ASSUME Init PROVE Coffers
  <2>1. /\ inbox = {} /\ onChain = {} /\ over = FALSE /\ spent = 0 /\ locked = 0 /\ tokens = 0
        /\ offer = 0 /\ delivered = 0 /\ \A j \in Jobs : proc[j].pc = "idle"
    BY <1>1 DEF Init, Idle, Procs
  <2>2. Received = 0
    <3> DEFINE f == [t \in Payments |-> t.units]
    <3>1. SumFunctionOnSet(f, {}) = 0
      BY SumEmpty
    <3> QED
      BY <2>1, <3>1 DEF Received
  <2>3. IsFiniteSet(inbox)
    BY <2>1, FS_EmptySet
  <2>4. Kas = 0
    BY <2>1, <2>2 DEF Kas
  <2>5. over \in BOOLEAN
    BY <2>1
  <2>6. \A j \in Jobs : Holds(j)
    BY <2>1 DEF Holds, At
  <2> QED
    BY <2>1, <2>3, <2>4, <2>5, <2>6 DEF Coffers
<1> QED
  BY <1>1, CoffersNext, ConstantsAssumption, Invariant, PTL DEF Spec

\* Every variable of the batch keeps its type, and the wallet never spends KAS or tokens it does not
\* have, and no reveal goes without an output to spend, whichever job is started, fails or is
\* started again at whichever step.  A job looks (getWalletBalanceAndUtxos, the script's outputs,
\* the indexer's balance) in one step and sends in another; it may, because it is alone.
THEOREM BatchTypes == Spec => [](TypeOK /\ Kas >= 0)
<1>1. IInv /\ Coffers => TypeOK /\ Kas >= 0
  BY DEF IInv, Shape, Coffers, TypeOK
<1> QED
  BY <1>1, Invariant, CoffersInvariant, PTL
=============================================================================
