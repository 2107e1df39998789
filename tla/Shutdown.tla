------------------------------ MODULE Shutdown ------------------------------
(***************************************************************************)
(* The runs of the lunchpads and the graceful shutdown of the instances    *)
(* they are in.  A run registers a promise with ImportantPromisesManager   *)
(* before it takes the lunchpad's isRunning, and resolves it after giving  *)
(* it back; an instance told to stop starts no further job, waits for the  *)
(* promises registered in it, and exits.  isRunning is in the database and *)
(* survives the instance.                                                  *)
(*                                                                         *)
(* A runner is one call of startLunchpadProcessingOrdersIfNeeded, made by  *)
(* a cron job that does not wait for it; step[r] is where it is, on[r] the *)
(* lunchpad.  What a run does with its orders is Lunchpad's.               *)
(***************************************************************************)
EXTENDS Naturals, FiniteSets

CONSTANTS Instances,       \* instances of the service, successive or at the same time
          Runners,         \* calls that may be under way at once
          Home,            \* the instance of each
          Pads,            \* the lunchpads
          ShutdownFaults   \* whether instances crash and database calls fail

ASSUME ShutdownAssumption ==
    /\ Home \in [Runners -> Instances]
    /\ Pads # {}
    /\ ShutdownFaults \in BOOLEAN

\* "closing": a signal came and the promises are waited for; "leaving": app.close() is under
\* way; "hung": it failed, and the handler neither exits nor leaves the timer on.
Phases == {"up", "closing", "leaving", "hung", "down"}

VARIABLES phase,      \* per instance
          job,        \* per instance, whether a round of its cron job is under way
          promises,   \* per instance, the runners whose promise is registered and not resolved
          step,       \* per runner, "leaked" when it ended and its promise is never resolved
          on,         \* per runner, its lunchpad
          running,    \* per lunchpad, isRunning
          stranded    \* history: lunchpads whose run was cut off or could not write its end

shutdownVars == <<phase, job, promises, step, on, running, stranded>>

ShutdownInit ==
    /\ phase = [i \in Instances |-> "up"]
    /\ job = [i \in Instances |-> FALSE]
    /\ promises = [i \in Instances |-> {}]
    /\ step = [r \in Runners |-> "idle"]
    /\ on = [r \in Runners |-> CHOOSE l \in Pads : TRUE]
    /\ running = [l \in Pads |-> FALSE]
    /\ stranded = {}

Lives(i) == phase[i] # "down"
\* ImportantPromisesManager.isApplicationClosing
Closing(i) == phase[i] # "up"
InStep(r, s) == step[r] = s /\ Lives(Home[r])
MoveTo(r, s) == step' = [step EXCEPT ![r] = s]

\* The runner has taken isRunning and not given it back.
InRun(r) == step[r] \in {"between", "order", "finish"}

-----------------------------------------------------------------------------
(* The cron job (runOnce) and its rounds.                                  *)

JobTick(i) ==
    /\ Lives(i) /\ ~job[i] /\ ~Closing(i)
    /\ job' = [job EXCEPT ![i] = TRUE]
    /\ UNCHANGED <<phase, promises, step, on, running, stranded>>

JobEnd(i) ==
    /\ Lives(i) /\ job[i]
    /\ job' = [job EXCEPT ![i] = FALSE]
    /\ UNCHANGED <<phase, promises, step, on, running, stranded>>

\* The round asks for a lunchpad and does not wait; isRunning is read once here.
Ask(r, l) ==
    /\ InStep(r, "idle") /\ job[Home[r]] /\ ~running[l]
    /\ MoveTo(r, "tokens")
    /\ on' = [on EXCEPT ![r] = l]
    /\ UNCHANGED <<phase, job, promises, running, stranded>>

\* verifyLunchpadTokensAmount, which may find too few tokens or fail, ...
TokensWrong(r) ==
    /\ InStep(r, "tokens")
    /\ MoveTo(r, "idle")
    /\ UNCHANGED <<phase, job, promises, on, running, stranded>>

\* Mutant of Register: the manager takes promises while the application closes.
RegisterAnyway(r) ==
    /\ InStep(r, "tokens")
    /\ MoveTo(r, "start")
    /\ promises' = [promises EXCEPT ![Home[r]] = @ \cup {r}]
    /\ UNCHANGED <<phase, job, on, running, stranded>>

\* ... then addPromise, which throws when the application is closing.
Register(r) ==
    /\ InStep(r, "tokens")
    /\ IF Closing(Home[r])
       THEN MoveTo(r, "idle") /\ UNCHANGED promises
       ELSE MoveTo(r, "start") /\ promises' = [promises EXCEPT ![Home[r]] = @ \cup {r}]
    /\ UNCHANGED <<phase, job, on, running, stranded>>

\* Mutant of Start: isRunning is set whatever it was.
StartUnconditionally(r) ==
    /\ InStep(r, "start")
    /\ MoveTo(r, "between")
    /\ running' = [running EXCEPT ![on[r]] = TRUE]
    /\ UNCHANGED <<phase, job, promises, on, stranded>>

\* startRunningLunchpad is outside the try: whoever loses leaves its promise behind.
Start(r) ==
    /\ InStep(r, "start")
    /\ IF running[on[r]]
       THEN MoveTo(r, "leaked") /\ UNCHANGED running
       ELSE MoveTo(r, "between") /\ running' = [running EXCEPT ![on[r]] = TRUE]
    /\ UNCHANGED <<phase, job, promises, on, stranded>>

\* The write fails, before or after it took effect.
StartFails(r) ==
    /\ ShutdownFaults /\ InStep(r, "start") /\ ~running[on[r]]
    /\ MoveTo(r, "leaked")
    /\ \/ UNCHANGED <<running, stranded>>
       \/ /\ running' = [running EXCEPT ![on[r]] = TRUE]
          /\ stranded' = stranded \cup {on[r]}
    /\ UNCHANGED <<phase, job, promises, on>>

\* runLunchpadAndProcessOrders asks whether the application is closing before every order, and
\* ends when there is none.
NextOrder(r) ==
    /\ InStep(r, "between")
    /\ \/ ~Closing(Home[r]) /\ MoveTo(r, "order")
       \/ MoveTo(r, "finish")
    /\ UNCHANGED <<phase, job, promises, on, running, stranded>>

OrderDone(r) ==
    /\ InStep(r, "order")
    /\ MoveTo(r, "between")
    /\ UNCHANGED <<phase, job, promises, on, running, stranded>>

\* stopRunningLunchpad, then resolve().
Finish(r) ==
    /\ InStep(r, "finish")
    /\ MoveTo(r, "idle")
    /\ running' = [running EXCEPT ![on[r]] = FALSE]
    /\ promises' = [promises EXCEPT ![Home[r]] = @ \ {r}]
    /\ UNCHANGED <<phase, job, on, stranded>>

\* The write fails, before or after it took effect, and resolve() is not reached.
FinishFails(r) ==
    /\ ShutdownFaults /\ InStep(r, "finish")
    /\ MoveTo(r, "leaked")
    /\ \/ UNCHANGED running /\ stranded' = stranded \cup {on[r]}
       \/ UNCHANGED stranded /\ running' = [running EXCEPT ![on[r]] = FALSE]
    /\ UNCHANGED <<phase, job, promises, on>>

-----------------------------------------------------------------------------
(* The signal handler of main.ts.                                          *)

Signal(i) ==
    /\ phase[i] = "up"
    /\ phase' = [phase EXCEPT ![i] = "closing"]
    /\ UNCHANGED <<job, promises, step, on, running, stranded>>

\* waitForAllPromisesToResolveIfAny
Drained(i) ==
    /\ phase[i] = "closing" /\ promises[i] = {}
    /\ phase' = [phase EXCEPT ![i] = "leaving"]
    /\ UNCHANGED <<job, promises, step, on, running, stranded>>

\* The end of a process, whatever its runners are doing.
Terminate(i) ==
    LET mine == {r \in Runners : Home[r] = i}
    IN  /\ phase' = [phase EXCEPT ![i] = "down"]
        /\ job' = [job EXCEPT ![i] = FALSE]
        /\ promises' = [promises EXCEPT ![i] = {}]
        /\ step' = [r \in Runners |-> IF r \in mine THEN "idle" ELSE step[r]]
        /\ stranded' = stranded \cup {on[r] : r \in {q \in mine : InRun(q)}}
        /\ UNCHANGED <<on, running>>

\* app.close() and process.exit(0)
Exit(i) == phase[i] = "leaving" /\ Terminate(i)

\* app.close() throws.
CloseFails(i) ==
    /\ ShutdownFaults /\ phase[i] = "leaving"
    /\ phase' = [phase EXCEPT ![i] = "hung"]
    /\ UNCHANGED <<job, promises, step, on, running, stranded>>

\* Mutant of ForceExit: the timer is stopped as soon as the waiting begins.
ForceExitLeaving(i) == phase[i] = "leaving" /\ Terminate(i)

\* The timer of one hour: process.exit(1).
ForceExit(i) == phase[i] \in {"closing", "leaving"} /\ Terminate(i)

Crash(i) == ShutdownFaults /\ Lives(i) /\ Terminate(i)

Restart(i) ==
    /\ phase[i] = "down"
    /\ phase' = [phase EXCEPT ![i] = "up"]
    /\ UNCHANGED <<job, promises, step, on, running, stranded>>

-----------------------------------------------------------------------------
RunnerSteps(r) ==
    \/ TokensWrong(r) \/ Register(r) \/ Start(r) \/ NextOrder(r) \/ OrderDone(r) \/ Finish(r)

InstanceSteps(i) ==
    \/ JobTick(i) \/ JobEnd(i) \/ Signal(i) \/ Drained(i) \/ Exit(i) \/ CloseFails(i)
    \/ ForceExit(i) \/ Crash(i) \/ Restart(i)

ShutdownNext ==
    \/ \E i \in Instances : InstanceSteps(i)
    \/ \E r \in Runners : RunnerSteps(r) \/ StartFails(r) \/ FinishFails(r)
    \/ \E r \in Runners, l \in Pads : Ask(r, l)

ShutdownSpec == ShutdownInit /\ [][ShutdownNext]_shutdownVars

\* An instance whose promises are resolved leaves, and the timer fires in the end.
ShutdownFairness ==
    \A i \in Instances : WF_shutdownVars(Drained(i) \/ Exit(i) \/ ForceExit(i))

-----------------------------------------------------------------------------
(* Properties                                                              *)

\* Every variable has its type, and a promise is registered exactly from
\* addPromise until the run resolved it, or for ever.
ShutdownTypeOK ==
    /\ phase \in [Instances -> Phases]
    /\ job \in [Instances -> BOOLEAN]
    /\ step \in [Runners -> {"idle", "tokens", "start", "between", "order", "finish", "leaked"}]
    /\ on \in [Runners -> Pads]
    /\ running \in [Pads -> BOOLEAN]
    /\ stranded \subseteq Pads
    /\ promises \in [Instances -> SUBSET Runners]

\* A graceful exit cuts no run: once the promises were waited for, no run of the instance is
\* under way, nor does one begin (main.ts:106-113).
GracefulExit ==
    \A r \in Runners : phase[Home[r]] \in {"leaving", "hung"} => ~InRun(r)

\* isRunning is held by one run, in whatever instance, or was left behind by one that was cut
\* off or failed, and then for good: a lunchpad of which no run was lost can be run again, and
\* one of which a run was lost never is (providers/lunchpad.provider.ts:594-603).
RunningHeld ==
    \A l \in Pads :
        LET runs == {r \in Runners : InRun(r) /\ on[r] = l} IN
        /\ \A r1, r2 \in runs : r1 = r2
        /\ running[l] <=> runs # {} \/ l \in stranded
        /\ l \in stranded => runs = {}

\* An instance told to stop ends, although promises may be left that nobody resolves, unless
\* app.close() fails (main.ts:98-119).
ShutdownEnds ==
    \A i \in Instances : phase[i] = "closing" ~> phase[i] \in {"down", "hung"}
=============================================================================
