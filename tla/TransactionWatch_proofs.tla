----------------------- MODULE TransactionWatch_proofs -----------------------
(***************************************************************************)
(* Proofs about the connection manager and the watchers, for any callers,  *)
(* attempts and addresses.                                                 *)
(*                                                                         *)
(* The connection's inductive invariant adds to OneAttempt and             *)
(* WaitersServed that the current promise is pending only while an attempt *)
(* is under way.  A step that settles it therefore leaves nobody waiting,  *)
(* and a caller that joins a pending one finds the attempt that will.      *)
(*                                                                         *)
(* The watchers only ever end the work of callers that have a connection,  *)
(* so what holds of the connection manager alone holds below them.         *)
(***************************************************************************)
EXTENDS TransactionWatch, SequenceTheorems, TLAPS

PendingServed == settled[latest] = "pending" => \E d \in Callers : Attempting(d)

\* A caller begins its next attempt with a timer that has not fired.
TimersFresh == \A c \in Callers : call[c].pc \in {"idle", "retry"} => ~call[c].late

RpcInv == RpcTypeOK /\ OneAttempt /\ WaitersServed /\ PendingServed /\ TimersFresh

CallRecords ==
    [pc: {"idle", "connecting", "checking", "waiting", "retry", "ready", "failed"},
     own: Attempts, late: BOOLEAN, on: Attempts, tries: 0..Tries]
LinkStates == {"new", "up", "lost", "closed"}
Results == {"resolved", "rejected"}

-----------------------------------------------------------------------------
(* The local states.                                                       *)

LEMMA NewCallType == NewCall \in CallRecords /\ 0 \in Attempts
  BY RpcAssumption DEF NewCall, CallRecords, Attempts

LEMMA RpcInvInit == RpcInit => RpcInv
<1> SUFFICES ASSUME RpcInit PROVE RpcInv
  OBVIOUS
<1>1. RpcTypeOK
  BY NewCallType DEF RpcInit, RpcTypeOK, CallRecords
<1>2. \A c \in Callers : ~CallIs(c, "waiting") /\ ~Attempting(c)
  BY DEF RpcInit, NewCall, CallIs, Attempting
<1>3. settled[latest] # "pending"
  BY NewCallType DEF RpcInit
<1>4. TimersFresh
  BY DEF RpcInit, NewCall, TimersFresh
<1> QED
  BY <1>1, <1>2, <1>3, <1>4 DEF RpcInv, OneAttempt, WaitersServed, PendingServed

\* The state of a caller whose wait ends: it neither waits nor tries.
LEMMA OutcomeType ==
  ASSUME NEW x \in CallRecords, NEW s, NEW up
  PROVE  /\ Outcome(x, s, up) \in CallRecords
         /\ Outcome(x, s, up).pc \in {"ready", "failed", "retry"} /\ ~Outcome(x, s, up).late
<1>1. Succeeded(x) \in CallRecords /\ Succeeded(x).pc = "ready" /\ ~Succeeded(x).late
  BY NewCallType DEF Succeeded, NewCall, CallRecords
<1>2. Refused(x) \in CallRecords /\ Refused(x).pc \in {"failed", "retry"} /\ ~Refused(x).late
  <2>1. CASE x.tries + 1 >= Tries
    BY <2>1, NewCallType DEF Refused, NewCall, CallRecords
  <2>2. CASE ~(x.tries + 1 >= Tries)
    <3>1. x.tries + 1 \in 0..Tries
      BY <2>2, RpcAssumption DEF CallRecords
    <3> QED
      BY <2>2, <3>1, NewCallType DEF Refused, NewCall, CallRecords
  <2> QED
    BY <2>1, <2>2
<1> QED
  BY <1>1, <1>2 DEF Outcome

-----------------------------------------------------------------------------
(* A promise is settled: everybody who waits for it goes on.               *)

LEMMA SettleType ==
  ASSUME NEW x \in [Callers -> CallRecords], NEW l \in [Attempts -> LinkStates], RpcTypeOK,
         NEW s \in Results, Settle(x, latest, s, l)
  PROVE  /\ RpcTypeOK'
         /\ latest' = latest /\ settled'[latest] = s
         /\ \A d \in Callers :
               call'[d] = x[d] \/ (call'[d].pc \in {"ready", "failed", "retry"} /\ ~call'[d].late)
         /\ \A d \in Callers : x[d].pc = "waiting" /\ x[d].on = latest =>
               call'[d].pc \in {"ready", "failed", "retry"}
<1>1. call' = [c \in Callers |-> IF c \in Woken(x, latest)
                                 THEN Outcome(x[c], s, l[latest] = "up") ELSE x[c]]
      /\ settled' = [settled EXCEPT ![latest] = s] /\ link' = l /\ latest' = latest
      /\ trying' \in {trying, FALSE}
  BY DEF Settle
<1>2. \A d \in Callers : call'[d] = IF d \in Woken(x, latest)
                                    THEN Outcome(x[d], s, l[latest] = "up") ELSE x[d]
  BY <1>1
<1>3. \A d \in Callers : /\ Outcome(x[d], s, l[latest] = "up") \in CallRecords
                         /\ Outcome(x[d], s, l[latest] = "up").pc \in {"ready", "failed", "retry"}
                         /\ ~Outcome(x[d], s, l[latest] = "up").late
  BY OutcomeType
<1>4. call' \in [Callers -> CallRecords]
  BY <1>1, <1>3
<1>5. RpcTypeOK'
  BY <1>1, <1>4 DEF RpcTypeOK, CallRecords, LinkStates, Results
<1> QED
  BY <1>1, <1>2, <1>3, <1>5 DEF RpcTypeOK, Woken, Results

LEMMA SettleInv ==
  ASSUME NEW x \in [Callers -> CallRecords], NEW l \in [Attempts -> LinkStates], RpcTypeOK,
         NEW s \in Results, Settle(x, latest, s, l),
         \A d \in Callers : x[d].pc # "checking" /\ ~(x[d].pc = "connecting" /\ ~x[d].late),
         \A d \in Callers : x[d].pc = "waiting" => x[d].on = latest,
         \A d \in Callers : x[d].pc \in {"idle", "retry"} => ~x[d].late
  PROVE  RpcInv'
<1>1. \A d \in Callers : ~CallIs(d, "waiting")' /\ ~Attempting(d)'
  <2> SUFFICES ASSUME NEW d \in Callers PROVE ~CallIs(d, "waiting")' /\ ~Attempting(d)'
    OBVIOUS
  <2>1. CASE call'[d].pc \in {"ready", "failed", "retry"}
    BY <2>1 DEF CallIs, Attempting
  <2>2. CASE call'[d] = x[d] /\ ~(x[d].pc = "waiting")
    BY <2>2 DEF CallIs, Attempting
  <2> QED
    BY <2>1, <2>2, SettleType
<1>2. settled'[latest'] # "pending" /\ RpcTypeOK'
  BY SettleType DEF Results
<1>3. TimersFresh'
  BY SettleType DEF TimersFresh
<1> QED
  BY <1>1, <1>2, <1>3 DEF RpcInv, OneAttempt, WaitersServed, PendingServed

-----------------------------------------------------------------------------
(* The caller awaits the current promise; it makes no attempt that counts. *)

LEMMA AwaitInv ==
  ASSUME RpcInv, NEW c \in Callers, ~Attempting(c), NEW l \in [Attempts -> LinkStates], Await(call, c, l)
  PROVE  RpcInv'
<1> DEFINE x == [call EXCEPT ![c].pc = "waiting", ![c].on = latest]
<1>0. RpcTypeOK /\ call \in [Callers -> CallRecords] /\ latest \in Attempts
  BY DEF RpcInv, RpcTypeOK, CallRecords
<1>1. x \in [Callers -> CallRecords] /\ x[c].pc = "waiting" /\ x[c].on = latest
      /\ \A d \in Callers \ {c} : x[d] = call[d]
  BY <1>0 DEF CallRecords
<1>2. CASE settled[latest] = "pending"
  <2>1. call' = x /\ link' = l /\ UNCHANGED <<latest, trying, settled>>
    BY <1>2 DEF Await
  <2>2. RpcTypeOK'
    BY <1>0, <1>1, <2>1 DEF RpcTypeOK, CallRecords, LinkStates
  <2> HIDE DEF x
  <2>3. \A d \in Callers : (Attempting(d)' <=> Attempting(d)) /\ (Attempting(d) => call'[d] = call[d])
    BY <1>1, <2>1 DEF Attempting, CallIs
  <2>4. \A d \in Callers : CallIs(d, "waiting")' => call'[d].on = latest
    BY <1>1, <2>1 DEF RpcInv, WaitersServed, CallIs
  <2>5. \E d \in Callers : Attempting(d)'
    BY <1>2, <2>3 DEF RpcInv, PendingServed
  <2>6. OneAttempt'
    BY <2>1, <2>3 DEF RpcInv, OneAttempt
  <2>7. TimersFresh'
    BY <1>1, <2>1 DEF RpcInv, TimersFresh
  <2> QED
    BY <2>1, <2>2, <2>4, <2>5, <2>6, <2>7 DEF RpcInv, WaitersServed, PendingServed
<1>3. CASE settled[latest] # "pending"
  <2>1. Settle(x, latest, settled[latest], l)
    BY <1>3 DEF Await
  <2>2. settled[latest] \in Results
    BY <1>0, <1>3 DEF RpcTypeOK, Results
  <2>3. \A d \in Callers : ~Attempting(d) /\ ~CallIs(d, "waiting")
    BY <1>3 DEF RpcInv, OneAttempt, WaitersServed
  <2> HIDE DEF x
  <2>4. \A d \in Callers : x[d].pc # "checking" /\ ~(x[d].pc = "connecting" /\ ~x[d].late)
    BY <1>1, <2>3 DEF Attempting, CallIs
  <2>5. \A d \in Callers : x[d].pc = "waiting" => x[d].on = latest
    BY <1>1, <2>3 DEF CallIs
  <2>6. \A d \in Callers : x[d].pc \in {"idle", "retry"} => ~x[d].late
    BY <1>1 DEF RpcInv, TimersFresh
  <2> QED
    BY <1>0, <1>1, <2>1, <2>2, <2>4, <2>5, <2>6, SettleInv
<1> QED
  BY <1>2, <1>3

\* The promise of an attempt is settled by its caller or by its timer.
LEMMA EndInv ==
  ASSUME RpcInv, NEW c \in Callers, Attempting(c), NEW y \in CallRecords,
         y.pc \in {"waiting", "connecting"}, y.pc = "connecting" => y.late,
         y.pc = "waiting" => y.on = latest,
         NEW l \in [Attempts -> LinkStates], NEW s \in Results,
         Settle([call EXCEPT ![c] = y], latest, s, l)
  PROVE  RpcInv'
<1> DEFINE x == [call EXCEPT ![c] = y]
<1>1. RpcTypeOK /\ x \in [Callers -> CallRecords] /\ x[c] = y /\ \A d \in Callers \ {c} : x[d] = call[d]
  BY DEF RpcInv, RpcTypeOK, CallRecords
<1>2. \A d \in Callers \ {c} : ~Attempting(d)
  BY DEF RpcInv, OneAttempt
<1>3. Settle(x, latest, s, l)
  OBVIOUS
<1> HIDE DEF x
<1>4. \A d \in Callers : x[d].pc # "checking" /\ ~(x[d].pc = "connecting" /\ ~x[d].late)
  BY <1>1, <1>2 DEF Attempting, CallIs
<1>5. \A d \in Callers : x[d].pc = "waiting" => x[d].on = latest
  BY <1>1 DEF RpcInv, WaitersServed, CallIs
<1>6. \A d \in Callers : x[d].pc \in {"idle", "retry"} => ~x[d].late
  BY <1>1 DEF RpcInv, TimersFresh
<1> QED
  BY <1>1, <1>3, <1>4, <1>5, <1>6, SettleInv

-----------------------------------------------------------------------------
(* The steps of the connection manager.                                    *)

LEMMA AttemptInv ==
  ASSUME RpcInv, NEW c \in Callers, Attempt(c)
  PROVE  RpcInv'
<1>1. RpcTypeOK /\ call \in [Callers -> CallRecords] /\ latest + 1 \in Attempts
  BY RpcAssumption DEF RpcInv, RpcTypeOK, CallRecords, Attempt, Attempts
<1>2. \A d \in Callers : ~Attempting(d) /\ ~CallIs(d, "waiting")
  BY DEF Attempt, RpcInv, OneAttempt, WaitersServed
<1>3. /\ latest' = latest + 1 /\ trying' = TRUE /\ link' = link
      /\ settled' = [settled EXCEPT ![latest + 1] = "pending"]
      /\ call' = [call EXCEPT ![c].pc = "connecting", ![c].own = latest + 1]
  BY DEF Attempt
<1>4. RpcTypeOK'
  BY ZenonT(60), <1>1, <1>3 DEF RpcTypeOK, CallRecords
<1>5. /\ settled'[latest'] = "pending"
      /\ call'[c].pc = "connecting" /\ call'[c].own = latest'
      /\ \A d \in Callers \ {c} : call'[d] = call[d]
  BY <1>1, <1>3 DEF RpcTypeOK, CallRecords
<1>6. \A d \in Callers : ~CallIs(d, "waiting")' /\ (Attempting(d)' => d = c)
  BY <1>2, <1>5 DEF CallIs, Attempting
<1>7. OneAttempt' /\ WaitersServed'
  BY <1>3, <1>5, <1>6 DEF OneAttempt, WaitersServed
<1>8. ~call'[c].late /\ TimersFresh'
  BY <1>1, <1>3, <1>5 DEF Attempt, RpcInv, TimersFresh, CallRecords
<1>9. Attempting(c)'
  BY <1>5, <1>8 DEF CallIs, Attempting
<1> QED
  BY <1>4, <1>7, <1>8, <1>9 DEF RpcInv, PendingServed

\* A step that leaves the attempts, the waits and the promises as they are.
LEMMA CallSame ==
  ASSUME RpcInv, RpcTypeOK', UNCHANGED <<latest, trying, settled>>,
         \A d \in Callers : /\ Attempting(d)' <=> Attempting(d)
                            /\ Attempting(d) => call'[d].own = call[d].own
                            /\ CallIs(d, "waiting")' => call'[d] = call[d]
                            /\ call'[d].pc \in {"idle", "retry"} => ~call'[d].late
  PROVE  RpcInv'
<1>1. OneAttempt'
  BY DEF RpcInv, OneAttempt
<1>2. WaitersServed'
  BY DEF RpcInv, WaitersServed, CallIs
<1>3. PendingServed' /\ TimersFresh'
  BY DEF RpcInv, PendingServed, TimersFresh
<1> QED
  BY <1>1, <1>2, <1>3 DEF RpcInv

LEMMA ConnectReturnsInv ==
  ASSUME RpcInv, NEW c \in Callers, ConnectReturns(c)
  PROVE  RpcInv'
<1>1. RpcTypeOK /\ call \in [Callers -> CallRecords] /\ link \in [Attempts -> LinkStates]
      /\ call[c].own \in Attempts
  BY DEF RpcInv, RpcTypeOK, CallRecords, LinkStates
<1>2. CASE call[c].late
  <2>1. ~Attempting(c)
    BY <1>2 DEF ConnectReturns, Attempting, CallIs
  <2>2. [link EXCEPT ![call[c].own] = "closed"] \in [Attempts -> LinkStates]
    BY <1>1 DEF LinkStates
  <2>3. Await(call, c, [link EXCEPT ![call[c].own] = "closed"])
    BY <1>2 DEF ConnectReturns
  <2> QED
    BY <2>1, <2>2, <2>3, AwaitInv
<1>3. CASE ~call[c].late
  <2>1. /\ call[c].pc = "connecting" /\ call' = [call EXCEPT ![c].pc = "checking"]
        /\ link' = [link EXCEPT ![call[c].own] = "up"] /\ UNCHANGED <<latest, trying, settled>>
    BY <1>3 DEF ConnectReturns, CallIs
  <2>2. RpcTypeOK'
    BY <1>1, <2>1 DEF RpcTypeOK, CallRecords, LinkStates
  <2>3. /\ call'[c].pc = "checking" /\ call'[c].own = call[c].own
        /\ \A d \in Callers \ {c} : call'[d] = call[d]
    BY <1>1, <2>1 DEF CallRecords
  <2> QED
    BY <1>3, <2>1, <2>2, <2>3, CallSame DEF Attempting, CallIs, RpcInv, TimersFresh
<1> QED
  BY <1>2, <1>3

\* The steps by which an attempt ends: the timer, ...
LEMMA ConnectTimeoutInv ==
  ASSUME RpcInv, NEW c \in Callers, ConnectTimeout(c)
  PROVE  RpcInv'
<1>1. call \in [Callers -> CallRecords] /\ link \in [Attempts -> LinkStates]
  BY DEF RpcInv, RpcTypeOK, CallRecords, LinkStates
<1>2. PICK t : t = [call[c] EXCEPT !.late = TRUE]
  OBVIOUS
<1>3. t \in CallRecords /\ t.late /\ t.pc = call[c].pc
  BY <1>1, <1>2 DEF CallRecords
<1>4. [call EXCEPT ![c] = t] = [call EXCEPT ![c].late = TRUE]
  BY <1>1, <1>2
<1>5. Attempting(c) /\ t.pc = "connecting"
  BY <1>3 DEF ConnectTimeout, Attempting, CallIs
<1>6. Settle([call EXCEPT ![c] = t], latest, "rejected", link)
  BY <1>4 DEF ConnectTimeout
<1> QED
  BY <1>1, <1>3, <1>5, <1>6, EndInv DEF Results

\* ... and the caller, with a result.
LEMMA ConcludeInv ==
  ASSUME RpcInv, NEW c \in Callers, Attempting(c), NEW l \in [Attempts -> LinkStates],
         NEW s \in Results, Conclude(c, s, l)
  PROVE  RpcInv'
<1>1. call \in [Callers -> CallRecords] /\ latest \in Attempts
  BY DEF RpcInv, RpcTypeOK, CallRecords
<1>2. PICK w : w = [call[c] EXCEPT !.pc = "waiting", !.on = latest]
  OBVIOUS
<1>3. w \in CallRecords /\ w.pc = "waiting" /\ w.on = latest
  BY <1>1, <1>2 DEF CallRecords
<1>4. [call EXCEPT ![c] = w] = [call EXCEPT ![c].pc = "waiting", ![c].on = latest]
  BY <1>1, <1>2 DEF CallRecords
<1>5. Settle([call EXCEPT ![c] = w], latest, s, l)
  BY <1>4 DEF Conclude
<1>6. w.pc \in {"waiting", "connecting"} /\ (w.pc = "connecting" => w.late) /\ (w.pc = "waiting" => w.on = latest)
  BY <1>3
<1>7. w \in CallRecords
  BY <1>3
<1> QED
  BY <1>5, <1>6, <1>7, EndInv

LEMMA AttemptEndsInv ==
  ASSUME RpcInv, NEW c \in Callers, ConnectThrows(c) \/ ServerValid(c) \/ ServerInvalid(c)
  PROVE  RpcInv'
<1>1. link \in [Attempts -> LinkStates] /\ call[c].own \in Attempts
  BY DEF RpcInv, RpcTypeOK, LinkStates
<1>2. PICK l : l = [link EXCEPT ![call[c].own] = "closed"]
  OBVIOUS
<1>3. l \in [Attempts -> LinkStates]
  BY <1>1, <1>2 DEF LinkStates
<1>4. PICK k : k = link
  OBVIOUS
<1>5. CASE ConnectThrows(c) /\ call[c].late
  <2>1. ~Attempting(c) /\ Await(call, c, k)
    BY <1>4, <1>5 DEF ConnectThrows, Attempting, CallIs
  <2> QED
    BY <1>1, <1>4, <2>1, AwaitInv
<1>6. CASE ConnectThrows(c) /\ ~call[c].late
  <2>1. Attempting(c) /\ Conclude(c, "rejected", k)
    BY <1>4, <1>6 DEF ConnectThrows, Attempting
  <2> QED
    BY <1>1, <1>4, <2>1, ConcludeInv DEF Results
<1>7. CASE ServerValid(c)
  <2>1. Attempting(c) /\ Conclude(c, "resolved", k)
    BY <1>4, <1>7 DEF ServerValid, Attempting
  <2> QED
    BY <1>1, <1>4, <2>1, ConcludeInv DEF Results
<1>8. CASE ServerInvalid(c)
  <2>1. Attempting(c) /\ Conclude(c, "rejected", l)
    BY <1>2, <1>8 DEF ServerInvalid, Attempting
  <2> QED
    BY <1>3, <2>1, ConcludeInv DEF Results
<1> QED
  BY <1>5, <1>6, <1>7, <1>8

LEMMA UseInv ==
  ASSUME RpcInv, NEW c \in Callers, Use(c)
  PROVE  RpcInv'
<1>1. call \in [Callers -> CallRecords]
  BY DEF RpcInv, RpcTypeOK, CallRecords
<1>2. /\ call'[c] = NewCall /\ \A d \in Callers \ {c} : call'[d] = call[d]
      /\ UNCHANGED <<latest, trying, settled, link>> /\ call[c].pc \in {"ready", "failed"}
  BY <1>1 DEF Use
<1>3. RpcTypeOK'
  BY <1>1, <1>2, NewCallType DEF Use, RpcInv, RpcTypeOK, CallRecords
<1> QED
  BY <1>2, <1>3, CallSame DEF NewCall, Attempting, CallIs, RpcInv, TimersFresh

LEMMA RpcStep ==
  ASSUME RpcInv, [RpcNext]_rpcVars
  PROVE  RpcInv'
<1>1. ASSUME NEW c \in Callers, CallSteps(c) PROVE RpcInv'
  <2>1. CASE Join(c)
    <3>1. ~Attempting(c) /\ Await(call, c, link) /\ link \in [Attempts -> LinkStates]
      BY <2>1 DEF Join, Attempting, CallIs, RpcInv, RpcTypeOK, LinkStates
    <3> QED
      BY <3>1, AwaitInv
  <2> QED
    BY <1>1, <2>1, AttemptInv, ConnectReturnsInv, ConnectTimeoutInv, AttemptEndsInv DEF CallSteps
<1>2. ASSUME NEW c \in Callers, Use(c) PROVE RpcInv'
  BY <1>2, UseInv
<1>3. ASSUME NEW n \in Attempts, Lose(n) \/ Reconnect(n) PROVE RpcInv'
  <2>1. UNCHANGED <<latest, trying, settled, call>> /\ RpcTypeOK'
    BY <1>3 DEF Lose, Reconnect, RpcInv, RpcTypeOK
  <2> QED
    BY <2>1, CallSame DEF Attempting, CallIs, RpcInv, TimersFresh
<1>4. CASE UNCHANGED rpcVars
  <2>1. UNCHANGED <<latest, trying, settled, call>> /\ RpcTypeOK'
    BY <1>4 DEF rpcVars, RpcInv, RpcTypeOK
  <2> QED
    BY <2>1, CallSame DEF Attempting, CallIs, RpcInv, TimersFresh
<1> QED
  BY <1>1, <1>2, <1>3, <1>4 DEF RpcNext, LinkSteps

LEMMA RpcInvariant == RpcSpec => []RpcInv
  BY RpcInvInit, RpcStep, PTL DEF RpcSpec

-----------------------------------------------------------------------------
(* The watchers: only a caller with a connection has one, and a request to *)
(* subscribe in flight is the one its watcher waits for.                   *)

Ops == {"subscribe", "unsubscribe"}
Messages == [op: Ops, address: Addresses, by: Callers]
WatchRecords ==
    [pc: {"off", "subscribing", "listening", "waiting", "api"},
     client: Attempts \cup {NoClient}, sent: BOOLEAN, told: BOOLEAN]

ReadyWatch == \A c \in Callers : watch[c].pc # "off" => call[c].pc = "ready"
AwaitedRequests ==
    \A n \in Attempts : \A i \in DOMAIN wire[n] : wire[n][i].op = "subscribe" =>
        /\ watch[wire[n][i].by].pc = "subscribing"
        /\ watch[wire[n][i].by].client = n
        /\ \A j \in DOMAIN wire[n] :
               wire[n][j].op = "subscribe" /\ wire[n][j].by = wire[n][i].by => j = i

WatchTypeOK ==
    /\ watch \in [Callers -> WatchRecords]
    /\ watchers \in [Addresses -> SUBSET Callers]
    /\ poisoned \subseteq Addresses
    /\ wire \in [Attempts -> Seq(Messages)]
    /\ subs \in [Attempts -> SUBSET Addresses]
    /\ base \in [Addresses -> Attempts \cup {NoClient}]

WatchInv == WatchTypeOK /\ ReadyWatch /\ AwaitedRequests

LEMMA NetworkTypes == NetworkTypeOK <=> RpcTypeOK /\ WatchTypeOK
  BY DEF NetworkTypeOK, WatchTypeOK, WatchRecords, Messages, Ops

LEMMA MessageSequences ==
  ASSUME NEW s \in Seq(Messages)
  PROVE  /\ \A m \in Messages : /\ Append(s, m) \in Seq(Messages)
                                /\ DOMAIN Append(s, m) = DOMAIN s \cup {Len(s) + 1}
                                /\ Append(s, m)[Len(s) + 1] = m
                                /\ \A i \in DOMAIN s : Append(s, m)[i] = s[i]
         /\ Len(s) + 1 \notin DOMAIN s
         /\ s # <<>> => /\ Head(s) \in Messages /\ Tail(s) \in Seq(Messages)
                        /\ 1 \in DOMAIN s /\ Head(s) = s[1]
                        /\ \A i \in DOMAIN Tail(s) : /\ i + 1 \in DOMAIN s /\ Tail(s)[i] = s[i + 1]
                                                     /\ i + 1 # 1
                        /\ \A i, j \in DOMAIN Tail(s) : i + 1 = j + 1 => i = j
<1>1. DOMAIN s = 1..Len(s) /\ Len(s) \in Nat
  BY LenProperties
<1>2. ASSUME NEW m \in Messages
      PROVE  /\ Append(s, m) \in Seq(Messages)
             /\ DOMAIN Append(s, m) = DOMAIN s \cup {Len(s) + 1}
             /\ Append(s, m)[Len(s) + 1] = m
             /\ \A i \in DOMAIN s : Append(s, m)[i] = s[i]
  <2>1. /\ Append(s, m) \in Seq(Messages) /\ Len(Append(s, m)) = Len(s) + 1
        /\ Append(s, m)[Len(s) + 1] = m /\ \A i \in 1..Len(s) : Append(s, m)[i] = s[i]
    BY AppendProperties
  <2>2. DOMAIN Append(s, m) = 1..(Len(s) + 1)
    BY <2>1, LenProperties
  <2> QED
    BY <1>1, <2>1, <2>2
<1>3. ASSUME s # <<>>
      PROVE  /\ Head(s) \in Messages /\ Tail(s) \in Seq(Messages)
             /\ 1 \in DOMAIN s /\ Head(s) = s[1]
             /\ \A i \in DOMAIN Tail(s) : i + 1 \in DOMAIN s /\ Tail(s)[i] = s[i + 1] /\ i + 1 # 1
             /\ \A i, j \in DOMAIN Tail(s) : i + 1 = j + 1 => i = j
  <2>1. /\ Head(s) \in Messages /\ Tail(s) \in Seq(Messages) /\ Len(Tail(s)) = Len(s) - 1
        /\ \A i \in 1..Len(Tail(s)) : Tail(s)[i] = s[i + 1]
    BY <1>3, HeadTailProperties
  <2>2. Len(s) # 0 /\ Head(s) = s[1]
    BY <1>3, EmptySeq
  <2>3. DOMAIN Tail(s) = 1..(Len(s) - 1)
    BY <2>1, LenProperties
  <2> HIDE DEF Messages
  <2> QED
    BY <1>1, <2>1, <2>2, <2>3
<1> QED
  BY <1>1, <1>2, <1>3

-----------------------------------------------------------------------------
(* Why a subscription lives as long as its watchers: the map entry of an   *)
(* address that is subscribed was made on the client that is still         *)
(* current, so every watcher of it uses that client, and so does the last  *)
(* to leave; an entry that a failure left behind is not subscribed.        *)

FirstAwaited ==
    \A c \in Callers :
        LET n == base[AddressOf[c]] IN
        watch[c].pc = "subscribing" /\ n # NoClient =>
            \E i \in DOMAIN wire[n] : wire[n][i].op = "subscribe" /\ wire[n][i].by = c

Registrations ==
    \A c \in Callers :
        /\ watch[c].pc = "subscribing" => c \in watchers[AddressOf[c]]
        /\ watch[c].pc \in {"off", "subscribing"} => ~watch[c].told
        /\ watch[c].pc \in {"off", "api"} => c \notin watchers[AddressOf[c]]
        /\ \A a \in Addresses : c \in watchers[a] => AddressOf[c] = a

BaseCurrent ==
    \A a \in Addresses : base[a] # NoClient =>
        /\ base[a] = latest /\ link[latest] = "up"
        /\ watchers[a] # {} /\ a \notin poisoned
        /\ \A c \in watchers[a] : watch[c].client = latest

SubscribedExactly == \A n \in Attempts, a \in Addresses : Subscribed(n, a) <=> base[a] = n

SubscriptionInv == WatchInv /\ FirstAwaited /\ Registrations /\ BaseCurrent /\ SubscribedExactly
NetworkInv == RpcInv /\ SubscriptionInv


\* Subscribed, said of the requests s and the subscriptions S of a client.
SubscribedBy(s, S, a) ==
    LET about == {i \in DOMAIN s : s[i].address = a} IN
    \/ \E i \in about : s[i].op = "subscribe" /\ \A j \in about : j <= i
    \/ about = {} /\ a \in S

LEMMA SubscribedIs == \A n, a : Subscribed(n, a) <=> SubscribedBy(wire[n], subs[n], a)
  BY DEF Subscribed, SubscribedBy

\* A further request decides for its address, and for no other.
LEMMA SubscribedAppend ==
  ASSUME NEW s \in Seq(Messages), NEW m \in Messages, NEW S, NEW a
  PROVE  SubscribedBy(Append(s, m), S, a) <=>
             IF m.address = a THEN m.op = "subscribe" ELSE SubscribedBy(s, S, a)
<1> DEFINE t == Append(s, m)
           k == Len(s) + 1
<1>1. /\ DOMAIN t = DOMAIN s \cup {k} /\ k \notin DOMAIN s
      /\ t[k] = m /\ \A i \in DOMAIN s : t[i] = s[i]
  BY MessageSequences
<1>2. k \in Nat /\ \A i \in DOMAIN s : i \in Nat /\ i <= k /\ ~(k <= i)
  BY LenProperties
<1> HIDE DEF t, k
<1>3. CASE m.address = a
  BY <1>1, <1>2, <1>3 DEF SubscribedBy, t
<1>4. CASE m.address # a
  <2>1. {i \in DOMAIN t : t[i].address = a} = {i \in DOMAIN s : s[i].address = a}
    BY <1>1, <1>4
  <2> QED
    BY <1>1, <1>4, <2>1 DEF SubscribedBy, t
<1> QED
  BY <1>3, <1>4

\* An answer changes nothing of what will be subscribed in the end.
LEMMA SubscribedTail ==
  ASSUME NEW s \in Seq(Messages), s # <<>>, NEW S, NEW a
  PROVE  SubscribedBy(Tail(s), IF Head(s).op = "subscribe" THEN S \cup {Head(s).address}
                               ELSE S \ {Head(s).address}, a)
         <=> SubscribedBy(s, S, a)
<1> DEFINE t == Tail(s)
           T == IF s[1].op = "subscribe" THEN S \cup {s[1].address} ELSE S \ {s[1].address}
<1>1. /\ Len(s) \in Nat \ {0} /\ DOMAIN s = 1..Len(s) /\ DOMAIN t = 1..(Len(s) - 1)
      /\ Head(s) = s[1] /\ \A i \in DOMAIN t : t[i] = s[i + 1]
  <2>1. t \in Seq(Messages) /\ Len(t) = Len(s) - 1 /\ \A i \in 1..Len(t) : t[i] = s[i + 1]
    BY HeadTailProperties
  <2>2. Len(s) \in Nat \ {0} /\ DOMAIN s = 1..Len(s) /\ DOMAIN t = 1..Len(t)
    BY <2>1, EmptySeq, LenProperties
  <2>3. Head(s) = s[1]
    BY <2>2
  <2> QED
    BY <2>1, <2>2, <2>3
<1> HIDE DEF t
<1>2. ASSUME SubscribedBy(s, S, a) PROVE SubscribedBy(t, T, a)
  <2>1. CASE \A i \in DOMAIN s : s[i].address # a
    BY <1>1, <1>2, <2>1 DEF SubscribedBy
  <2>2. ASSUME NEW i \in DOMAIN s, s[i].address = a, s[i].op = "subscribe",
               \A j \in DOMAIN s : s[j].address = a => j <= i
        PROVE  SubscribedBy(t, T, a)
    <3>1. CASE i = 1
      <4>1. \A j \in DOMAIN t : t[j].address # a
        BY <1>1, <2>2, <3>1
      <4> QED
        BY <2>2, <3>1, <4>1 DEF SubscribedBy
    <3>2. CASE i # 1
      <4>1. i - 1 \in DOMAIN t /\ t[i - 1] = s[i]
        BY <1>1, <3>2
      <4>2. \A j \in DOMAIN t : t[j].address = a => j <= i - 1
        BY <1>1, <2>2
      <4> QED
        BY <2>2, <4>1, <4>2 DEF SubscribedBy
    <3> QED
      BY <3>1, <3>2
  <2> QED
    BY <1>2, <2>1, <2>2 DEF SubscribedBy
<1>3. ASSUME SubscribedBy(t, T, a) PROVE SubscribedBy(s, S, a)
  <2>1. ASSUME NEW i \in DOMAIN t, t[i].address = a, t[i].op = "subscribe",
               \A j \in DOMAIN t : t[j].address = a => j <= i
        PROVE  SubscribedBy(s, S, a)
    <3>1. i + 1 \in DOMAIN s /\ s[i + 1] = t[i]
      BY <1>1
    <3>2. ASSUME NEW j \in DOMAIN s, s[j].address = a PROVE j <= i + 1
      <4>1. CASE j = 1
        BY <1>1, <4>1
      <4>2. CASE j # 1
        <5>1. j - 1 \in DOMAIN t /\ t[j - 1] = s[j]
          BY <1>1, <4>2
        <5> QED
          BY <1>1, <2>1, <3>2, <5>1
      <4> QED
        BY <4>1, <4>2
    <3> QED
      BY <2>1, <3>1, <3>2 DEF SubscribedBy
  <2>2. CASE a \in T /\ \A i \in DOMAIN t : t[i].address # a
    <3>1. \A j \in DOMAIN s : j # 1 => s[j].address # a
      <4> SUFFICES ASSUME NEW j \in DOMAIN s, j # 1 PROVE s[j].address # a
        OBVIOUS
      <4>1. j - 1 \in DOMAIN t /\ t[j - 1] = s[j]
        BY <1>1
      <4> QED
        BY <2>2, <4>1
    <3>2. CASE s[1].address = a
      <4>1. s[1].op = "subscribe" /\ 1 \in DOMAIN s
        BY <1>1, <2>2, <3>2
      <4>2. \A j \in DOMAIN s : s[j].address = a => j <= 1
        BY <1>1, <3>1
      <4> QED
        BY <3>2, <4>1, <4>2 DEF SubscribedBy
    <3>3. CASE s[1].address # a
      BY <1>1, <2>2, <3>1, <3>3 DEF SubscribedBy
    <3> QED
      BY <3>2, <3>3
  <2> QED
    BY <1>3, <2>1, <2>2 DEF SubscribedBy
<1> QED
  BY <1>1, <1>2, <1>3 DEF t

LEMMA SubscribedNot == \A a : ~SubscribedBy(<<>>, {}, a)
  BY DEF SubscribedBy

-----------------------------------------------------------------------------
LEMMA NetworkInvInit == NetworkInit => NetworkInv
<1> SUFFICES ASSUME NetworkInit PROVE NetworkInv
  OBVIOUS
<1>1. RpcInv
  BY RpcInvInit DEF NetworkInit
<1>2. WatchTypeOK
  BY DEF NetworkInit, WatchTypeOK, WatchRecords, NoWatch
<1>3. ReadyWatch /\ AwaitedRequests
  BY DEF NetworkInit, ReadyWatch, AwaitedRequests, NoWatch
<1>4. FirstAwaited /\ Registrations /\ BaseCurrent
  BY WatchAssumption DEF NetworkInit, FirstAwaited, Registrations, BaseCurrent, NoWatch
<1>5. SubscribedExactly
  BY WatchAssumption, SubscribedIs, SubscribedNot DEF NetworkInit, SubscribedExactly
<1> QED
  BY <1>1, <1>2, <1>3, <1>4, <1>5 DEF NetworkInv, SubscriptionInv, WatchInv

-----------------------------------------------------------------------------
(* The connection's steps, seen from above.                                *)

LEMMA CallKeeps ==
  ASSUME RpcInv, NEW c \in Callers, CallSteps(c), NEW d \in Callers, call[d].pc = "ready"
  PROVE  call'[d] = call[d]
<1>1. call \in [Callers -> CallRecords]
  BY DEF RpcInv, RpcTypeOK, CallRecords
<1>2. d # c
  BY DEF CallSteps, Attempt, Join, ConnectTimeout, ConnectReturns, ConnectThrows, ServerValid, ServerInvalid,
     CallIs
<1>3. ASSUME NEW x \in [Callers -> CallRecords], x[d] = call[d], NEW n, NEW s, NEW l, Settle(x, n, s, l)
      PROVE  call'[d] = call[d]
  BY <1>3 DEF Settle, Woken
<1>4. PICK w : w = [call EXCEPT ![c].pc = "waiting", ![c].on = latest]
  OBVIOUS
<1>5. w \in [Callers -> CallRecords] /\ w[d] = call[d]
  BY ZenonT(60), <1>1, <1>2, <1>4 DEF CallRecords, RpcInv, RpcTypeOK
<1>6. ASSUME NEW l, Await(call, c, l) PROVE call'[d] = call[d]
  <2>1. CASE call' = w
    BY <1>5, <2>1
  <2>2. ASSUME NEW s, Settle(w, latest, s, l) PROVE call'[d] = call[d]
    BY <1>5, <2>2 DEF Settle, Woken
  <2> QED
    BY <1>4, <1>6, <2>1, <2>2 DEF Await
<1>7. ASSUME NEW s, NEW l, Conclude(c, s, l) PROVE call'[d] = call[d]
  BY <1>4, <1>5, <1>7 DEF Conclude, Settle, Woken
<1>8. CASE Attempt(c)
  BY <1>1, <1>2, <1>8 DEF Attempt
<1>9. CASE ConnectTimeout(c)
  <2>1. PICK t : t = [call EXCEPT ![c].late = TRUE]
    OBVIOUS
  <2>2. t \in [Callers -> CallRecords] /\ t[d] = call[d]
    BY <1>1, <1>2, <2>1 DEF CallRecords
  <2> QED
    BY <1>9, <2>1, <2>2 DEF ConnectTimeout, Settle, Woken
<1>10. CASE ConnectReturns(c)
  <2>1. CASE call[c].late
    BY <1>6, <1>10, <2>1 DEF ConnectReturns
  <2>2. CASE ~call[c].late
    BY <1>1, <1>2, <1>10, <2>2 DEF ConnectReturns
  <2> QED
    BY <2>1, <2>2
<1>11. CASE Join(c) \/ ConnectThrows(c) \/ ServerValid(c) \/ ServerInvalid(c)
  BY <1>6, <1>7, <1>11 DEF Join, ConnectThrows, ServerValid, ServerInvalid
<1> QED
  BY <1>8, <1>9, <1>10, <1>11 DEF CallSteps

LEMMA LatestKeeps ==
  ASSUME NEW c \in Callers, CallSteps(c)
  PROVE  latest' = latest \/ ~Connected
  BY DEF CallSteps, Attempt, Join, ConnectTimeout, ConnectReturns, ConnectThrows, ServerValid, ServerInvalid,
     Await, Conclude, Settle

\* A client that is not connected has no requests, no subscriptions and no entries.
LEMMA CutInv ==
  ASSUME RpcInv', SubscriptionInv, Cut, ReadyWatch', latest' = latest \/ ~Connected
  PROVE  SubscriptionInv'
<1>1. WatchTypeOK /\ RpcTypeOK'
  BY DEF SubscriptionInv, WatchInv, RpcInv
<1>2. /\ \A n \in Attempts : /\ wire'[n] = IF link'[n] = "up" THEN wire[n] ELSE <<>>
                             /\ subs'[n] = IF link'[n] = "up" THEN subs[n] ELSE {}
      /\ \A a \in Addresses : base'[a] = IF base[a] # NoClient /\ link'[base[a]] # "up"
                                         THEN NoClient ELSE base[a]
      /\ UNCHANGED <<watch, watchers, poisoned>>
  BY DEF Cut
<1>3. WatchTypeOK'
  <2> DEFINE S == Seq(Messages)
  <2>0. <<>> \in S
    OBVIOUS
  <2> HIDE DEF S
  <2>1. \A n \in Attempts : wire'[n] \in S /\ subs'[n] \in SUBSET Addresses
    <3> SUFFICES ASSUME NEW n \in Attempts PROVE wire'[n] \in S /\ subs'[n] \in SUBSET Addresses
      OBVIOUS
    <3>1. wire[n] \in S /\ subs[n] \in SUBSET Addresses
      BY <1>1 DEF WatchTypeOK, S
    <3> QED
      BY <1>2, <2>0, <3>1
  <2>2. \A a \in Addresses : base'[a] \in Attempts \cup {NoClient}
    BY <1>1, <1>2 DEF WatchTypeOK
  <2>3. wire' \in [Attempts -> Seq(Messages)] /\ subs' \in [Attempts -> SUBSET Addresses]
    BY <2>1 DEF Cut, S
  <2>4. base' \in [Addresses -> Attempts \cup {NoClient}]
    BY <2>2 DEF Cut
  <2> QED
    BY <1>1, <1>2, <2>3, <2>4 DEF WatchTypeOK
<1>4. AwaitedRequests'
  BY <1>2 DEF SubscriptionInv, WatchInv, AwaitedRequests
<1>5. \A a \in Addresses : base'[a] # NoClient =>
          base'[a] = base[a] /\ link'[base[a]] = "up" /\ base[a] \in Attempts
  BY <1>1, <1>2 DEF WatchTypeOK
<1>6. FirstAwaited'
  BY <1>2, <1>5, WatchAssumption DEF SubscriptionInv, FirstAwaited
<1>7. Registrations'
  BY <1>2 DEF SubscriptionInv, Registrations
<1>8. BaseCurrent'
  BY <1>2, <1>5 DEF SubscriptionInv, BaseCurrent, Connected
<1>9. SubscribedExactly'
  <2> SUFFICES ASSUME NEW n \in Attempts, NEW a \in Addresses PROVE (Subscribed(n, a) <=> base[a] = n)'
    BY DEF SubscribedExactly
  <2>1. Subscribed(n, a) <=> base[a] = n
    BY DEF SubscriptionInv, SubscribedExactly
  <2>2. Subscribed(n, a)' <=> SubscribedBy(wire'[n], subs'[n], a)
    BY DEF Subscribed, SubscribedBy
  <2>3. n # NoClient
    BY WatchAssumption
  <2>4. CASE link'[n] = "up"
    BY <1>2, <2>1, <2>2, <2>3, <2>4, SubscribedIs
  <2>5. CASE link'[n] # "up"
    BY <1>2, <1>5, <2>2, <2>3, <2>5, SubscribedNot
  <2> QED
    BY <2>4, <2>5
<1> QED
  BY <1>3, <1>4, <1>6, <1>7, <1>8, <1>9 DEF SubscriptionInv, WatchInv

-----------------------------------------------------------------------------
(* The watchers' steps.                                                    *)

LEMMA SubscriptionFacts ==
  ASSUME SubscriptionInv
  PROVE  /\ watch \in [Callers -> WatchRecords] /\ watchers \in [Addresses -> SUBSET Callers]
         /\ poisoned \in SUBSET Addresses /\ wire \in [Attempts -> Seq(Messages)]
         /\ subs \in [Attempts -> SUBSET Addresses] /\ base \in [Addresses -> Attempts \cup {NoClient}]
         /\ ReadyWatch /\ AwaitedRequests /\ FirstAwaited /\ Registrations /\ BaseCurrent /\ SubscribedExactly
         /\ \A c \in Callers : AddressOf[c] \in Addresses
         /\ \A n \in Attempts : n # NoClient
  BY WatchAssumption DEF SubscriptionInv, WatchInv, WatchTypeOK

\* A step that leaves requests, subscriptions and entries alone keeps the subscriptions when no
\* watcher whose request is in flight changes, and no subscribed address loses its last watcher.
LEMMA StableInv ==
  ASSUME SubscriptionInv, UNCHANGED <<wire, subs, base, latest, link>>,
         WatchTypeOK', ReadyWatch', Registrations',
         \A d \in Callers : watch'[d].pc = "subscribing" => watch[d].pc = "subscribing",
         \A d \in Callers, n \in Attempts : \A i \in DOMAIN wire[n] :
             wire[n][i].op = "subscribe" /\ wire[n][i].by = d => watch'[d].pc = watch[d].pc
                                                                 /\ watch'[d].client = watch[d].client,
         \A a \in Addresses : base[a] # NoClient =>
             /\ watchers'[a] # {} /\ a \notin poisoned'
             /\ \A d \in watchers'[a] : watch'[d].client = latest
  PROVE  SubscriptionInv'
<1>1. AwaitedRequests'
  <2> SUFFICES ASSUME NEW n \in Attempts, NEW i \in DOMAIN wire[n], wire[n][i].op = "subscribe"
               PROVE  /\ watch'[wire[n][i].by].pc = "subscribing"
                      /\ watch'[wire[n][i].by].client = n
    BY SubscriptionFacts DEF AwaitedRequests
  <2>1. wire[n] \in Seq(Messages)
    BY SubscriptionFacts
  <2>2. wire[n][i] \in Messages
    BY <2>1, LenProperties
  <2>3. wire[n][i].by \in Callers
    BY <2>2 DEF Messages
  <2> QED
    BY <2>3, SubscriptionFacts DEF AwaitedRequests
<1>2. FirstAwaited'
  BY SubscriptionFacts DEF FirstAwaited
<1>3. BaseCurrent'
  BY SubscriptionFacts DEF BaseCurrent
<1>4. SubscribedExactly'
  BY SubscriptionFacts DEF SubscribedExactly, Subscribed
<1> QED
  BY <1>1, <1>2, <1>3, <1>4 DEF SubscriptionInv, WatchInv

LEMMA NoWatchType == NoWatch \in WatchRecords
  BY DEF NoWatch, WatchRecords

LEMMA RegisterBesideInv ==
  ASSUME RpcInv, SubscriptionInv, NEW c \in Callers, RegisterBeside(c)
  PROVE  SubscriptionInv'
<1>1. latest \in Attempts /\ call[c].pc = "ready" /\ watch[c].pc = "off" /\ ~watch[c].told
  BY SubscriptionFacts DEF RegisterBeside, RpcInv, RpcTypeOK, CallIs, WatchIs, Registrations
<1>2. /\ UNCHANGED <<wire, subs, base, poisoned, latest, link, call>>
      /\ watch'[c] = [watch[c] EXCEPT !.pc = "listening", !.client = latest]
      /\ \A d \in Callers : d # c => watch'[d] = watch[d]
      /\ \A a \in Addresses : watchers'[a] = IF a = AddressOf[c] THEN watchers[a] \cup {c} ELSE watchers[a]
  BY SubscriptionFacts DEF RegisterBeside, rpcVars
<1>3. WatchTypeOK'
  BY ZenonT(60), <1>1, SubscriptionFacts DEF RegisterBeside, WatchTypeOK, WatchRecords
<1>4. watch'[c].pc = "listening" /\ watch'[c].client = latest /\ watch'[c].told = watch[c].told
  BY <1>2, SubscriptionFacts DEF WatchRecords
<1>5. ReadyWatch'
  BY <1>1, <1>2, <1>4, SubscriptionFacts DEF ReadyWatch
<1>10. \A a \in Addresses, d \in Callers : d \in watchers'[a] <=> d \in watchers[a] \/ (d = c /\ a = AddressOf[c])
  BY <1>2
<1>11. \A a \in Addresses : watchers[a] \subseteq Callers /\ watchers'[a] \subseteq Callers
  BY <1>3, SubscriptionFacts DEF WatchTypeOK
<1>12. /\ \A d \in Callers : d # c => watch'[d] = watch[d]
       /\ poisoned' = poisoned
  BY <1>2
<1>6. Registrations'
  <2> SUFFICES ASSUME NEW d \in Callers
               PROVE  /\ watch'[d].pc = "subscribing" => d \in watchers'[AddressOf[d]]
                      /\ watch'[d].pc \in {"off", "subscribing"} => ~watch'[d].told
                      /\ watch'[d].pc \in {"off", "api"} => d \notin watchers'[AddressOf[d]]
                      /\ \A a \in Addresses : d \in watchers'[a] => AddressOf[d] = a
    BY DEF Registrations
  <2>1. /\ watch[d].pc = "subscribing" => d \in watchers[AddressOf[d]]
        /\ watch[d].pc \in {"off", "subscribing"} => ~watch[d].told
        /\ watch[d].pc \in {"off", "api"} => d \notin watchers[AddressOf[d]]
        /\ \A a \in Addresses : d \in watchers[a] => AddressOf[d] = a
        /\ AddressOf[d] \in Addresses
    BY SubscriptionFacts DEF Registrations
  <2>2. CASE d = c
    BY <1>4, <1>10, <2>1, <2>2
  <2>3. CASE d # c
    BY <1>10, <1>12, <2>1, <2>3
  <2> QED
    BY <2>2, <2>3
<1>7. \A a \in Addresses : base[a] # NoClient =>
          /\ watchers'[a] # {} /\ a \notin poisoned'
          /\ \A d \in watchers'[a] : watch'[d].client = latest
  <2>1. \A a \in Addresses : base[a] # NoClient =>
            watchers[a] # {} /\ a \notin poisoned /\ \A d \in watchers[a] : watch[d].client = latest
    BY SubscriptionFacts DEF BaseCurrent
  <2> SUFFICES ASSUME NEW a \in Addresses, base[a] # NoClient
               PROVE  /\ watchers'[a] # {} /\ a \notin poisoned'
                      /\ \A d \in watchers'[a] : watch'[d].client = latest
    OBVIOUS
  <2>2. watchers'[a] # {}
    BY <1>10, <1>11, <2>1
  <2>3. ASSUME NEW d \in watchers'[a] PROVE watch'[d].client = latest
    BY <1>4, <1>10, <1>11, <1>12, <2>1, <2>3
  <2> QED
    BY <1>12, <2>1, <2>2, <2>3
<1>8. \A n \in Attempts : \A i \in DOMAIN wire[n] :
          wire[n][i].op = "subscribe" => wire[n][i].by # c
  BY <1>1, SubscriptionFacts DEF AwaitedRequests
<1>9. \A d \in Callers : watch'[d].pc = "subscribing" => watch[d].pc = "subscribing"
  BY <1>2, <1>4
<1> QED
  BY <1>2, <1>3, <1>5, <1>6, <1>7, <1>8, <1>9, StableInv

\* The caller leaves after a failure: its address keeps an id.
LEMMA RegisterFailsInv ==
  ASSUME RpcInv, SubscriptionInv, NEW c \in Callers, RegisterFails(c)
  PROVE  SubscriptionInv'
<1>1. /\ UNCHANGED <<watch, watchers, wire, subs, base, latest, link>> /\ link[latest] # "up"
      /\ poisoned' = poisoned \cup {AddressOf[c]} /\ watch[c].pc = "off"
      /\ call' = [call EXCEPT ![c] = NewCall]
  BY DEF RegisterFails, SameLinks, Connected, WatchIs, Leave
<1>2. WatchTypeOK' /\ Registrations'
  BY <1>1, SubscriptionFacts DEF WatchTypeOK, Registrations
<1>3. ReadyWatch'
  BY <1>1, SubscriptionFacts DEF ReadyWatch, RpcInv, RpcTypeOK
<1>4. \A a \in Addresses : base[a] = NoClient
  BY <1>1, SubscriptionFacts DEF BaseCurrent
<1> QED
  BY <1>1, <1>2, <1>3, <1>4, StableInv

LEMMA SubscribeFailsInv ==
  ASSUME RpcInv, SubscriptionInv, NEW c \in Callers, SubscribeFails(c)
  PROVE  SubscriptionInv'
<1> DEFINE a == AddressOf[c]
<1>1. /\ UNCHANGED <<wire, subs, base, latest, link>> /\ watch[c].pc = "subscribing"
      /\ poisoned' = poisoned \cup {a}
      /\ watchers' = [watchers EXCEPT ![a] = @ \ {c}]
      /\ watch' = [watch EXCEPT ![c] = NoWatch]
      /\ call' = [call EXCEPT ![c] = NewCall]
      /\ \A i \in DOMAIN wire[watch[c].client] : wire[watch[c].client][i].by # c
  BY DEF SubscribeFails, SameLinks, WatchIs, Leave
<1>2. /\ watch'[c] = NoWatch /\ \A d \in Callers : d # c => watch'[d] = watch[d] /\ call'[d] = call[d]
      /\ \A b \in Addresses : watchers'[b] = IF b = a THEN watchers[b] \ {c} ELSE watchers[b]
  BY <1>1, SubscriptionFacts DEF RpcInv, RpcTypeOK
<1>3. WatchTypeOK'
  BY <1>1, SubscriptionFacts, NoWatchType DEF WatchTypeOK
<1>4. ReadyWatch'
  BY <1>2, SubscriptionFacts DEF ReadyWatch, NoWatch
<1>5. Registrations'
  <2>1. \A b \in Addresses : watchers'[b] \subseteq watchers[b] /\ (b = a => c \notin watchers'[b])
    BY <1>2
  <2>2. ASSUME NEW d \in Callers, d # c, AddressOf[d] \in Addresses
        PROVE  d \in watchers[AddressOf[d]] => d \in watchers'[AddressOf[d]]
    BY <1>2, <2>2
  <2> QED
    BY <1>2, <2>1, <2>2, SubscriptionFacts DEF Registrations, NoWatch
<1>6. \A n \in Attempts : \A i \in DOMAIN wire[n] : wire[n][i].op = "subscribe" => wire[n][i].by # c
  BY <1>1, SubscriptionFacts DEF AwaitedRequests
<1>7. base[a] = NoClient
  BY <1>1, <1>6, SubscriptionFacts DEF FirstAwaited
<1>8. \A b \in Addresses : base[b] # NoClient =>
          /\ watchers'[b] # {} /\ b \notin poisoned'
          /\ \A d \in watchers'[b] : watch'[d].client = latest
  BY <1>1, <1>2, <1>7, SubscriptionFacts DEF BaseCurrent, Registrations
<1>9. \A d \in Callers : watch'[d].pc = "subscribing" => watch[d].pc = "subscribing"
  BY <1>2 DEF NoWatch
<1> QED
  BY <1>1, <1>2, <1>3, <1>4, <1>5, <1>6, <1>8, <1>9, StableInv

\* A watcher is cleared: with the last one goes the subscription, on the client it was made on.
LEMMA ClearInv ==
  ASSUME RpcInv, SubscriptionInv, UNCHANGED <<latest, link>>, NEW c \in Callers, NEW w, Clear(c, w),
         WatchTypeOK', ReadyWatch', Registrations',
         watch[c].pc # "subscribing",
         w[c].pc # "subscribing", \A d \in Callers : d # c => watch'[d] = watch[d]
  PROVE  SubscriptionInv'
<1> DEFINE a == AddressOf[c]
           n == watch[c].client
           m == Request("unsubscribe", a, c)
<1>1. /\ UNCHANGED <<poisoned, subs>> /\ a \in Addresses /\ latest \in Attempts
      /\ \A b \in Addresses, d \in Callers : d \in watchers'[b] <=> d \in watchers[b] /\ ~(d = c /\ b = a)
      /\ watch' = w
  BY SubscriptionFacts DEF Clear, RpcInv, RpcTypeOK
<1>2. \A b \in Addresses : watchers[b] \subseteq Callers /\ watchers'[b] \subseteq Callers
  BY SubscriptionFacts DEF WatchTypeOK
<1>3. \A b \in Addresses : base[b] # NoClient =>
          base[b] = latest /\ link[latest] = "up" /\ watchers[b] # {} /\ b \notin poisoned
          /\ \A d \in watchers[b] : watch[d].client = latest
  BY SubscriptionFacts DEF BaseCurrent
<1>4. \A b \in Addresses : c \in watchers[b] => b = a
  BY SubscriptionFacts DEF Registrations
<1>5. \A b \in Addresses : \A d \in watchers'[b] : d # c /\ d \in watchers[b] /\ watch'[d] = watch[d]
  BY <1>1, <1>2, <1>4
<1>6. \A d \in Callers : watch'[d].pc = "subscribing" => d # c /\ watch[d] = watch'[d]
  BY <1>1
<1>7. \A k \in Attempts : \A i \in DOMAIN wire[k] : wire[k][i].op = "subscribe" => wire[k][i].by # c
  BY SubscriptionFacts DEF AwaitedRequests
<1>8. CASE ~Alone(c)
  <2>1. UNCHANGED <<wire, base>>
    BY <1>8 DEF Clear
  <2>2. ASSUME NEW b \in Addresses, base[b] # NoClient PROVE watchers'[b] # {}
    <3>1. PICK d \in watchers[b] : TRUE
      BY <1>3, <2>2
    <3>2. CASE b # a \/ d # c
      BY <1>1, <1>2, <3>1, <3>2
    <3>3. CASE b = a /\ d = c
      <4>1. watchers[a] # {c}
        BY <1>3, <1>8, <2>2, <3>3 DEF Alone
      <4>2. PICK e \in watchers[a] : e # c
        BY <4>1, <3>1, <3>3
      <4> QED
        BY <1>1, <1>2, <3>3, <4>2
    <3> QED
      BY <3>2, <3>3
  <2>3. \A b \in Addresses : base[b] # NoClient =>
            /\ watchers'[b] # {} /\ b \notin poisoned'
            /\ \A d \in watchers'[b] : watch'[d].client = latest
    BY <1>1, <1>3, <1>5, <2>2
  <2>4. \A d \in Callers, k \in Attempts : \A i \in DOMAIN wire[k] :
            wire[k][i].op = "subscribe" /\ wire[k][i].by = d => watch'[d].pc = watch[d].pc
                                                                /\ watch'[d].client = watch[d].client
    BY <1>7
  <2>5. \A d \in Callers : watch'[d].pc = "subscribing" => watch[d].pc = "subscribing"
    BY <1>6
  <2> QED
    BY <1>1, <2>1, <2>3, <2>4, <2>5, StableInv
<1>9. CASE Alone(c)
  <2>1. /\ watchers[a] = {c} /\ a \notin poisoned
        /\ base' = [base EXCEPT ![a] = NoClient]
        /\ wire' = IF link[n] = "up" THEN [wire EXCEPT ![n] = Append(@, m)] ELSE wire
    BY <1>9 DEF Clear, Alone
  <2>2. /\ base'[a] = NoClient
        /\ \A b \in Addresses : b # a => base'[b] = base[b]
    BY <1>1, <2>1, SubscriptionFacts
  <2>3. /\ m \in Messages /\ m.op = "unsubscribe" /\ m.address = a
    BY <1>1 DEF Messages, Ops, Request
  <2>4. \A k \in Attempts : \/ wire'[k] = wire[k] /\ (k # n \/ link[n] # "up")
                            \/ wire'[k] = Append(wire[k], m) /\ k = n
    BY <2>1, SubscriptionFacts
  <2>5. \A k \in Attempts : /\ DOMAIN wire[k] \subseteq DOMAIN wire'[k]
                            /\ \A i \in DOMAIN wire[k] : wire'[k][i] = wire[k][i]
                            /\ \A i \in DOMAIN wire'[k] : wire'[k][i].op = "subscribe" => i \in DOMAIN wire[k]
    <3> SUFFICES ASSUME NEW k \in Attempts
                 PROVE  /\ DOMAIN wire[k] \subseteq DOMAIN wire'[k]
                        /\ \A i \in DOMAIN wire[k] : wire'[k][i] = wire[k][i]
                        /\ \A i \in DOMAIN wire'[k] : wire'[k][i].op = "subscribe" => i \in DOMAIN wire[k]
      OBVIOUS
    <3>1. PICK s : s = wire[k]
      OBVIOUS
    <3>2. s \in Seq(Messages)
      BY <3>1, SubscriptionFacts
    <3>3. PICK x : x = m
      OBVIOUS
    <3>4. /\ DOMAIN Append(s, x) = DOMAIN s \cup {Len(s) + 1} /\ Append(s, x)[Len(s) + 1] = x
          /\ \A i \in DOMAIN s : Append(s, x)[i] = s[i]
      BY <2>3, <3>2, <3>3, MessageSequences
    <3>5. x.op # "subscribe"
      BY <2>3, <3>3
    <3>6. wire'[k] = s \/ wire'[k] = Append(s, x)
      BY <2>4, <3>1, <3>3
    <3> QED
      BY <3>1, <3>4, <3>5, <3>6
  <2>6. AwaitedRequests'
    <3> SUFFICES ASSUME NEW k \in Attempts, NEW i \in DOMAIN wire'[k], wire'[k][i].op = "subscribe"
                 PROVE  /\ watch'[wire'[k][i].by].pc = "subscribing"
                        /\ watch'[wire'[k][i].by].client = k
                        /\ \A j \in DOMAIN wire'[k] :
                               wire'[k][j].op = "subscribe" /\ wire'[k][j].by = wire'[k][i].by => j = i
      BY DEF AwaitedRequests
    <3>1. i \in DOMAIN wire[k] /\ wire[k][i] = wire'[k][i] /\ wire[k] \in Seq(Messages)
      BY <2>5, SubscriptionFacts
    <3>2. wire[k][i] \in Messages
      BY <3>1, LenProperties
    <3>3. wire[k][i].by \in Callers /\ wire[k][i].by # c
      BY <1>7, <3>1, <3>2 DEF Messages
    <3>4. watch'[wire[k][i].by] = watch[wire[k][i].by]
      BY <3>3
    <3>5. /\ watch[wire[k][i].by].pc = "subscribing" /\ watch[wire[k][i].by].client = k
          /\ \A j \in DOMAIN wire[k] : wire[k][j].op = "subscribe" /\ wire[k][j].by = wire[k][i].by => j = i
      BY <3>1, SubscriptionFacts DEF AwaitedRequests
    <3>6. \A j \in DOMAIN wire'[k] : wire'[k][j].op = "subscribe" => j \in DOMAIN wire[k] /\ wire'[k][j] = wire[k][j]
      BY <2>5
    <3> QED
      BY <3>1, <3>4, <3>5, <3>6
  <2>7. FirstAwaited'
    <3> SUFFICES ASSUME NEW d \in Callers, watch'[d].pc = "subscribing", base'[AddressOf[d]] # NoClient
                 PROVE  \E i \in DOMAIN wire'[base'[AddressOf[d]]] :
                            /\ wire'[base'[AddressOf[d]]][i].op = "subscribe"
                            /\ wire'[base'[AddressOf[d]]][i].by = d
      BY DEF FirstAwaited
    <3>1. watch[d].pc = "subscribing" /\ AddressOf[d] \in Addresses /\ AddressOf[d] # a
      BY <1>6, <2>2, SubscriptionFacts
    <3>2. PICK k : k = base[AddressOf[d]]
      OBVIOUS
    <3>3. base'[AddressOf[d]] = k /\ k # NoClient /\ k \in Attempts
      BY <2>2, <3>1, <3>2, SubscriptionFacts
    <3>4. PICK i \in DOMAIN wire[k] : wire[k][i].op = "subscribe" /\ wire[k][i].by = d
      BY <3>1, <3>2, <3>3, SubscriptionFacts DEF FirstAwaited
    <3>5. i \in DOMAIN wire'[k] /\ wire'[k][i] = wire[k][i]
      BY <2>5, <3>3, <3>4
    <3> QED
      BY <3>3, <3>4, <3>5
  <2>8. BaseCurrent'
    <3> SUFFICES ASSUME NEW b \in Addresses, base'[b] # NoClient
                 PROVE  /\ base'[b] = latest' /\ link'[latest'] = "up"
                        /\ watchers'[b] # {} /\ b \notin poisoned'
                        /\ \A d \in watchers'[b] : watch'[d].client = latest'
      BY DEF BaseCurrent
    <3>1. b # a /\ base'[b] = base[b]
      BY <2>2
    <3>2. PICK d \in watchers[b] : TRUE
      BY <1>3, <3>1
    <3>3. d \in watchers'[b]
      BY <1>1, <1>2, <3>1, <3>2
    <3> QED
      BY <1>1, <1>3, <1>5, <3>1, <3>3
  <2>9. SubscribedExactly'
    <3> SUFFICES ASSUME NEW k \in Attempts, NEW b \in Addresses PROVE (Subscribed(k, b) <=> base[b] = k)'
      BY DEF SubscribedExactly
    <3>1. PICK s : s = wire[k]
      OBVIOUS
    <3>2. PICK S : S = subs[k]
      OBVIOUS
    <3>3. PICK x : x = m
      OBVIOUS
    <3>4. s \in Seq(Messages) /\ x \in Messages /\ x.op = "unsubscribe" /\ x.address = a /\ k # NoClient
      BY <2>3, <3>1, <3>3, SubscriptionFacts
    <3>5. Subscribed(k, b)' <=> SubscribedBy(wire'[k], S, b)
      BY <1>1, <3>2 DEF Subscribed, SubscribedBy
    <3>6. SubscribedBy(s, S, b) <=> base[b] = k
      BY <3>1, <3>2, SubscribedIs, SubscriptionFacts DEF SubscribedExactly
    <3>7. SubscribedBy(Append(s, x), S, b) <=>
              IF x.address = b THEN x.op = "subscribe" ELSE SubscribedBy(s, S, b)
      BY <3>4, SubscribedAppend
    <3>8. CASE wire'[k] = s /\ (k # n \/ link[n] # "up")
      <4>1. base[a] # k
        <5> SUFFICES ASSUME base[a] = k PROVE FALSE
          OBVIOUS
        <5>1. latest = k /\ link[latest] = "up" /\ watch[c].client = latest
          BY <1>1, <1>3, <2>1, <3>4
        <5> QED
          BY <3>8, <5>1
      <4> QED
        BY <2>2, <3>4, <3>5, <3>6, <3>8, <4>1
    <3>9. CASE wire'[k] = Append(s, x) /\ k = n
      BY <2>2, <3>4, <3>5, <3>6, <3>7, <3>9
    <3> QED
      BY <2>4, <3>1, <3>3, <3>8, <3>9
  <2>10. WatchInv'
    BY <2>6 DEF WatchInv
  <2> QED
    BY <2>6, <2>7, <2>8, <2>9, <2>10 DEF SubscriptionInv
<1> QED
  BY <1>8, <1>9

LEMMA ClearKeeps ==
  ASSUME RpcInv, SubscriptionInv, NEW c \in Callers, NEW w, Clear(c, w),
         w \in [Callers -> WatchRecords], \A d \in Callers : d # c => w[d] = watch[d],
         w[c].pc \notin {"off", "subscribing"} \/ ~w[c].told, w[c].pc # "subscribing"
  PROVE  WatchTypeOK' /\ Registrations'
<1> DEFINE a == AddressOf[c]
           n == watch[c].client
           m == Request("unsubscribe", a, c)
<1>1. /\ UNCHANGED <<poisoned, subs>> /\ a \in Addresses /\ watch' = w
      /\ watchers' = [watchers EXCEPT ![a] = @ \ {c}]
      /\ \A b \in Addresses, d \in Callers : d \in watchers'[b] <=> d \in watchers[b] /\ ~(d = c /\ b = a)
      /\ base' = base \/ base' = [base EXCEPT ![a] = NoClient]
      /\ wire' = wire \/ wire' = [wire EXCEPT ![n] = Append(@, m)]
  BY SubscriptionFacts DEF Clear
<1>2. m \in Messages
  BY <1>1 DEF Messages, Ops, Request
<1>3. \A k \in Attempts : Append(wire[k], m) \in Seq(Messages)
  BY <1>2, SubscriptionFacts, AppendProperties
<1>4. wire' \in [Attempts -> Seq(Messages)]
  <2> DEFINE S == Seq(Messages)
  <2>1. wire \in [Attempts -> S] /\ \A k \in Attempts : Append(wire[k], m) \in S
    BY <1>3, SubscriptionFacts
  <2>2. PICK x : x = Append(wire[n], m)
    OBVIOUS
  <2>3. n \in Attempts => x \in S
    BY <2>1, <2>2
  <2>4. wire' = wire \/ wire' = [wire EXCEPT ![n] = x]
    BY <1>1, <2>2
  <2> HIDE DEF S, n
  <2>5. wire' \in [Attempts -> S]
    BY <2>1, <2>3, <2>4
  <2> QED
    BY <2>5 DEF S
<1>5. watchers' \in [Addresses -> SUBSET Callers] /\ base' \in [Addresses -> Attempts \cup {NoClient}]
  BY <1>1, SubscriptionFacts
<1>6. WatchTypeOK'
  BY <1>1, <1>4, <1>5, SubscriptionFacts DEF WatchTypeOK
<1>7. Registrations'
  <2> SUFFICES ASSUME NEW d \in Callers
               PROVE  /\ w[d].pc = "subscribing" => d \in watchers'[AddressOf[d]]
                      /\ w[d].pc \in {"off", "subscribing"} => ~w[d].told
                      /\ w[d].pc \in {"off", "api"} => d \notin watchers'[AddressOf[d]]
                      /\ \A b \in Addresses : d \in watchers'[b] => AddressOf[d] = b
    BY <1>1 DEF Registrations
  <2>1. /\ watch[d].pc = "subscribing" => d \in watchers[AddressOf[d]]
        /\ watch[d].pc \in {"off", "subscribing"} => ~watch[d].told
        /\ watch[d].pc \in {"off", "api"} => d \notin watchers[AddressOf[d]]
        /\ \A b \in Addresses : d \in watchers[b] => AddressOf[d] = b
        /\ AddressOf[d] \in Addresses
    BY SubscriptionFacts DEF Registrations
  <2>2. CASE d = c
    BY <1>1, <2>1, <2>2
  <2>3. CASE d # c
    BY <1>1, <2>1, <2>3
  <2> QED
    BY <2>2, <2>3
<1> QED
  BY <1>6, <1>7

\* A caller that leaves is no longer ready, and it watches nothing.
LEMMA LeaveReady ==
  ASSUME RpcInv, SubscriptionInv, NEW c \in Callers, Leave(c), watch' = [watch EXCEPT ![c] = NoWatch]
  PROVE  ReadyWatch' /\ watch' \in [Callers -> WatchRecords] /\ watch'[c] = NoWatch
         /\ \A d \in Callers : d # c => watch'[d] = watch[d]
BY SubscriptionFacts, NoWatchType DEF ReadyWatch, Leave, RpcInv, RpcTypeOK, NoWatch

LEMMA ClearSteps ==
  ASSUME RpcInv, SubscriptionInv, NEW c \in Callers, SubmitFails(c) \/ HandleEvent(c) \/ WatchTimeout(c)
  PROVE  SubscriptionInv'
<1>1. CASE SubmitFails(c)
  <2>1. PICK w : w = [watch EXCEPT ![c] = NoWatch]
    OBVIOUS
  <2>2. /\ Clear(c, w) /\ watch' = w /\ UNCHANGED <<latest, link>> /\ watch[c].pc = "listening" /\ Leave(c)
    BY <1>1, <2>1 DEF SubmitFails, Clear, SameLinks, WatchIs
  <2>3. /\ ReadyWatch' /\ w \in [Callers -> WatchRecords] /\ w[c] = NoWatch
        /\ \A d \in Callers : d # c => w[d] = watch[d]
    BY <2>1, <2>2, LeaveReady
  <2>4. w[c].pc = "off" /\ ~w[c].told
    BY <2>3 DEF NoWatch
  <2>5. WatchTypeOK' /\ Registrations'
    BY <2>2, <2>3, <2>4, ClearKeeps
  <2> QED
    BY <2>2, <2>3, <2>4, <2>5, ClearInv
<1>2. CASE HandleEvent(c)
  <2>1. PICK w : w = watch
    OBVIOUS
  <2>2. /\ Clear(c, w) /\ watch' = w /\ UNCHANGED rpcVars /\ watch[c].told
    BY <1>2, <2>1 DEF HandleEvent, Clear
  <2>3. watch[c].pc \notin {"off", "subscribing"}
    BY <2>2, SubscriptionFacts DEF Registrations
  <2>4. ReadyWatch' /\ UNCHANGED <<latest, link>>
    BY <2>1, <2>2, SubscriptionFacts DEF rpcVars, ReadyWatch
  <2>5. w \in [Callers -> WatchRecords] /\ w[c].pc # "subscribing" /\ w[c].pc # "off" /\ \A d \in Callers : w[d] = watch[d]
    BY <2>1, <2>3, SubscriptionFacts
  <2>6. WatchTypeOK' /\ Registrations'
    BY <2>2, <2>5, ClearKeeps
  <2> QED
    BY <2>2, <2>3, <2>4, <2>5, <2>6, ClearInv
<1>3. CASE WatchTimeout(c)
  <2>1. PICK w : w = [watch EXCEPT ![c].pc = "api"]
    OBVIOUS
  <2>2. /\ Clear(c, w) /\ watch' = w /\ UNCHANGED rpcVars /\ watch[c].pc = "waiting"
    BY <1>3, <2>1 DEF WatchTimeout, Clear, WatchIs
  <2>3. /\ w \in [Callers -> WatchRecords] /\ w[c].pc = "api" /\ \A d \in Callers : d # c => w[d] = watch[d]
    BY <2>1, SubscriptionFacts DEF WatchRecords
  <2>4. ReadyWatch' /\ UNCHANGED <<latest, link>>
    BY <2>2, <2>3, SubscriptionFacts DEF rpcVars, ReadyWatch
  <2>5. w[c].pc # "subscribing" /\ w[c].pc # "off"
    BY <2>3
  <2>6. WatchTypeOK' /\ Registrations'
    BY <2>2, <2>3, <2>5, ClearKeeps
  <2> QED
    BY <2>2, <2>3, <2>4, <2>5, <2>6, ClearInv
<1> QED
  BY <1>1, <1>2, <1>3

LEMMA RegisterFirstInv ==
  ASSUME RpcInv, SubscriptionInv, NEW c \in Callers, RegisterFirst(c)
  PROVE  SubscriptionInv'
<1>1. PICK a : a = AddressOf[c]
  OBVIOUS
<1>2. PICK n : n = latest
  OBVIOUS
<1>3. PICK m : m = Request("subscribe", a, c)
  OBVIOUS
<1>4. /\ UNCHANGED <<poisoned, subs, latest, link, call>>
      /\ call[c].pc = "ready" /\ watch[c].pc = "off" /\ ~watch[c].told
      /\ watchers[a] = {} /\ a \notin poisoned /\ link[n] = "up"
      /\ watchers' = [watchers EXCEPT ![a] = {c}]
      /\ watch' = [watch EXCEPT ![c].pc = "subscribing", ![c].client = n]
      /\ wire' = [wire EXCEPT ![n] = Append(@, m)]
      /\ base' = [base EXCEPT ![a] = n]
  BY <1>1, <1>2, <1>3, SubscriptionFacts
     DEF RegisterFirst, rpcVars, Registered, CallIs, WatchIs, Connected, Registrations
<1>5. /\ a \in Addresses /\ n \in Attempts /\ n # NoClient
      /\ m \in Messages /\ m.op = "subscribe" /\ m.address = a /\ m.by = c
  BY <1>1, <1>2, <1>3, SubscriptionFacts DEF Messages, Ops, Request, RpcInv, RpcTypeOK
<1>6. /\ watch'[c].pc = "subscribing" /\ watch'[c].client = n /\ ~watch'[c].told
      /\ \A d \in Callers : d # c => watch'[d] = watch[d]
      /\ watch' \in [Callers -> WatchRecords]
  <2>1. /\ watch'[c] = [watch[c] EXCEPT !.pc = "subscribing", !.client = n]
        /\ \A d \in Callers : d # c => watch'[d] = watch[d]
    BY <1>4, SubscriptionFacts
  <2>2. watch'[c].pc = "subscribing" /\ watch'[c].client = n /\ watch'[c].told = watch[c].told
    BY <2>1, SubscriptionFacts DEF WatchRecords
  <2>3. watch'[c] \in WatchRecords
    <3>1. PICK x : x = watch[c]
      OBVIOUS
    <3>2. x \in WatchRecords
      BY <3>1, SubscriptionFacts
    <3>3. PICK cl \in Attempts \cup {NoClient} : cl = n
      BY <1>5
    <3>4. [x EXCEPT !.pc = "subscribing", !.client = cl] \in WatchRecords
      BY <3>2, <3>3 DEF WatchRecords
    <3> QED
      BY <2>1, <3>1, <3>3, <3>4
  <2>4. DOMAIN watch' = Callers /\ watch' = [d \in Callers |-> watch'[d]]
    BY <1>4, SubscriptionFacts
  <2>5. \A d \in Callers : watch'[d] \in WatchRecords
    BY <2>1, <2>3, SubscriptionFacts
  <2>6. watch' \in [Callers -> WatchRecords]
    BY <2>4, <2>5
  <2> QED
    BY <1>4, <2>1, <2>2, <2>6
<1>7. PICK s : s = wire[n]
  OBVIOUS
<1>8. PICK t : t = Append(s, m)
  OBVIOUS
<1>9. s \in Seq(Messages) /\ t \in Seq(Messages)
  BY <1>5, <1>7, <1>8, SubscriptionFacts, AppendProperties
<1>10. wire'[n] = t /\ \A k \in Attempts : k # n => wire'[k] = wire[k]
  BY <1>4, <1>5, <1>7, <1>8, SubscriptionFacts
<1>11. PICK l : l = Len(s) + 1
  OBVIOUS
<1>12. /\ DOMAIN t = DOMAIN s \cup {l} /\ l \notin DOMAIN s /\ t[l] = m
       /\ \A i \in DOMAIN s : t[i] = s[i]
  BY <1>5, <1>8, <1>9, <1>11, MessageSequences
<1>13. base'[a] = n /\ \A b \in Addresses : b # a => base'[b] = base[b]
  BY <1>4, <1>5, SubscriptionFacts
<1>14. base[a] = NoClient
  BY <1>4, <1>5, SubscriptionFacts DEF BaseCurrent
<1>15. watchers'[a] = {c} /\ \A b \in Addresses : b # a => watchers'[b] = watchers[b]
  BY <1>4, <1>5, SubscriptionFacts
<1>16. \A k \in Attempts : \A i \in DOMAIN wire[k] : wire[k][i].op = "subscribe" => wire[k][i].by # c
  BY <1>4, SubscriptionFacts DEF AwaitedRequests
<1>17. WatchTypeOK'
  <2>1. wire' \in [Attempts -> Seq(Messages)]
    <3> DEFINE S == Seq(Messages)
    <3>1. wire \in [Attempts -> S] /\ t \in S
      BY <1>9, SubscriptionFacts
    <3>2. wire' = [wire EXCEPT ![n] = t]
      BY <1>4, <1>7, <1>8
    <3> HIDE DEF S
    <3>3. wire' \in [Attempts -> S]
      BY <3>1, <3>2
    <3> QED
      BY <3>3 DEF S
  <2>2. watchers' \in [Addresses -> SUBSET Callers] /\ base' \in [Addresses -> Attempts \cup {NoClient}]
    BY <1>4, <1>5, SubscriptionFacts
  <2> QED
    BY <1>4, <1>6, <2>1, <2>2, SubscriptionFacts DEF WatchTypeOK
<1>18. ReadyWatch'
  BY <1>4, <1>6, SubscriptionFacts DEF ReadyWatch
<1>19. AwaitedRequests'
  <2> SUFFICES ASSUME NEW k \in Attempts, NEW i \in DOMAIN wire'[k], wire'[k][i].op = "subscribe"
               PROVE  /\ watch'[wire'[k][i].by].pc = "subscribing"
                      /\ watch'[wire'[k][i].by].client = k
                      /\ \A j \in DOMAIN wire'[k] :
                             wire'[k][j].op = "subscribe" /\ wire'[k][j].by = wire'[k][i].by => j = i
    BY DEF AwaitedRequests
  <2>1. CASE k = n /\ i = l
    <3>1. \A j \in DOMAIN t : j # i => j \in DOMAIN s /\ t[j] = s[j]
      BY <1>12, <2>1
    <3>2. \A j \in DOMAIN s : s[j].op = "subscribe" => s[j].by # c
      BY <1>5, <1>7, <1>16
    <3> QED
      BY <1>5, <1>6, <1>10, <1>12, <2>1, <3>1, <3>2
  <2>2. CASE ~(k = n /\ i = l)
    <3>1. i \in DOMAIN wire[k] /\ wire'[k][i] = wire[k][i] /\ wire[k] \in Seq(Messages)
      BY <1>7, <1>10, <1>12, <2>2, SubscriptionFacts
    <3>2. wire[k][i] \in Messages
      BY <3>1, LenProperties
    <3>3. wire[k][i].by \in Callers /\ wire[k][i].by # c
      BY <1>16, <3>1, <3>2 DEF Messages
    <3>4. watch'[wire[k][i].by] = watch[wire[k][i].by]
      BY <1>6, <3>3
    <3>5. /\ watch[wire[k][i].by].pc = "subscribing" /\ watch[wire[k][i].by].client = k
          /\ \A j \in DOMAIN wire[k] : wire[k][j].op = "subscribe" /\ wire[k][j].by = wire[k][i].by => j = i
      BY <3>1, SubscriptionFacts DEF AwaitedRequests
    <3>6. \A j \in DOMAIN wire'[k] : (j \in DOMAIN wire[k] /\ wire'[k][j] = wire[k][j]) \/ wire'[k][j].by = c
      BY <1>5, <1>7, <1>10, <1>12
    <3> QED
      BY <3>1, <3>3, <3>4, <3>5, <3>6
  <2> QED
    BY <2>1, <2>2
<1>20. FirstAwaited'
  <2> SUFFICES ASSUME NEW d \in Callers, watch'[d].pc = "subscribing", base'[AddressOf[d]] # NoClient
               PROVE  \E i \in DOMAIN wire'[base'[AddressOf[d]]] :
                          /\ wire'[base'[AddressOf[d]]][i].op = "subscribe"
                          /\ wire'[base'[AddressOf[d]]][i].by = d
    BY DEF FirstAwaited
  <2>1. CASE d = c
    BY <1>1, <1>5, <1>10, <1>12, <1>13, <2>1
  <2>2. CASE d # c
    <3>1. watch[d].pc = "subscribing" /\ AddressOf[d] \in Addresses /\ d \in watchers[AddressOf[d]]
      BY <1>6, <2>2, SubscriptionFacts DEF Registrations
    <3>2. AddressOf[d] # a
      BY <1>4, <3>1
    <3>3. PICK k : k = base[AddressOf[d]]
      OBVIOUS
    <3>4. base'[AddressOf[d]] = k /\ k # NoClient /\ k \in Attempts
      BY <1>13, <3>1, <3>2, <3>3, SubscriptionFacts
    <3>5. PICK i \in DOMAIN wire[k] : wire[k][i].op = "subscribe" /\ wire[k][i].by = d
      BY <3>1, <3>3, <3>4, SubscriptionFacts DEF FirstAwaited
    <3>6. i \in DOMAIN wire'[k] /\ wire'[k][i] = wire[k][i]
      BY <1>7, <1>10, <1>12, <3>4, <3>5
    <3> QED
      BY <3>4, <3>5, <3>6
  <2> QED
    BY <2>1, <2>2
<1>21. Registrations'
  <2> SUFFICES ASSUME NEW d \in Callers
               PROVE  /\ watch'[d].pc = "subscribing" => d \in watchers'[AddressOf[d]]
                      /\ watch'[d].pc \in {"off", "subscribing"} => ~watch'[d].told
                      /\ watch'[d].pc \in {"off", "api"} => d \notin watchers'[AddressOf[d]]
                      /\ \A b \in Addresses : d \in watchers'[b] => AddressOf[d] = b
    BY DEF Registrations
  <2>1. /\ watch[d].pc = "subscribing" => d \in watchers[AddressOf[d]]
        /\ watch[d].pc \in {"off", "subscribing"} => ~watch[d].told
        /\ watch[d].pc \in {"off", "api"} => d \notin watchers[AddressOf[d]]
        /\ \A b \in Addresses : d \in watchers[b] => AddressOf[d] = b
        /\ AddressOf[d] \in Addresses
    BY SubscriptionFacts DEF Registrations
  <2>2. CASE d = c
    BY <1>1, <1>6, <1>15, <2>1, <2>2
  <2>3. CASE d # c
    <3>1. \A b \in Addresses : d \in watchers'[b] => d \in watchers[b]
      BY <1>15, <2>3
    <3>2. d \in watchers[AddressOf[d]] => d \in watchers'[AddressOf[d]]
      BY <1>4, <1>15, <2>1
    <3>3. watch'[d] = watch[d]
      BY <1>6, <2>3
    <3> QED
      BY <2>1, <3>1, <3>2, <3>3
  <2> QED
    BY <2>2, <2>3
<1>22. BaseCurrent'
  <2> SUFFICES ASSUME NEW b \in Addresses, base'[b] # NoClient
               PROVE  /\ base'[b] = latest /\ link[latest] = "up"
                      /\ watchers'[b] # {} /\ b \notin poisoned
                      /\ \A d \in watchers'[b] : watch'[d].client = latest
    BY <1>4 DEF BaseCurrent
  <2>1. CASE b = a
    BY <1>2, <1>4, <1>6, <1>13, <1>15, <2>1
  <2>2. CASE b # a
    <3>1. /\ base[b] = latest /\ link[latest] = "up" /\ watchers[b] # {} /\ b \notin poisoned
          /\ \A d \in watchers[b] : watch[d].client = latest
      BY <1>13, <2>2, SubscriptionFacts DEF BaseCurrent
    <3>2. \A d \in watchers[b] : d \in Callers /\ AddressOf[d] = b
      BY SubscriptionFacts DEF Registrations
    <3>3. \A d \in watchers[b] : watch'[d] = watch[d]
      BY <1>1, <1>6, <2>2, <3>2
    <3> QED
      BY <1>13, <1>15, <2>2, <3>1, <3>3
  <2> QED
    BY <2>1, <2>2
<1>23. SubscribedExactly'
  <2> SUFFICES ASSUME NEW k \in Attempts, NEW b \in Addresses PROVE (Subscribed(k, b) <=> base[b] = k)'
    BY DEF SubscribedExactly
  <2>1. PICK S : S = subs[k]
    OBVIOUS
  <2>2. Subscribed(k, b)' <=> SubscribedBy(wire'[k], S, b)
    BY <1>4, <2>1 DEF Subscribed, SubscribedBy
  <2>3. SubscribedBy(wire[k], S, b) <=> base[b] = k
    BY <2>1, SubscribedIs, SubscriptionFacts DEF SubscribedExactly
  <2>4. CASE k = n
    <3>1. SubscribedBy(t, S, b) <=> IF m.address = b THEN m.op = "subscribe" ELSE SubscribedBy(s, S, b)
      BY <1>5, <1>8, <1>9, SubscribedAppend
    <3> QED
      BY <1>5, <1>7, <1>10, <1>13, <2>2, <2>3, <2>4, <3>1
  <2>5. CASE k # n
    <3>1. wire'[k] = wire[k] /\ k # NoClient
      BY <1>10, <2>5, SubscriptionFacts
    <3> QED
      BY <1>13, <1>14, <2>2, <2>3, <2>5, <3>1
  <2> QED
    BY <2>4, <2>5
<1> QED
  BY <1>17, <1>18, <1>19, <1>20, <1>21, <1>22, <1>23 DEF SubscriptionInv, WatchInv

LEMMA AnswerInv ==
  ASSUME RpcInv, SubscriptionInv, NEW n \in Attempts, Answer(n)
  PROVE  SubscriptionInv'
<1>1. PICK s : s = wire[n]
  OBVIOUS
<1>2. PICK q : q = Head(s)
  OBVIOUS
<1>3. PICK t : t = Tail(s)
  OBVIOUS
<1>4. PICK S : S = subs[n]
  OBVIOUS
<1>5. PICK T : T = IF q.op = "subscribe" THEN S \cup {q.address} ELSE S \ {q.address}
  OBVIOUS
<1>6. /\ UNCHANGED <<watchers, poisoned, base, latest, link, call>> /\ s # <<>>
      /\ wire' = [wire EXCEPT ![n] = t] /\ subs' = [subs EXCEPT ![n] = T]
      /\ watch' = IF q.op = "subscribe" THEN [watch EXCEPT ![q.by].pc = "listening"] ELSE watch
  BY <1>1, <1>2, <1>3, <1>4, <1>5 DEF Answer, rpcVars
<1>7. s \in Seq(Messages) /\ S \in SUBSET Addresses
  BY <1>1, <1>4, SubscriptionFacts
<1>8. /\ q \in Messages /\ t \in Seq(Messages)
      /\ 1 \in DOMAIN s /\ q = s[1]
      /\ \A i \in DOMAIN t : i + 1 \in DOMAIN s /\ t[i] = s[i + 1] /\ i + 1 # 1
      /\ \A i, j \in DOMAIN t : i + 1 = j + 1 => i = j
  BY <1>2, <1>3, <1>6, <1>7, MessageSequences
<1>9. q.by \in Callers /\ q.address \in Addresses
  BY <1>8 DEF Messages
<1>10. /\ wire'[n] = t /\ subs'[n] = T
       /\ \A k \in Attempts : k # n => wire'[k] = wire[k] /\ subs'[k] = subs[k]
  BY <1>6, SubscriptionFacts
<1>11. q.op = "subscribe" => watch[q.by].pc = "subscribing" /\ watch[q.by].client = n
  BY <1>1, <1>8, SubscriptionFacts DEF AwaitedRequests
<1>12. /\ \A d \in Callers : watch'[d] = watch[d] \/ (d = q.by /\ q.op = "subscribe")
       /\ \A d \in Callers : watch'[d].client = watch[d].client /\ watch'[d].told = watch[d].told
       /\ q.op = "subscribe" => watch'[q.by].pc = "listening"
       /\ watch' \in [Callers -> WatchRecords]
  <2>1. CASE q.op # "subscribe"
    BY <1>6, <2>1, SubscriptionFacts
  <2>2. CASE q.op = "subscribe"
    <3>1. PICK b : b = q.by
      OBVIOUS
    <3>2. watch' = [watch EXCEPT ![b].pc = "listening"] /\ b \in Callers
      BY <1>6, <1>9, <2>2, <3>1
    <3>3. /\ watch'[b] = [watch[b] EXCEPT !.pc = "listening"]
          /\ \A d \in Callers : d # b => watch'[d] = watch[d]
      BY <3>2, SubscriptionFacts
    <3>4. watch'[b].pc = "listening" /\ watch'[b].client = watch[b].client /\ watch'[b].told = watch[b].told
      BY <3>2, <3>3, SubscriptionFacts DEF WatchRecords
    <3>5. watch' \in [Callers -> WatchRecords]
      BY <3>2, SubscriptionFacts DEF WatchRecords
    <3> QED
      BY <2>2, <3>1, <3>3, <3>4, <3>5
  <2> QED
    BY <2>1, <2>2
<1>13. WatchTypeOK'
  <2>1. subs' \in [Attempts -> SUBSET Addresses]
    BY <1>5, <1>6, <1>7, <1>9, SubscriptionFacts
  <2>2. wire' \in [Attempts -> Seq(Messages)]
    <3> DEFINE M == Seq(Messages)
    <3>1. wire \in [Attempts -> M] /\ t \in M
      BY <1>8, SubscriptionFacts
    <3> HIDE DEF M
    <3>2. wire' \in [Attempts -> M]
      BY <1>6, <3>1
    <3> QED
      BY <3>2 DEF M
  <2> QED
    BY <1>6, <1>12, <2>1, <2>2, SubscriptionFacts DEF WatchTypeOK
<1>14. ReadyWatch'
  BY <1>6, <1>11, <1>12, SubscriptionFacts DEF ReadyWatch
<1>15. \A k \in Attempts : \A i \in DOMAIN wire'[k] :
           /\ \E j \in DOMAIN wire[k] : wire[k][j] = wire'[k][i] /\ (k = n => j = i + 1 /\ j # 1) /\ (k # n => j = i)
           /\ wire'[k][i] \in Messages
  <2> SUFFICES ASSUME NEW k \in Attempts, NEW i \in DOMAIN wire'[k]
               PROVE  /\ \E j \in DOMAIN wire[k] : /\ wire[k][j] = wire'[k][i]
                                                  /\ (k = n => j = i + 1 /\ j # 1) /\ (k # n => j = i)
                      /\ wire[k] \in Seq(Messages)
    BY LenProperties
  <2>1. CASE k = n
    BY <1>1, <1>7, <1>8, <1>10, <2>1
  <2>2. CASE k # n
    BY <1>10, <2>2, SubscriptionFacts
  <2> QED
    BY <2>1, <2>2
<1>16. AwaitedRequests'
  <2> SUFFICES ASSUME NEW k \in Attempts, NEW i \in DOMAIN wire'[k], wire'[k][i].op = "subscribe"
               PROVE  /\ watch'[wire'[k][i].by].pc = "subscribing"
                      /\ watch'[wire'[k][i].by].client = k
                      /\ \A j \in DOMAIN wire'[k] :
                             wire'[k][j].op = "subscribe" /\ wire'[k][j].by = wire'[k][i].by => j = i
    BY DEF AwaitedRequests
  <2>1. PICK x : x = wire'[k][i]
    OBVIOUS
  <2>2. PICK i0 \in DOMAIN wire[k] : wire[k][i0] = x /\ (k = n => i0 = i + 1 /\ i0 # 1) /\ (k # n => i0 = i)
    BY <1>15, <2>1
  <2>3. x.by \in Callers /\ x.op = "subscribe"
    BY <1>15, <2>1 DEF Messages
  <2>4. /\ watch[x.by].pc = "subscribing" /\ watch[x.by].client = k
        /\ \A j \in DOMAIN wire[k] : wire[k][j].op = "subscribe" /\ wire[k][j].by = x.by => j = i0
    BY <2>2, <2>3, SubscriptionFacts DEF AwaitedRequests
  <2>5. ~(x.by = q.by /\ q.op = "subscribe")
    BY <1>1, <1>8, <1>11, <2>2, <2>4
  <2>6. watch'[x.by] = watch[x.by]
    BY <1>12, <2>3, <2>5
  <2>7. ASSUME NEW j \in DOMAIN wire'[k], wire'[k][j].op = "subscribe", wire'[k][j].by = x.by
        PROVE  j = i
    <3>1. PICK j0 \in DOMAIN wire[k] : wire[k][j0] = wire'[k][j] /\ (k = n => j0 = j + 1) /\ (k # n => j0 = j)
      BY <1>15
    <3>2. j0 = i0
      BY <2>4, <2>7, <3>1
    <3>3. CASE k = n
      BY <1>8, <1>10, <2>2, <3>1, <3>2, <3>3
    <3> QED
      BY <2>2, <3>1, <3>2, <3>3
  <2> QED
    BY <2>1, <2>4, <2>6, <2>7
<1>17. FirstAwaited'
  <2> SUFFICES ASSUME NEW d \in Callers, watch'[d].pc = "subscribing", base[AddressOf[d]] # NoClient
               PROVE  \E i \in DOMAIN wire'[base[AddressOf[d]]] :
                          wire'[base[AddressOf[d]]][i].op = "subscribe" /\ wire'[base[AddressOf[d]]][i].by = d
    BY <1>6 DEF FirstAwaited
  <2>1. ~(d = q.by /\ q.op = "subscribe") /\ watch[d].pc = "subscribing"
    BY <1>12
  <2>2. PICK k : k = base[AddressOf[d]]
    OBVIOUS
  <2>3. k \in Attempts
    BY <2>2, SubscriptionFacts
  <2>4. PICK i \in DOMAIN wire[k] : wire[k][i].op = "subscribe" /\ wire[k][i].by = d
    BY <2>1, <2>2, SubscriptionFacts DEF FirstAwaited
  <2>5. CASE k # n
    BY <1>10, <2>2, <2>3, <2>4, <2>5
  <2>6. CASE k = n
    <3>1. i # 1
      BY <1>1, <1>8, <2>1, <2>4, <2>6
    <3>2. i - 1 \in DOMAIN t /\ t[i - 1] = s[i]
      <4>1. DOMAIN s = 1..Len(s) /\ Len(s) \in Nat /\ DOMAIN t = 1..Len(t)
        BY <1>7, <1>8, LenProperties
      <4>2. Len(t) = Len(s) - 1 /\ \A j \in 1..Len(t) : t[j] = s[j + 1]
        BY <1>3, <1>6, <1>7, HeadTailProperties
      <4>3. i \in DOMAIN s
        BY <1>1, <2>4, <2>6
      <4> QED
        BY <3>1, <4>1, <4>2, <4>3
    <3> QED
      BY <1>1, <1>10, <2>2, <2>4, <2>6, <3>2
  <2> QED
    BY <2>5, <2>6
<1>18. Registrations'
  <2> SUFFICES ASSUME NEW d \in Callers
               PROVE  /\ watch'[d].pc = "subscribing" => d \in watchers[AddressOf[d]]
                      /\ watch'[d].pc \in {"off", "subscribing"} => ~watch'[d].told
                      /\ watch'[d].pc \in {"off", "api"} => d \notin watchers[AddressOf[d]]
                      /\ \A b \in Addresses : d \in watchers[b] => AddressOf[d] = b
    BY <1>6 DEF Registrations
  <2>1. /\ watch[d].pc = "subscribing" => d \in watchers[AddressOf[d]]
        /\ watch[d].pc \in {"off", "subscribing"} => ~watch[d].told
        /\ watch[d].pc \in {"off", "api"} => d \notin watchers[AddressOf[d]]
        /\ \A b \in Addresses : d \in watchers[b] => AddressOf[d] = b
    BY SubscriptionFacts DEF Registrations
  <2> QED
    BY <1>12, <2>1
<1>19. BaseCurrent'
  <2>1. \A b \in Addresses, d \in Callers : d \in watchers[b] => watch'[d].client = watch[d].client
    BY <1>12
  <2>2. \A b \in Addresses : watchers[b] \subseteq Callers
    BY SubscriptionFacts
  <2> QED
    BY <1>6, <2>1, <2>2, SubscriptionFacts DEF BaseCurrent
<1>20. SubscribedExactly'
  <2> SUFFICES ASSUME NEW k \in Attempts, NEW b \in Addresses PROVE (Subscribed(k, b) <=> base[b] = k)'
    BY DEF SubscribedExactly
  <2>1. Subscribed(k, b)' <=> SubscribedBy(wire'[k], subs'[k], b)
    BY DEF Subscribed, SubscribedBy
  <2>2. SubscribedBy(wire[k], subs[k], b) <=> base[b] = k
    BY SubscribedIs, SubscriptionFacts DEF SubscribedExactly
  <2>3. SubscribedBy(t, T, b) <=> SubscribedBy(s, S, b)
    BY <1>2, <1>3, <1>5, <1>6, <1>7, SubscribedTail
  <2>4. (wire'[k] = wire[k] /\ subs'[k] = subs[k]) \/ k = n
    BY <1>10
  <2> QED
    BY <1>1, <1>4, <1>6, <1>10, <2>1, <2>2, <2>3, <2>4
<1> QED
  BY <1>13, <1>14, <1>16, <1>17, <1>18, <1>19, <1>20 DEF SubscriptionInv, WatchInv

\* The steps that touch neither the map nor the requests.
LEMMA QuietSteps ==
  ASSUME RpcInv, SubscriptionInv, NEW c \in Callers,
         Submit(c) \/ Accept(c) \/ Reported(c) \/ ApiAnswers(c)
  PROVE  SubscriptionInv'
<1>1. UNCHANGED <<watchers, poisoned, wire, subs, base, latest, link>>
  BY DEF Submit, Accept, Reported, ApiAnswers, SameLinks, rpcVars
<1>2. /\ watch' \in [Callers -> WatchRecords] /\ ReadyWatch'
      /\ \A d \in Callers :
             \/ watch'[d].pc = watch[d].pc /\ watch'[d].client = watch[d].client
                /\ (watch'[d].told => watch[d].told \/ watch[d].pc \in {"listening", "waiting"})
             \/ watch[d].pc = "listening" /\ watch'[d].pc = "waiting" /\ watch'[d].client = watch[d].client
             \/ watch[d].pc \in {"waiting", "api"} /\ watch'[d].pc = "off" /\ ~watch'[d].told
                /\ d \notin watchers[AddressOf[d]]
  <2>1. CASE Submit(c)
    <3>1. PICK r : r = [watch[c] EXCEPT !.pc = "waiting", !.sent = TRUE]
      OBVIOUS
    <3>2. r \in WatchRecords /\ r.pc = "waiting" /\ r.client = watch[c].client /\ watch[c].pc = "listening"
      BY <2>1, <3>1, SubscriptionFacts DEF Submit, WatchIs, WatchRecords
    <3>3. watch' = [watch EXCEPT ![c] = r] /\ call' = call
      BY <2>1, <3>1, SubscriptionFacts DEF Submit, rpcVars
    <3>4. watch'[c] = r /\ \A d \in Callers : d # c => watch'[d] = watch[d]
      BY <3>3, SubscriptionFacts
    <3> QED
      BY <3>2, <3>3, <3>4, SubscriptionFacts DEF ReadyWatch
  <2>2. CASE Accept(c)
    <3>1. PICK w : w = [d \in Callers |-> IF d = c THEN [watch[d] EXCEPT !.sent = FALSE] ELSE watch[d]]
      OBVIOUS
    <3>2. \A d \in Callers : /\ w[d] \in WatchRecords /\ w[d].pc = watch[d].pc
                             /\ w[d].client = watch[d].client /\ w[d].told = watch[d].told
      BY ZenonT(60), <3>1, SubscriptionFacts DEF WatchRecords
    <3>3. \A d \in Callers : \/ watch'[d] = w[d]
                             \/ watch'[d] = [w[d] EXCEPT !.told = TRUE] /\ watch[d].pc \in {"listening", "waiting"}
      BY <2>2, <3>1 DEF Accept, Report, Listeners
    <3>4. \A d \in Callers : [w[d] EXCEPT !.told = TRUE] \in WatchRecords
                             /\ [w[d] EXCEPT !.told = TRUE].pc = w[d].pc
                             /\ [w[d] EXCEPT !.told = TRUE].client = w[d].client
      BY <3>2 DEF WatchRecords
    <3>5. \A d \in Callers : watch'[d] \in WatchRecords /\ watch'[d].pc = watch[d].pc
                             /\ watch'[d].client = watch[d].client
                             /\ (watch'[d].told => watch[d].told \/ watch[d].pc \in {"listening", "waiting"})
      BY <3>2, <3>3, <3>4
    <3>6. watch' = [d \in Callers |-> watch'[d]] /\ call' = call
      BY <2>2 DEF Accept, Report, rpcVars
    <3> QED
      BY <3>5, <3>6, SubscriptionFacts DEF ReadyWatch
  <2>3. CASE Reported(c) \/ ApiAnswers(c)
    <3>1. /\ watch' = [watch EXCEPT ![c] = NoWatch] /\ Leave(c)
          /\ watch[c].pc \in {"waiting", "api"} /\ c \notin watchers[AddressOf[c]]
      BY <2>3, SubscriptionFacts DEF Reported, ApiAnswers, WatchIs, Registrations
    <3>2. /\ ReadyWatch' /\ watch' \in [Callers -> WatchRecords] /\ watch'[c] = NoWatch
          /\ \A d \in Callers : d # c => watch'[d] = watch[d]
      BY <3>1, LeaveReady
    <3>3. watch'[c].pc = "off" /\ ~watch'[c].told
      BY <3>2 DEF NoWatch
    <3> QED
      BY <3>1, <3>2, <3>3
  <2> QED
    BY <2>1, <2>2, <2>3
<1>3. WatchTypeOK'
  BY <1>1, <1>2, SubscriptionFacts DEF WatchTypeOK
<1>4. Registrations'
  <2> SUFFICES ASSUME NEW d \in Callers
               PROVE  /\ watch'[d].pc = "subscribing" => d \in watchers[AddressOf[d]]
                      /\ watch'[d].pc \in {"off", "subscribing"} => ~watch'[d].told
                      /\ watch'[d].pc \in {"off", "api"} => d \notin watchers[AddressOf[d]]
                      /\ \A b \in Addresses : d \in watchers[b] => AddressOf[d] = b
    BY <1>1 DEF Registrations
  <2>1. /\ watch[d].pc = "subscribing" => d \in watchers[AddressOf[d]]
        /\ watch[d].pc \in {"off", "subscribing"} => ~watch[d].told
        /\ watch[d].pc \in {"off", "api"} => d \notin watchers[AddressOf[d]]
        /\ \A b \in Addresses : d \in watchers[b] => AddressOf[d] = b
    BY SubscriptionFacts DEF Registrations
  <2> QED
    BY <1>2, <2>1
<1>5. \A d \in Callers : \A b \in Addresses : d \in watchers[b] => watch'[d].client = watch[d].client
  BY <1>2, SubscriptionFacts DEF Registrations
<1>6. \A b \in Addresses : base[b] # NoClient =>
          /\ watchers'[b] # {} /\ b \notin poisoned'
          /\ \A d \in watchers'[b] : watch'[d].client = latest
  <2>1. \A b \in Addresses : watchers[b] \subseteq Callers
    BY SubscriptionFacts
  <2>2. \A b \in Addresses : base[b] # NoClient =>
            watchers[b] # {} /\ b \notin poisoned /\ \A d \in watchers[b] : watch[d].client = latest
    BY SubscriptionFacts DEF BaseCurrent
  <2> QED
    BY <1>1, <1>5, <2>1, <2>2
<1>7. \A d \in Callers : watch'[d].pc = "subscribing" => watch[d].pc = "subscribing"
  BY <1>2
<1>8. \A d \in Callers, n \in Attempts : \A i \in DOMAIN wire[n] :
          wire[n][i].op = "subscribe" /\ wire[n][i].by = d => watch'[d].pc = watch[d].pc
                                                              /\ watch'[d].client = watch[d].client
  <2>1. \A d \in Callers, n \in Attempts : \A i \in DOMAIN wire[n] :
            wire[n][i].op = "subscribe" /\ wire[n][i].by = d => watch[d].pc = "subscribing"
    BY SubscriptionFacts DEF AwaitedRequests
  <2>2. \A d \in Callers : watch[d].pc = "subscribing" =>
            watch'[d].pc = watch[d].pc /\ watch'[d].client = watch[d].client
    BY <1>2
  <2> QED
    BY <2>1, <2>2
<1> QED
  BY <1>1, <1>2, <1>3, <1>4, <1>6, <1>7, <1>8, StableInv

-----------------------------------------------------------------------------
(* Every step of the network keeps both invariants, and is a step of the   *)
(* connection manager or none.                                             *)

LEMMA NetworkIsRpc ==
  ASSUME SubscriptionInv, [NetworkNext]_networkVars
  PROVE  [RpcNext]_rpcVars
<1>1. ASSUME NEW c \in Callers, CallIs(c, "ready"), Leave(c), SameLinks PROVE RpcNext
  BY <1>1 DEF Leave, SameLinks, CallIs, Use, RpcNext
<1>2. ASSUME NEW c \in Callers, WatchSteps(c) PROVE RpcNext \/ UNCHANGED rpcVars
  <2>1. WatchIs(c, "off") \/ CallIs(c, "ready")
    BY SubscriptionFacts DEF ReadyWatch, WatchIs, CallIs
  <2>2. CASE RegisterFails(c) \/ SubscribeFails(c) \/ SubmitFails(c) \/ Reported(c) \/ ApiAnswers(c)
    BY <1>1, <2>1, <2>2 DEF RegisterFails, SubscribeFails, SubmitFails, Reported, ApiAnswers, WatchIs
  <2>3. CASE RegisterBeside(c) \/ RegisterFirst(c) \/ Submit(c) \/ Accept(c) \/ HandleEvent(c) \/ WatchTimeout(c)
    BY <2>3 DEF RegisterBeside, RegisterFirst, Submit, Accept, HandleEvent, WatchTimeout
  <2> QED
    BY <1>2, <2>2, <2>3 DEF WatchSteps
<1>3. ASSUME NEW n \in Attempts, Answer(n) PROVE UNCHANGED rpcVars
  BY <1>3 DEF Answer
<1>4. ASSUME NEW n \in Attempts, Lose(n) \/ Reconnect(n) PROVE RpcNext
  BY <1>4 DEF RpcNext, LinkSteps
<1>5. ASSUME NEW c \in Callers, CallSteps(c) \/ Use(c) PROVE RpcNext
  BY <1>5 DEF RpcNext
<1>6. CASE UNCHANGED networkVars
  BY <1>6 DEF networkVars
<1> QED
  BY <1>2, <1>3, <1>4, <1>5, <1>6 DEF NetworkNext, ConnectionStep

LEMMA CutSteps ==
  ASSUME RpcInv, RpcInv', SubscriptionInv, Cut,
         (\E n \in Attempts : Lose(n) \/ Reconnect(n)) \/ (\E c \in Callers : CallSteps(c))
  PROVE  SubscriptionInv'
<1>1. CASE \E n \in Attempts : Lose(n) \/ Reconnect(n)
  <2>1. UNCHANGED <<latest, call, watch>>
    BY <1>1 DEF Lose, Reconnect, Cut
  <2>2. ReadyWatch'
    BY <2>1, SubscriptionFacts DEF ReadyWatch
  <2> QED
    BY <2>1, <2>2, CutInv
<1>2. ASSUME NEW c \in Callers, CallSteps(c) PROVE SubscriptionInv'
  <2>1. \A d \in Callers : call[d].pc = "ready" => call'[d] = call[d]
    BY <1>2, CallKeeps
  <2>2. ReadyWatch'
    BY <2>1, SubscriptionFacts DEF ReadyWatch, Cut
  <2>3. latest' = latest \/ ~Connected
    BY <1>2, LatestKeeps
  <2> QED
    BY <2>2, <2>3, CutInv
<1> QED
  BY <1>1, <1>2

LEMMA NetworkStep == NetworkInv /\ [NetworkNext]_networkVars => NetworkInv'
<1> SUFFICES ASSUME RpcInv, SubscriptionInv, [NetworkNext]_networkVars PROVE NetworkInv'
  BY DEF NetworkInv
<1>1. RpcInv'
  BY NetworkIsRpc, RpcStep
<1>2. ASSUME NEW c \in Callers, WatchSteps(c) PROVE SubscriptionInv'
  BY <1>2, RegisterBesideInv, RegisterFirstInv, RegisterFailsInv, SubscribeFailsInv, ClearSteps, QuietSteps
     DEF WatchSteps
<1>3. ASSUME NEW c \in Callers, CallIs(c, "failed"), Use(c), UNCHANGED watchVars PROVE SubscriptionInv'
  <2>1. UNCHANGED <<watch, watchers, poisoned, wire, subs, base, latest, link>>
    BY <1>3 DEF Use, watchVars
  <2>2. \A d \in Callers : d # c => call'[d] = call[d]
    BY <1>3 DEF Use, RpcInv, RpcTypeOK
  <2>3. ReadyWatch'
    BY <1>3, <2>1, <2>2, SubscriptionFacts DEF ReadyWatch, CallIs
  <2>4. WatchTypeOK' /\ Registrations'
    BY <2>1, SubscriptionFacts DEF WatchTypeOK, Registrations
  <2>5. \A a \in Addresses : base[a] # NoClient =>
            watchers[a] # {} /\ a \notin poisoned /\ \A d \in watchers[a] : watch[d].client = latest
    BY SubscriptionFacts DEF BaseCurrent
  <2> QED
    BY <2>1, <2>3, <2>4, <2>5, StableInv
<1>4. ASSUME UNCHANGED networkVars PROVE SubscriptionInv'
  <2>1. UNCHANGED <<watch, watchers, poisoned, wire, subs, base, latest, link, call>>
    BY <1>4 DEF networkVars, rpcVars, watchVars
  <2>2. WatchTypeOK' /\ Registrations' /\ ReadyWatch'
    BY <2>1, SubscriptionFacts DEF WatchTypeOK, Registrations, ReadyWatch
  <2>3. \A a \in Addresses : base[a] # NoClient =>
            watchers[a] # {} /\ a \notin poisoned /\ \A d \in watchers[a] : watch[d].client = latest
    BY SubscriptionFacts DEF BaseCurrent
  <2>4. UNCHANGED <<wire, subs, base, latest, link>> /\ watch' = watch /\ watchers' = watchers /\ poisoned' = poisoned
    BY <2>1
  <2> QED
    BY <2>2, <2>3, <2>4, StableInv
<1>5. ASSUME NetworkNext PROVE SubscriptionInv'
  <2>1. ASSUME NEW n \in Attempts, Answer(n) \/ (Lose(n) /\ Cut) \/ (Reconnect(n) /\ Cut) PROVE SubscriptionInv'
    <3>1. CASE Answer(n)
      BY <3>1, AnswerInv
    <3>2. CASE Cut /\ (Lose(n) \/ Reconnect(n))
      BY <1>1, <3>2, CutSteps
    <3> QED
      BY <2>1, <3>1, <3>2
  <2>2. ASSUME NEW c \in Callers, ConnectionStep(c) PROVE SubscriptionInv'
    BY <1>1, <2>2, CutSteps DEF ConnectionStep
  <2> QED
    BY <1>2, <1>3, <1>5, <2>1, <2>2 DEF NetworkNext
<1> QED
  BY <1>1, <1>4, <1>5 DEF NetworkInv

LEMMA NetworkInvariant == NetworkSpec => []NetworkInv
  BY NetworkInvInit, NetworkStep, PTL DEF NetworkSpec

-----------------------------------------------------------------------------
\* The variables have their types.
THEOREM NetworkTypeCorrect == NetworkSpec => []NetworkTypeOK
<1>1. NetworkInv => NetworkTypeOK
  BY NetworkTypes DEF NetworkInv, RpcInv, SubscriptionInv, WatchInv
<1> QED
  BY <1>1, NetworkInvariant, PTL

\* One attempt to connect at a time, with the watchers on top: whatever timers fire and however
\* late connect() returns, an attempt that counts is of the current client and promise.
THEOREM OneAttemptHolds == NetworkSpec => []OneAttempt
<1>1. NetworkInv => OneAttempt
  BY DEF NetworkInv, RpcInv
<1> QED
  BY <1>1, NetworkInvariant, PTL

\* Whoever waits for the connection waits for a promise that an attempt under way will settle.
THEOREM WaitersServedHolds == NetworkSpec => []WaitersServed
<1>1. NetworkInv => WaitersServed
  BY DEF NetworkInv, RpcInv
<1> QED
  BY <1>1, NetworkInvariant, PTL

\* An address that is watched stays subscribed while its client is connected, and no
\* subscription outlives its watchers, in whatever order watchers come, leave and fail.
THEOREM SubscribedHolds == NetworkSpec => []SubscribedWhileWatched
<1>1. NetworkInv => SubscribedWhileWatched
  <2> SUFFICES ASSUME NetworkInv, NEW n \in Attempts, NEW a \in Addresses
               PROVE  /\ Subscribed(n, a) <=> base[a] = n
                      /\ base[a] = n => watchers[a] # {} /\ link[n] = "up"
    BY DEF SubscribedWhileWatched
  <2>1. SubscriptionInv
    BY DEF NetworkInv
  <2>2. n # NoClient /\ BaseCurrent /\ SubscribedExactly
    BY <2>1, SubscriptionFacts
  <2> QED
    BY <2>2 DEF BaseCurrent, SubscribedExactly
<1> QED
  BY <1>1, NetworkInvariant, PTL

\* The watchers never disturb the connection below them: seen without them, the network is the
\* connection manager.
THEOREM NetworkImplementsRpc == NetworkSpec => RpcSpec
<1>1. NetworkInit => RpcInit
  BY DEF NetworkInit
<1>2. NetworkInv /\ [NetworkNext]_networkVars => [RpcNext]_rpcVars
  BY NetworkIsRpc DEF NetworkInv
<1> QED
  BY <1>1, <1>2, NetworkInvariant, PTL DEF NetworkSpec, RpcSpec
=============================================================================
