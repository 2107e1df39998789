---------------------------- MODULE RpcConnection ----------------------------
(***************************************************************************)
(* The connection manager: callers that need the node's RPC connection,    *)
(* the attempts to connect that they share, and the clients these make.    *)
(*                                                                         *)
(* A caller that finds no connection and no attempt under way makes an     *)
(* attempt: a promise, a new client, and a timer on its connect().  Others *)
(* join and wait for the promise current when they come.  Attempt, promise *)
(* and client have the same number; client 0 is the one the service starts *)
(* with.  connect() may return late, when its timer has fired and another  *)
(* attempt is under way, or never.                                         *)
(*                                                                         *)
(* A step is what the event loop does for one event (a call, a timer, an   *)
(* answer), with all continuations of the promises it settles.             *)
(***************************************************************************)
EXTENDS Naturals, FiniteSets

CONSTANTS Callers,      \* users of connectAndDo
          MaxAttempts,  \* bound on the attempts of one behaviour
          Tries         \* waitForConnection calls per connectAndDo (attempts)

ASSUME RpcAssumption == MaxAttempts \in Nat /\ Tries \in Nat \ {0}

Attempts == 0..MaxAttempts

VARIABLES latest,   \* the number of the current promise and client
          trying,   \* isTryingToConnect
          settled,  \* per promise: "pending", "resolved" or "rejected"
          link,     \* per client: "new", "up", "lost" or "closed" (disconnected by us)
          call      \* the local state of each caller

rpcVars == <<latest, trying, settled, link, call>>

\* "connecting" and "checking" belong to the caller's own attempt, number own; "waiting" is
\* for promise number on.
NewCall == [pc |-> "idle", own |-> 0, late |-> FALSE, on |-> 0, tries |-> 0]

RpcInit ==
    /\ latest = 0
    /\ trying = FALSE
    /\ settled = [n \in Attempts |-> "resolved"]
    /\ link = [n \in Attempts |-> "new"]
    /\ call = [c \in Callers |-> NewCall]

Connected == link[latest] = "up"
CallIs(c, pc) == call[c].pc = pc

\* The attempt of caller c still counts.
Attempting(c) == CallIs(c, "checking") \/ (CallIs(c, "connecting") /\ ~call[c].late)

\* The end of waitForConnection: success, or an error that connectAndDo retries a second later.
Succeeded(x) == [NewCall EXCEPT !.pc = "ready"]
Refused(x) == IF x.tries + 1 >= Tries THEN [NewCall EXCEPT !.pc = "failed"]
              ELSE [NewCall EXCEPT !.pc = "retry", !.tries = x.tries + 1]

\* A caller whose awaited promise has the state s, with the current client connected or not.
Outcome(x, s, up) == IF s = "resolved" /\ up THEN Succeeded(x) ELSE Refused(x)

\* Promise number n is settled with state s; the callers of x that wait for it go on, and each
\* of them clears isTryingToConnect.
Woken(x, n) == {c \in Callers : x[c].pc = "waiting" /\ x[c].on = n}

Settle(x, n, s, l) ==
    /\ settled' = [settled EXCEPT ![n] = s]
    /\ call' = [c \in Callers |-> IF c \in Woken(x, n) THEN Outcome(x[c], s, l[latest] = "up") ELSE x[c]]
    /\ trying' = IF Woken(x, n) = {} THEN trying ELSE FALSE
    /\ link' = l
    /\ UNCHANGED latest

\* The caller awaits the current promise, which may be settled already.
Await(x, c, l) ==
    IF settled[latest] = "pending"
    THEN /\ call' = [x EXCEPT ![c].pc = "waiting", ![c].on = latest]
         /\ link' = l
         /\ UNCHANGED <<latest, trying, settled>>
    ELSE Settle([x EXCEPT ![c].pc = "waiting", ![c].on = latest], latest, settled[latest], l)

-----------------------------------------------------------------------------
(* waitForConnection                                                       *)

\* Mutant of Attempt: the flag is not looked at.
AttemptAlways(c) ==
    /\ call[c].pc \in {"idle", "retry"} /\ ~Connected
    /\ latest < MaxAttempts
    /\ latest' = latest + 1
    /\ trying' = TRUE
    /\ settled' = [settled EXCEPT ![latest + 1] = "pending"]
    /\ call' = [call EXCEPT ![c].pc = "connecting", ![c].own = latest + 1]
    /\ UNCHANGED link

\* initPromise, refreshRpc and connect(): the old client is dropped as it is.
Attempt(c) ==
    /\ call[c].pc \in {"idle", "retry"} /\ ~Connected /\ ~trying
    /\ latest < MaxAttempts
    /\ latest' = latest + 1
    /\ trying' = TRUE
    /\ settled' = [settled EXCEPT ![latest + 1] = "pending"]
    /\ call' = [call EXCEPT ![c].pc = "connecting", ![c].own = latest + 1]
    /\ UNCHANGED link

\* Connected, or somebody is trying: wait for what there is.
Join(c) ==
    /\ call[c].pc \in {"idle", "retry"} /\ (Connected \/ trying)
    /\ Await(call, c, link)

\* Mutant of ConnectTimeout: the timer gives up the attempt and rejects nothing.
ConnectTimeoutSilent(c) ==
    /\ CallIs(c, "connecting") /\ ~call[c].late
    /\ call' = [call EXCEPT ![c].late = TRUE]
    /\ UNCHANGED <<latest, trying, settled, link>>

\* The timer of the attempt rejects the current promise, whatever attempt that is of.
ConnectTimeout(c) ==
    /\ CallIs(c, "connecting") /\ ~call[c].late
    /\ Settle([call EXCEPT ![c].late = TRUE], latest, "rejected", link)

\* connect() returns: in time, and the server is asked; or late, and the client is closed and
\* the caller waits for the promise that is current by now.
ConnectReturns(c) ==
    /\ CallIs(c, "connecting")
    /\ IF call[c].late
       THEN Await(call, c, [link EXCEPT ![call[c].own] = "closed"])
       ELSE /\ link' = [link EXCEPT ![call[c].own] = "up"]
            /\ call' = [call EXCEPT ![c].pc = "checking"]
            /\ UNCHANGED <<latest, trying, settled>>

\* The promise of an attempt is settled, and its caller waits for it like the others.
Conclude(c, s, l) == Settle([call EXCEPT ![c].pc = "waiting", ![c].on = latest], latest, s, l)

ConnectThrows(c) ==
    /\ CallIs(c, "connecting")
    /\ IF call[c].late THEN Await(call, c, link) ELSE Conclude(c, "rejected", link)

\* isServerValid, asked of the current client: valid, ...
ServerValid(c) ==
    /\ CallIs(c, "checking") /\ Connected
    /\ Conclude(c, "resolved", link)

\* ... or not in sync, not answering within five seconds, or gone.
ServerInvalid(c) ==
    /\ CallIs(c, "checking")
    /\ Conclude(c, "rejected", [link EXCEPT ![call[c].own] = "closed"])

\* connectAndDo goes on to use the connection, or throws; later the caller comes back.
Use(c) ==
    /\ call[c].pc \in {"ready", "failed"}
    /\ call' = [call EXCEPT ![c] = NewCall]
    /\ UNCHANGED <<latest, trying, settled, link>>

-----------------------------------------------------------------------------
(* The network: a client loses its connection, and may find it again.      *)

Lose(n) ==
    /\ link[n] = "up"
    /\ link' = [link EXCEPT ![n] = "lost"]
    /\ UNCHANGED <<latest, trying, settled, call>>

Reconnect(n) ==
    /\ link[n] = "lost"
    /\ link' = [link EXCEPT ![n] = "up"]
    /\ UNCHANGED <<latest, trying, settled, call>>

-----------------------------------------------------------------------------
CallSteps(c) ==
    \/ Attempt(c) \/ Join(c) \/ ConnectTimeout(c) \/ ConnectReturns(c) \/ ConnectThrows(c)
    \/ ServerValid(c) \/ ServerInvalid(c)

LinkSteps == \E n \in Attempts : Lose(n) \/ Reconnect(n)

RpcNext == LinkSteps \/ \E c \in Callers : CallSteps(c) \/ Use(c)

RpcSpec == RpcInit /\ [][RpcNext]_rpcVars

-----------------------------------------------------------------------------
(* Properties                                                              *)

\* Every variable has its type.
RpcTypeOK ==
    /\ latest \in Attempts
    /\ trying \in BOOLEAN
    /\ settled \in [Attempts -> {"pending", "resolved", "rejected"}]
    /\ link \in [Attempts -> {"new", "up", "lost", "closed"}]
    /\ call \in [Callers -> [pc: {"idle", "connecting", "checking", "waiting", "retry", "ready", "failed"},
                             own: Attempts, late: BOOLEAN, on: Attempts, tries: 0..Tries]]

\* One attempt at a time: it is of the current client and promise, which is pending, and the
\* flag is set for it, although every caller whose wait ends clears the flag; an attempt that
\* timed out neither counts nor has the current client
\* (kaspa-network-connection-manager.service.ts:24-74, 107-125).
OneAttempt ==
    \A c \in Callers : Attempting(c) =>
        /\ \A d \in Callers : Attempting(d) => d = c
        /\ call[c].own = latest /\ settled[latest] = "pending" /\ trying

\* Nobody waits for a promise that nothing will settle: who waits, waits for the current
\* promise, and an attempt is under way that settles it.
WaitersServed ==
    \A c \in Callers : CallIs(c, "waiting") =>
        call[c].on = latest /\ \E d \in Callers : Attempting(d)
=============================================================================
