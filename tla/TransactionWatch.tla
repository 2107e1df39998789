-------------------------- MODULE TransactionWatch --------------------------
(***************************************************************************)
(* The watchers of submitted transactions (TransacionReciever), on top of  *)
(* the connection manager: a caller that has a connection registers a      *)
(* watcher for its wallet's address, submits its transaction, and waits    *)
(* for the event that reports it, or for the timer and then the Kaspa API. *)
(*                                                                         *)
(* The watchers of an address share one subscription.  They are counted in *)
(* a static map by address, whatever client they use: the first subscribes *)
(* on its client, the last to leave unsubscribes on its own.  wire[n] are  *)
(* the requests in flight on client n, answered in their order.            *)
(***************************************************************************)
EXTENDS RpcConnection, Sequences

CONSTANTS Addresses,
          AddressOf,  \* the wallet each caller sends from
          SweepCalls, \* callers whose transfer empties the wallet (walletShouldBeEmpty)
          NoClient

ASSUME WatchAssumption ==
    /\ AddressOf \in [Callers -> Addresses]
    /\ SweepCalls \subseteq Callers
    /\ NoClient \notin Attempts

VARIABLES watch,    \* the watcher of each caller; told: its promise is resolved
          watchers, \* addressesToMontior: the callers registered for each address
          poisoned, \* addresses whose entry holds the id of a registration that failed
          wire,     \* per client, the subscription requests in flight
          subs,     \* per client, the addresses the node reports
          base      \* history: the client the map entry of an address was made on, if connected since

watchVars == <<watch, watchers, poisoned, wire, subs, base>>
networkVars == <<rpcVars, watchVars>>

NoWatch == [pc |-> "off", client |-> NoClient, sent |-> FALSE, told |-> FALSE]

NetworkInit ==
    /\ RpcInit
    /\ watch = [c \in Callers |-> NoWatch]
    /\ watchers = [a \in Addresses |-> {}]
    /\ poisoned = {}
    /\ wire = [n \in Attempts |-> <<>>]
    /\ subs = [n \in Attempts |-> {}]
    /\ base = [a \in Addresses |-> NoClient]

WatchIs(c, pc) == watch[c].pc = pc
Registered(a) == watchers[a] # {} \/ a \in poisoned
Request(op, a, c) == [op |-> op, address |-> a, by |-> c]

\* The caller's work ends, with or without an error.
Leave(c) == call' = [call EXCEPT ![c] = NewCall]
SameLinks == UNCHANGED <<latest, trying, settled, link>>

-----------------------------------------------------------------------------
(* registerEventHandlers                                                   *)

\* Somebody watches the address already: no request is made.
RegisterBeside(c) ==
    LET a == AddressOf[c] IN
    /\ CallIs(c, "ready") /\ WatchIs(c, "off") /\ Registered(a)
    /\ watchers' = [watchers EXCEPT ![a] = @ \cup {c}]
    /\ watch' = [watch EXCEPT ![c].pc = "listening", ![c].client = latest]
    /\ UNCHANGED <<poisoned, wire, subs, base, rpcVars>>

\* The first watcher subscribes, and waits for the answer.
RegisterFirst(c) ==
    LET a == AddressOf[c] IN
    /\ CallIs(c, "ready") /\ WatchIs(c, "off") /\ ~Registered(a) /\ Connected
    /\ watchers' = [watchers EXCEPT ![a] = {c}]
    /\ watch' = [watch EXCEPT ![c].pc = "subscribing", ![c].client = latest]
    /\ wire' = [wire EXCEPT ![latest] = Append(@, Request("subscribe", a, c))]
    /\ base' = [base EXCEPT ![a] = latest]
    /\ UNCHANGED <<poisoned, subs, rpcVars>>

\* The connection was lost meanwhile: the call throws, and the id stays in the map.
RegisterFails(c) ==
    LET a == AddressOf[c] IN
    /\ CallIs(c, "ready") /\ WatchIs(c, "off") /\ ~Registered(a) /\ ~Connected
    /\ poisoned' = poisoned \cup {a}
    /\ Leave(c)
    /\ UNCHANGED <<watch, watchers, wire, subs, base>> /\ SameLinks

\* The connection was lost before the answer: the same.
SubscribeFails(c) ==
    LET a == AddressOf[c] IN
    /\ WatchIs(c, "subscribing")
    /\ \A i \in DOMAIN wire[watch[c].client] : wire[watch[c].client][i].by # c
    /\ poisoned' = poisoned \cup {a}
    /\ watchers' = [watchers EXCEPT ![a] = @ \ {c}]
    /\ watch' = [watch EXCEPT ![c] = NoWatch]
    /\ Leave(c)
    /\ UNCHANGED <<wire, subs, base>> /\ SameLinks

\* The node answers the next request of client n.
Answer(n) ==
    LET q == Head(wire[n]) IN
    /\ link[n] = "up" /\ wire[n] # <<>>
    /\ wire' = [wire EXCEPT ![n] = Tail(@)]
    /\ subs' = [subs EXCEPT ![n] = IF q.op = "subscribe" THEN @ \cup {q.address} ELSE @ \ {q.address}]
    /\ watch' = IF q.op = "subscribe" THEN [watch EXCEPT ![q.by].pc = "listening"] ELSE watch
    /\ UNCHANGED <<watchers, poisoned, base, rpcVars>>

-----------------------------------------------------------------------------
(* clearEventListener                                                      *)

Alone(c) == watchers[AddressOf[c]] = {c} /\ AddressOf[c] \notin poisoned

\* Mutant of Clear: the first to leave unsubscribes.
ClearFirst(c, w) ==
    LET a == AddressOf[c]
        n == watch[c].client IN
    /\ watchers' = [watchers EXCEPT ![a] = @ \ {c}]
    /\ wire' = IF c \in watchers[a] /\ link[n] = "up"
               THEN [wire EXCEPT ![n] = Append(@, Request("unsubscribe", a, c))] ELSE wire
    /\ base' = IF Alone(c) THEN [base EXCEPT ![a] = NoClient] ELSE base
    /\ watch' = w
    /\ UNCHANGED <<poisoned, subs>>

\* The caller's id leaves the map; with the last one the entry goes and the address is
\* unsubscribed, on this watcher's client.  A second call finds nothing to do.
Clear(c, w) ==
    LET a == AddressOf[c]
        n == watch[c].client IN
    /\ watchers' = [watchers EXCEPT ![a] = @ \ {c}]
    /\ wire' = IF Alone(c) /\ link[n] = "up"
               THEN [wire EXCEPT ![n] = Append(@, Request("unsubscribe", a, c))] ELSE wire
    /\ base' = IF Alone(c) THEN [base EXCEPT ![a] = NoClient] ELSE base
    /\ watch' = w
    /\ UNCHANGED <<poisoned, subs>>

-----------------------------------------------------------------------------
(* The transaction: submitted, accepted, reported.                         *)

\* Whom a report on client n reaches: the sender itself, and whoever empties a wallet, whatever
\* the transaction and the address.
Listeners(n, c) ==
    {d \in Callers : watch[d].pc \in {"listening", "waiting"} /\ watch[d].client = n
                     /\ (d = c \/ d \in SweepCalls)}

Report(c, a) ==
    watch' = [d \in Callers |->
                LET w == IF d = c THEN [watch[d] EXCEPT !.sent = FALSE] ELSE watch[d] IN
                IF \E n \in Attempts : link[n] = "up" /\ a \in subs[n] /\ d \in Listeners(n, c)
                THEN [w EXCEPT !.told = TRUE] ELSE w]

Submit(c) ==
    /\ WatchIs(c, "listening") /\ Connected
    /\ watch' = [watch EXCEPT ![c].pc = "waiting", ![c].sent = TRUE]
    /\ UNCHANGED <<watchers, poisoned, wire, subs, base, rpcVars>>

\* The node refuses it, or is gone; dispose() in the finally.
SubmitFails(c) ==
    /\ WatchIs(c, "listening")
    /\ Clear(c, [watch EXCEPT ![c] = NoWatch])
    /\ Leave(c) /\ SameLinks

Accept(c) ==
    /\ watch[c].sent
    /\ Report(c, AddressOf[c])
    /\ UNCHANGED <<watchers, poisoned, wire, subs, base, rpcVars>>

\* handleEvent resolves the promise, and clears the listener at once.
HandleEvent(c) ==
    /\ watch[c].told /\ c \in watchers[AddressOf[c]]
    /\ Clear(c, watch)
    /\ UNCHANGED rpcVars

\* waitForTransactionCompletion returns.
Reported(c) ==
    /\ WatchIs(c, "waiting") /\ watch[c].told /\ c \notin watchers[AddressOf[c]]
    /\ watch' = [watch EXCEPT ![c] = NoWatch]
    /\ Leave(c)
    /\ UNCHANGED <<watchers, poisoned, wire, subs, base>> /\ SameLinks

\* The timer of two minutes rejects; then the Kaspa API is asked.
WatchTimeout(c) ==
    /\ WatchIs(c, "waiting") /\ ~watch[c].told
    /\ Clear(c, [watch EXCEPT ![c].pc = "api"])
    /\ UNCHANGED rpcVars

ApiAnswers(c) ==
    /\ WatchIs(c, "api")
    /\ watch' = [watch EXCEPT ![c] = NoWatch]
    /\ Leave(c)
    /\ UNCHANGED <<watchers, poisoned, wire, subs, base>> /\ SameLinks

-----------------------------------------------------------------------------
(* The connection under the watchers.                                      *)

\* On a client that loses its connection, or is disconnected by the caller that made it, the
\* requests in flight are lost, and the node forgets the subscriptions.
Cut ==
    /\ wire' = [n \in Attempts |-> IF link'[n] = "up" THEN wire[n] ELSE <<>>]
    /\ subs' = [n \in Attempts |-> IF link'[n] = "up" THEN subs[n] ELSE {}]
    /\ base' = [a \in Addresses |-> IF base[a] # NoClient /\ link'[base[a]] # "up" THEN NoClient ELSE base[a]]
    /\ UNCHANGED <<watch, watchers, poisoned>>

ConnectionStep(c) == CallSteps(c) /\ Cut

WatchSteps(c) ==
    \/ RegisterBeside(c) \/ RegisterFirst(c) \/ RegisterFails(c) \/ SubscribeFails(c) \/ Submit(c)
    \/ SubmitFails(c) \/ Accept(c) \/ HandleEvent(c) \/ Reported(c) \/ WatchTimeout(c) \/ ApiAnswers(c)

NetworkNext ==
    \/ \E n \in Attempts : Answer(n) \/ (Lose(n) /\ Cut) \/ (Reconnect(n) /\ Cut)
    \/ \E c \in Callers : WatchSteps(c) \/ ConnectionStep(c)
    \/ \E c \in Callers : CallIs(c, "failed") /\ Use(c) /\ UNCHANGED watchVars

NetworkSpec == NetworkInit /\ [][NetworkNext]_networkVars

-----------------------------------------------------------------------------
(* Properties                                                              *)

\* Every variable has its type.
NetworkTypeOK ==
    /\ RpcTypeOK
    /\ watch \in [Callers -> [pc: {"off", "subscribing", "listening", "waiting", "api"},
                              client: Attempts \cup {NoClient}, sent: BOOLEAN, told: BOOLEAN]]
    /\ watchers \in [Addresses -> SUBSET Callers]
    /\ poisoned \subseteq Addresses
    /\ wire \in [Attempts -> Seq([op: {"subscribe", "unsubscribe"}, address: Addresses, by: Callers])]
    /\ subs \in [Attempts -> SUBSET Addresses]
    /\ base \in [Addresses -> Attempts \cup {NoClient}]

\* Whether client n reports address a once the requests in flight are answered: the last of
\* those about a subscribes, or there is none and a is subscribed.
Subscribed(n, a) ==
    LET about == {i \in DOMAIN wire[n] : wire[n][i].address = a} IN
    \/ \E i \in about : wire[n][i].op = "subscribe" /\ \A j \in about : j <= i
    \/ about = {} /\ a \in subs[n]

\* A client reports exactly the addresses somebody watches through the map entries made on it,
\* whoever joins, leaves or fails meanwhile, as long as it stays connected: no watcher that came
\* first or beside others is left without reports by one that leaves, and no subscription
\* outlives the watchers (classes/TransacionReciever.ts:49-95).
SubscribedWhileWatched ==
    \A n \in Attempts, a \in Addresses :
        /\ Subscribed(n, a) <=> base[a] = n
        /\ base[a] = n => watchers[a] # {} /\ link[n] = "up"
=============================================================================
