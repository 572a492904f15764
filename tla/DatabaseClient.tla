--------------------------- MODULE DatabaseClient ---------------------------
(***************************************************************************)
(* The connection of the realtime database client that insertNewUser       *)
(* writes through: FPersistentConnection with its FIRRetryHelper and one   *)
(* FConnection at a time, against a server and a network that answer in    *)
(* order, refuse, drop and go silent.  Every handler runs on one queue, so *)
(* each is one action.                                                     *)
(*                                                                         *)
(* wire holds the requests of the live FConnection whose callback is still *)
(* in requestCBHash, in the order they were sent.  Requests nobody awaits  *)
(* an answer of (unauth, unlisten, stats) are left out.                    *)
(***************************************************************************)
EXTENDS SequencesExt, FiniteSets, Naturals

CONSTANTS
    MaxPuts,        \* bound: writes made in one life of the client
    Transactions,   \* those among them that carry a hash
    Queries,        \* queries that can be listened to
    OnDisconnects,  \* onDisconnect operations
    MaxWire,        \* bound: requests sent by calls while that many are awaited
    MaxStale,       \* bound: answers of overtaken token fetches still to come
    MaxLate,        \* bound: writes travelling on dead connections
    MaxFaults       \* bound: losses, refusals and other failures

ASSUME ClientAssumption ==
    /\ MaxPuts \in Nat /\ MaxWire \in Nat /\ MaxStale \in Nat
    /\ MaxLate \in Nat /\ MaxFaults \in Nat
    /\ Transactions \subseteq 1..MaxPuts

VARIABLES
    connectionState,        \* FPersistentConnection's state
    realtime,               \* state of its FConnection, "nil" without one
    interruptReasons,       \* why it must not connect
    scheduledRetry,         \* the retry helper's block: "none", or how it fetches
    fetch,                  \* the latest token fetch, until its callback runs
    staleFetches,           \* overtaken fetches whose callback is still to run
    authToken,              \* whether there is a token
    forceAuthTokenRefresh,
    wire,
    putCounter,             \* index of the next write
    outstandingPuts,        \* indexes of the writes not answered yet
    sent,                   \* transactions among them that have been sent
    putsToAck,              \* answers held back until all listens are answered
    listens,                \* queries listened to
    unackedListensCount,
    onDisconnectQueue,      \* onDisconnect operations waiting for a connection
    completions,            \* history: what each write's block was called with
    late,                   \* network: writes on dead connections
    stored,                 \* server: the write it holds, 0 for none
    faults                  \* failures so far

connectionVars == <<connectionState, realtime, interruptReasons, scheduledRetry>>
tokenVars == <<fetch, staleFetches, authToken, forceAuthTokenRefresh>>
putVars == <<putCounter, outstandingPuts, sent, putsToAck, completions>>
listenVars == <<listens, unackedListensCount>>
worldVars == <<late, stored, faults>>

vars == <<connectionVars, tokenVars, putVars, listenVars, worldVars, wire,
          onDisconnectQueue>>

Puts == 1..MaxPuts

Reasons == {"WaitingForOpen", "RepoInterrupt", "ServerKill"}

\* flag: of an auth request, whether to restore the state after it; of a listen
\* request, whether its query is still the one listened to.
Request ==
    [what : {"auth"}, id : {0}, flag : BOOLEAN, status : {"sent", "ok", "failed"}]
    \cup [what : {"put"}, id : Puts, flag : {TRUE}, status : {"sent", "ok", "failed"}]
    \cup [what : {"listen"}, id : Queries, flag : BOOLEAN, status : {"sent", "ok", "failed"}]
    \cup [what : {"onDisconnect"}, id : OnDisconnects, flag : {TRUE},
          status : {"sent", "ok"}]

\* What a write's block is called with; a transaction cut off by a lost
\* connection is withdrawn like a purged write.
Completion == {"ok", "failed", "withdrawn"}

TypeOK ==
    /\ connectionState \in
            {"Disconnected", "GettingToken", "Connecting", "Authenticating", "Connected"}
    /\ realtime \in {"nil", "CONNECTING", "CONNECTED"}
    /\ interruptReasons \subseteq Reasons
    /\ scheduledRetry \in {"none", "plain", "forced"}
    /\ fetch \in {"none", "plain", "forced"}
    /\ staleFetches \in 0..MaxStale
    /\ authToken \in BOOLEAN
    /\ forceAuthTokenRefresh \in BOOLEAN
    /\ wire \in Seq(Request)
    /\ putCounter \in 1..(MaxPuts + 1)
    /\ outstandingPuts \subseteq 1..(putCounter - 1)
    /\ sent \subseteq Transactions
    /\ putsToAck \in Seq([put : Puts, status : {"ok", "failed"}])
    /\ listens \subseteq Queries
    /\ unackedListensCount \in Nat
    /\ onDisconnectQueue \in Seq(OnDisconnects)
    /\ completions \in [Puts -> Seq(Completion)]
    /\ late \subseteq Puts
    /\ stored \in 0..MaxPuts
    /\ faults \in 0..MaxFaults

\* init, which interrupts the connection until it is opened.
Init ==
    /\ connectionState = "Disconnected"
    /\ realtime = "nil"
    /\ interruptReasons = {"WaitingForOpen"}
    /\ scheduledRetry = "none"
    /\ fetch = "none"
    /\ staleFetches = 0
    /\ authToken = FALSE
    /\ forceAuthTokenRefresh = FALSE
    /\ wire = << >>
    /\ putCounter = 1
    /\ outstandingPuts = {}
    /\ sent = {}
    /\ putsToAck = << >>
    /\ listens = {}
    /\ unackedListensCount = 0
    /\ onDisconnectQueue = << >>
    /\ completions = [p \in Puts |-> << >>]
    /\ late = {}
    /\ stored = 0
    /\ faults = 0

-----------------------------------------------------------------------------
(* Helpers.                                                                *)

connected == connectionState \in {"Authenticating", "Connected"}

canSendWrites == connectionState = "Connected"

Req(what, id, flag) == [what |-> what, id |-> id, flag |-> flag, status |-> "sent"]

\* The orders in which a dictionary with the keys S may enumerate them.
Enumerations(S) == {f \in [1..Cardinality(S) -> S] : IsInjective(f)}

\* The numbers of S in ascending order.
InOrder(S) == CHOOSE f \in Enumerations(S) : \A i, j \in DOMAIN f : i < j => f[i] < f[j]

\* The write requests in an order of the dictionary's own.
PutRequestsUnsorted(S) ==
    [i \in 1..Cardinality(S) |-> Req("put", InOrder(S)[Cardinality(S) + 1 - i], TRUE)]

\* The write requests, by index.
PutRequests(S) == [i \in 1..Cardinality(S) |-> Req("put", InOrder(S)[i], TRUE)]

\* Something fails, within the bound.
Fault == faults < MaxFaults /\ faults' = faults + 1

\* The requests rest, now that query q is no longer listened to.
Forget(rest, q) ==
    [i \in DOMAIN rest |->
        IF rest[i].what = "listen" /\ rest[i].id = q
        THEN [rest[i] EXCEPT !.flag = FALSE] ELSE rest[i]]

\* The blocks of the held answers are called, in order.
ackPuts ==
    [p \in Puts |->
        LET held == {k \in DOMAIN putsToAck : putsToAck[k].put = p}
        IN  completions[p]
                \o [i \in 1..Cardinality(held) |-> putsToAck[InOrder(held)[i]].status]]

\* Schedules a retry although something keeps the client off line.
TryScheduleReconnectAlways(reasons, force) ==
    /\ scheduledRetry' = IF force THEN "forced" ELSE "plain"
    /\ forceAuthTokenRefresh' = FALSE

tryScheduleReconnect(reasons, force) ==
    IF reasons = {}
    THEN /\ scheduledRetry' = IF force THEN "forced" ELSE "plain"
         /\ forceAuthTokenRefresh' = FALSE
    ELSE /\ UNCHANGED scheduledRetry
         /\ forceAuthTokenRefresh' = force

cancelSentTransactions ==
    LET gone == outstandingPuts \cap sent IN
    /\ outstandingPuts' = outstandingPuts \ gone
    /\ sent' = sent \ gone
    /\ completions' = [p \in Puts |->
            IF p \in gone THEN Append(completions[p], "withdrawn") ELSE completions[p]]

\* Writes sent on the connection that just died may still arrive.
Straggle ==
    \E S \in SUBSET {wire[i].id : i \in {j \in DOMAIN wire :
                            wire[j].what = "put" /\ wire[j].status = "sent"}} :
        /\ Cardinality(late \cup S) <= MaxLate
        /\ late' = late \cup S

\* The connection closes without the count of awaited listens being reset.
OnDisconnectKeepsCount(reasons, force) ==
    /\ connectionState' = "Disconnected"
    /\ realtime' = "nil"
    /\ wire' = << >>
    /\ cancelSentTransactions
    /\ Straggle
    /\ tryScheduleReconnect(reasons, force)
    /\ UNCHANGED <<unackedListensCount, putCounter, putsToAck, listens, onDisconnectQueue>>

\* FConnection closes: FPersistentConnection's onDisconnect, with the interrupt
\* reasons and the force flag of that moment.
onDisconnect(reasons, force) ==
    /\ connectionState' = "Disconnected"
    /\ realtime' = "nil"
    /\ wire' = << >>
    /\ unackedListensCount' = 0
    /\ cancelSentTransactions
    /\ Straggle
    /\ tryScheduleReconnect(reasons, force)
    /\ UNCHANGED <<putCounter, putsToAck, listens, onDisconnectQueue>>

\* The writes are forgotten.
RestoreListens(rest) ==
    /\ \E order \in Enumerations(listens) :
        wire' = rest \o [i \in DOMAIN order |-> Req("listen", order[i], TRUE)]
    /\ unackedListensCount' = unackedListensCount + Cardinality(listens)
    /\ UNCHANGED <<sent, onDisconnectQueue>>

\* All listens, then all writes by index, then the onDisconnect operations are
\* sent behind the requests rest.
restoreState(rest) ==
    /\ \E order \in Enumerations(listens) :
        wire' = rest
            \o [i \in DOMAIN order |-> Req("listen", order[i], TRUE)]
            \o PutRequests(outstandingPuts)
            \o [i \in DOMAIN onDisconnectQueue |->
                    Req("onDisconnect", onDisconnectQueue[i], TRUE)]
    /\ unackedListensCount' = unackedListensCount + Cardinality(listens)
    /\ sent' = sent \cup (outstandingPuts \cap Transactions)
    /\ onDisconnectQueue' = << >>

-----------------------------------------------------------------------------
(* Calls from the app and the rest of the SDK.                             *)

\* Room for one more request.
Room == connected => Len(wire) < MaxWire

\* putData, mergeData.
putInternal ==
    /\ putCounter <= MaxPuts /\ Room
    /\ putCounter' = putCounter + 1
    /\ outstandingPuts' = outstandingPuts \cup {putCounter}
    /\ IF canSendWrites
       THEN /\ wire' = Append(wire, Req("put", putCounter, TRUE))
            /\ sent' = sent \cup ({putCounter} \cap Transactions)
       ELSE UNCHANGED <<wire, sent>>
    /\ UNCHANGED <<connectionVars, tokenVars, listenVars, worldVars, putsToAck,
                   completions, onDisconnectQueue>>

listen(q) ==
    /\ q \notin listens /\ Room
    /\ listens' = listens \cup {q}
    /\ IF connected
       THEN /\ wire' = Append(wire, Req("listen", q, TRUE))
            /\ unackedListensCount' = unackedListensCount + 1
       ELSE UNCHANGED <<wire, unackedListensCount>>
    /\ UNCHANGED <<connectionVars, tokenVars, putVars, worldVars, onDisconnectQueue>>

\* The client no longer waits for the answer of a listen it gives up.
UnlistenStopsWaiting(q) ==
    /\ q \in listens
    /\ listens' = listens \ {q}
    /\ wire' = Forget(wire, q)
    /\ unackedListensCount' = IF unackedListensCount > 0 THEN unackedListensCount - 1 ELSE 0
    /\ UNCHANGED <<connectionVars, tokenVars, putVars, worldVars, onDisconnectQueue>>

\* By the app, or because the server revokes the listen.
unlisten(q) ==
    /\ q \in listens
    /\ listens' = listens \ {q}
    /\ wire' = Forget(wire, q)
    /\ UNCHANGED <<connectionVars, tokenVars, putVars, worldVars,
                   unackedListensCount, onDisconnectQueue>>

onDisconnectOperation(o) ==
    /\ Room
    /\ o \notin ToSet(onDisconnectQueue)
    /\ \A i \in DOMAIN wire : wire[i].what = "onDisconnect" => wire[i].id # o
    /\ IF canSendWrites
       THEN /\ wire' = Append(wire, Req("onDisconnect", o, TRUE))
            /\ UNCHANGED onDisconnectQueue
       ELSE /\ onDisconnectQueue' = Append(onDisconnectQueue, o)
            /\ UNCHANGED wire
    /\ UNCHANGED <<connectionVars, tokenVars, putVars, listenVars, worldVars>>

\* Every outstanding write is given up; held answers are passed on first.
purgeOutstandingWrites ==
    /\ completions' = [p \in Puts |->
            IF p \in outstandingPuts THEN Append(ackPuts[p], "withdrawn") ELSE ackPuts[p]]
    /\ putsToAck' = << >>
    /\ outstandingPuts' = {}
    /\ sent' = {}
    /\ onDisconnectQueue' = << >>
    /\ UNCHANGED <<connectionVars, tokenVars, listenVars, worldVars, putCounter, wire>>

\* The user's token changed (TRUE), or the user signed out (FALSE).
refreshAuthToken(token) ==
    /\ Room
    /\ authToken' = token
    /\ wire' = IF connected /\ token THEN Append(wire, Req("auth", 0, FALSE)) ELSE wire
    /\ UNCHANGED <<connectionVars, fetch, staleFetches, forceAuthTokenRefresh, putVars,
                   listenVars, worldVars, onDisconnectQueue>>

\* Closes the connection, or cancels the attempt to make one.
interruptForReason(reason) ==
    /\ interruptReasons' = interruptReasons \cup {reason}
    /\ IF realtime # "nil"
       THEN onDisconnect(interruptReasons', forceAuthTokenRefresh)
       ELSE /\ connectionState' = "Disconnected"
            /\ scheduledRetry' = "none"
            /\ UNCHANGED <<realtime, wire, unackedListensCount, outstandingPuts, sent,
                           completions, late, forceAuthTokenRefresh, putCounter,
                           putsToAck, listens, onDisconnectQueue>>

\* A resumption that forgets to connect.
ResumeWaits(reason) ==
    /\ interruptReasons' = interruptReasons \ {reason}
    /\ UNCHANGED <<scheduledRetry, forceAuthTokenRefresh>>

resumeForReason(reason) ==
    /\ interruptReasons' = interruptReasons \ {reason}
    /\ IF connectionState = "Disconnected"
       THEN tryScheduleReconnect(interruptReasons', forceAuthTokenRefresh)
       ELSE UNCHANGED <<scheduledRetry, forceAuthTokenRefresh>>

\* FRepo's interrupt, behind goOffline.
goOffline ==
    /\ interruptForReason("RepoInterrupt")
    /\ UNCHANGED <<fetch, staleFetches, authToken, stored, faults>>

\* FRepo's deferredInit opens the connection, goOnline resumes it.
Resume(reason) ==
    /\ reason \in interruptReasons
    /\ resumeForReason(reason)
    /\ UNCHANGED <<connectionState, realtime, fetch, staleFetches, authToken,
                   putVars, listenVars, worldVars, wire, onDisconnectQueue>>

open == Resume("WaitingForOpen")

goOnline == Resume("RepoInterrupt")

\* The app comes to the foreground, or the network becomes reachable.
enteringForeground ==
    /\ connectionState = "Disconnected"
    /\ tryScheduleReconnect(interruptReasons, forceAuthTokenRefresh)
    /\ UNCHANGED <<connectionState, realtime, interruptReasons, fetch, staleFetches,
                   authToken, putVars, listenVars, worldVars, wire,
                   onDisconnectQueue>>

-----------------------------------------------------------------------------
(* Connecting.                                                             *)

\* The retry helper's timer fires and its block fetches a token.
RetryFires ==
    /\ scheduledRetry # "none"
    /\ fetch # "none" => staleFetches < MaxStale
    /\ connectionState' = "GettingToken"
    /\ scheduledRetry' = "none"
    /\ fetch' = scheduledRetry
    /\ staleFetches' = IF fetch = "none" THEN staleFetches ELSE staleFetches + 1
    /\ UNCHANGED <<realtime, interruptReasons, authToken, forceAuthTokenRefresh,
                   putVars, listenVars, worldVars, wire, onDisconnectQueue>>

\* A failed fetch is not tried again.
FetchFailsForGood ==
    /\ fetch # "none"
    /\ Fault
    /\ fetch' = "none"
    /\ connectionState' = "Disconnected"
    /\ UNCHANGED <<realtime, interruptReasons, scheduledRetry, staleFetches, authToken,
                   forceAuthTokenRefresh, putVars, listenVars, wire,
                   onDisconnectQueue, late, stored>>

\* The callback of the latest fetch, with an error.
FetchFails ==
    /\ fetch # "none"
    /\ Fault
    /\ fetch' = "none"
    /\ connectionState' = "Disconnected"
    /\ tryScheduleReconnect(interruptReasons, forceAuthTokenRefresh)
    /\ UNCHANGED <<realtime, interruptReasons, staleFetches, authToken,
                   putVars, listenVars, wire, onDisconnectQueue, late, stored>>

\* openNetworkConnectionWithToken.
openNetworkConnection(token) ==
    /\ authToken' = token
    /\ connectionState' = "Connecting"
    /\ realtime' = "CONNECTING"

\* The callback of the latest fetch, with a token or with nil: the connection
\* may have been interrupted meanwhile.
FetchReturns(token) ==
    /\ fetch # "none"
    /\ fetch' = "none"
    /\ IF connectionState = "GettingToken"
       THEN openNetworkConnection(token)
       ELSE UNCHANGED <<authToken, connectionState, realtime>>
    /\ UNCHANGED <<interruptReasons, scheduledRetry, staleFetches, forceAuthTokenRefresh,
                   putVars, listenVars, worldVars, wire, onDisconnectQueue>>

\* The callback of an overtaken fetch is not told from that of the latest.
StaleFetchOpens ==
    /\ staleFetches > 0
    /\ staleFetches' = staleFetches - 1
    /\ IF connectionState = "GettingToken"
       THEN openNetworkConnection(TRUE)
       ELSE UNCHANGED <<authToken, connectionState, realtime>>
    /\ UNCHANGED <<interruptReasons, scheduledRetry, fetch, forceAuthTokenRefresh,
                   putVars, listenVars, worldVars, wire, onDisconnectQueue>>

\* The callback of an overtaken fetch does nothing.
StaleFetchReturns ==
    /\ staleFetches > 0
    /\ staleFetches' = staleFetches - 1
    /\ UNCHANGED <<connectionVars, fetch, authToken, forceAuthTokenRefresh,
                   putVars, listenVars, worldVars, wire, onDisconnectQueue>>

\* FConnection's onHandshake, onReady and restoreAuth.
onHandshake ==
    /\ realtime = "CONNECTING"
    /\ realtime' = "CONNECTED"
    /\ IF authToken
       THEN /\ connectionState' = "Authenticating"
            /\ wire' = Append(wire, Req("auth", 0, TRUE))
            /\ UNCHANGED <<unackedListensCount, sent, onDisconnectQueue>>
       ELSE /\ connectionState' = "Connected"
            /\ restoreState(wire)
    /\ UNCHANGED <<interruptReasons, scheduledRetry, tokenVars, worldVars, listens,
                   putCounter, outstandingPuts, putsToAck, completions>>

-----------------------------------------------------------------------------
(* The connection: the server (external) and the answers that come back.   *)

\* The server decides the oldest request it has not decided.  It may turn it
\* down (for an onDisconnect operation that makes no difference to the client);
\* turning a token down counts as a failure.
ServerDecides(i) ==
    /\ i \in DOMAIN wire
    /\ wire[i].status = "sent"
    /\ \A j \in 1..(i - 1) : wire[j].status # "sent"
    /\ \E status \in IF wire[i].what = "onDisconnect" THEN {"ok"} ELSE {"ok", "failed"} :
        /\ wire' = [wire EXCEPT ![i].status = status]
        /\ stored' = IF wire[i].what = "put" /\ status = "ok" THEN wire[i].id ELSE stored
        /\ IF wire[i].what = "auth" /\ status = "failed" THEN Fault ELSE UNCHANGED faults
    /\ UNCHANGED <<connectionVars, tokenVars, putVars, listenVars, onDisconnectQueue, late>>

\* A write arrives after its connection died; its answer goes nowhere.
LateWrite(p) ==
    /\ p \in late
    /\ late' = late \ {p}
    /\ stored' \in {stored, p}
    /\ UNCHANGED <<connectionVars, tokenVars, putVars, listenVars, wire,
                   onDisconnectQueue, faults>>

\* The next answer, about a request of this kind, with one of these results.
Answer(what, results) ==
    /\ wire # << >>
    /\ Head(wire).what = what
    /\ Head(wire).status \in results

\* The token is good.
AuthSucceeds ==
    /\ Answer("auth", {"ok"})
    /\ connectionState' = "Connected"
    /\ IF Head(wire).flag
       THEN restoreState(Tail(wire))
       ELSE /\ wire' = Tail(wire)
            /\ UNCHANGED <<unackedListensCount, sent, onDisconnectQueue>>
    /\ UNCHANGED <<realtime, interruptReasons, scheduledRetry, tokenVars, worldVars,
                   listens, putCounter, outstandingPuts, putsToAck, completions>>

\* The token is turned down, or revoked later: close and fetch a new one.
TokenTurnedDown ==
    /\ authToken' = FALSE
    /\ onDisconnect(interruptReasons, TRUE)
    /\ UNCHANGED <<interruptReasons, fetch, staleFetches, stored>>

AuthFails ==
    /\ Answer("auth", {"failed"})
    /\ TokenTurnedDown
    /\ UNCHANGED faults

onAuthRevoked ==
    /\ realtime = "CONNECTED"
    /\ Fault
    /\ TokenTurnedDown

\* A held answer leaves its write among the outstanding ones.
PutAnsweredKeepsHeld ==
    LET p == Head(wire).id IN
    /\ Answer("put", {"ok", "failed"})
    /\ wire' = Tail(wire)
    /\ IF p \in outstandingPuts /\ unackedListensCount = 0
       THEN /\ outstandingPuts' = outstandingPuts \ {p}
            /\ completions' = [completions EXCEPT ![p] = Append(@, Head(wire).status)]
            /\ UNCHANGED putsToAck
       ELSE /\ putsToAck' = IF p \in outstandingPuts
                            THEN Append(putsToAck, [put |-> p, status |-> Head(wire).status])
                            ELSE putsToAck
            /\ UNCHANGED <<outstandingPuts, completions>>
    /\ sent' = sent \ {p}
    /\ UNCHANGED <<connectionVars, tokenVars, listenVars, worldVars, putCounter,
                   onDisconnectQueue>>

\* sendPut's callback.  The answer about a write that was given up meanwhile is
\* ignored; the block waits while a listen is not answered.
PutAnswered ==
    LET p == Head(wire).id IN
    /\ Answer("put", {"ok", "failed"})
    /\ wire' = Tail(wire)
    /\ outstandingPuts' = outstandingPuts \ {p}
    /\ sent' = sent \ {p}
    /\ CASE p \notin outstandingPuts -> UNCHANGED <<completions, putsToAck>>
         [] p \in outstandingPuts /\ unackedListensCount = 0 ->
                /\ completions' = [completions EXCEPT ![p] = Append(@, Head(wire).status)]
                /\ UNCHANGED putsToAck
         [] OTHER ->
                /\ putsToAck' = Append(putsToAck, [put |-> p, status |-> Head(wire).status])
                /\ UNCHANGED completions
    /\ UNCHANGED <<connectionVars, tokenVars, listenVars, worldVars, putCounter,
                   onDisconnectQueue>>

\* sendListen's callback: the query of a refused listen is no longer listened
\* to; with the last answer the held blocks are called.
ListenAnswered ==
    LET q == Head(wire).id
        refused == Head(wire).flag /\ Head(wire).status = "failed"
    IN
    /\ Answer("listen", {"ok", "failed"})
    /\ listens' = IF refused THEN listens \ {q} ELSE listens
    /\ wire' = IF refused THEN Forget(Tail(wire), q) ELSE Tail(wire)
    /\ unackedListensCount' = unackedListensCount - 1
    /\ IF unackedListensCount = 1
       THEN completions' = ackPuts /\ putsToAck' = << >>
       ELSE UNCHANGED <<completions, putsToAck>>
    /\ UNCHANGED <<connectionVars, tokenVars, worldVars, putCounter, outstandingPuts, sent,
                   onDisconnectQueue>>

OnDisconnectAnswered ==
    /\ Answer("onDisconnect", {"ok"})
    /\ wire' = Tail(wire)
    /\ UNCHANGED <<connectionVars, tokenVars, putVars, listenVars, worldVars,
                   onDisconnectQueue>>

\* The socket closes, never opens in time, or the server resets it.
ConnectionLost ==
    /\ realtime # "nil"
    /\ Fault
    /\ onDisconnect(interruptReasons, forceAuthTokenRefresh)
    /\ UNCHANGED <<interruptReasons, fetch, staleFetches, authToken, stored>>

\* The server shuts the connection down for good.
onKill ==
    /\ realtime # "nil"
    /\ Fault
    /\ interruptForReason("ServerKill")
    /\ UNCHANGED <<fetch, staleFetches, authToken, stored>>

-----------------------------------------------------------------------------

Deliver ==
    \/ AuthSucceeds \/ AuthFails \/ PutAnswered \/ ListenAnswered \/ OnDisconnectAnswered

Next ==
    \/ putInternal \/ purgeOutstandingWrites
    \/ \E q \in Queries : listen(q) \/ unlisten(q)
    \/ \E o \in OnDisconnects : onDisconnectOperation(o)
    \/ \E token \in BOOLEAN : refreshAuthToken(token) \/ FetchReturns(token)
    \/ open \/ goOffline \/ goOnline \/ enteringForeground
    \/ RetryFires \/ FetchFails \/ StaleFetchReturns \/ onHandshake
    \/ \E i \in DOMAIN wire : ServerDecides(i)
    \/ \E p \in late : LateWrite(p)
    \/ Deliver
    \/ onAuthRevoked \/ ConnectionLost \/ onKill

Spec == Init /\ [][Next]_vars

(* The client's queue runs what is due, fetches and handshakes come to an  *)
(* end, and the server answers.  Failures are limited by their bound, so   *)
(* that in the end the network lasts long enough.                          *)
Fairness ==
    /\ WF_vars(open)
    /\ WF_vars(RetryFires)
    /\ WF_vars(StaleFetchReturns)
    /\ WF_vars(\E token \in BOOLEAN : FetchReturns(token))
    /\ WF_vars(onHandshake)
    /\ WF_vars(\E i \in DOMAIN wire : ServerDecides(i))
    /\ WF_vars(Deliver)

FairSpec == Spec /\ Fairness

-----------------------------------------------------------------------------
(* Properties.                                                             *)

\* The client's assertions about its own state hold in every handler: a retry
\* fires and a connection is made ready only in the state it was planned in,
\* and data is sent on a connection that is up, however interruptions, overtaken
\* token fetches and failures interleave.
StatesAgree ==
    /\ scheduledRetry # "none" => connectionState = "Disconnected"
    /\ connectionState = "GettingToken" => fetch # "none"
    /\ fetch # "none" => connectionState \in {"GettingToken", "Disconnected"}
    /\ realtime = "CONNECTING" <=> connectionState = "Connecting"
    /\ realtime = "CONNECTED" <=> connected

\* A client that may connect never rests: disconnected, a retry is scheduled;
\* authenticating, the answer that restores the state is awaited.
NeverStranded ==
    /\ interruptReasons = {} /\ connectionState = "Disconnected" => scheduledRetry # "none"
    /\ connectionState = "Authenticating" =>
            \E i \in DOMAIN wire : wire[i].what = "auth" /\ wire[i].flag

\* While a reason to stay off line is there, nothing is connected, nothing is
\* scheduled, and no answer is awaited.
InterruptedIsOffline ==
    interruptReasons # {} =>
        connectionState = "Disconnected" /\ scheduledRetry = "none" /\ wire = << >>

\* Once connected, nothing is left behind: every outstanding write awaits its
\* answer on this connection and no onDisconnect operation still waits.
ConnectedMeansSent ==
    connectionState = "Connected" =>
        /\ \A p \in outstandingPuts :
                \E i \in DOMAIN wire : wire[i].what = "put" /\ wire[i].id = p
        /\ onDisconnectQueue = << >>

\* The count that holds answers back is the number of listens awaited, so it
\* never goes below zero and never stays above it.
UnackedListensAwaited ==
    unackedListensCount = Cardinality({i \in DOMAIN wire : wire[i].what = "listen"})

\* A write's block is called once at most, and never for a write the client
\* still keeps or holds the answer of.
AnsweredOnce ==
    \A p \in Puts :
        Len(completions[p])
            + (IF p \in outstandingPuts THEN 1 ELSE 0)
            + Cardinality({k \in DOMAIN putsToAck : putsToAck[k].put = p}) <= 1

\* A write is decided in the end, unless something keeps the client off line.
WritesDecided ==
    \A p \in Puts : p \in outstandingPuts ~> (p \notin outstandingPuts \/ interruptReasons # {})

\* A committed write is reported: its answer is not held back for ever on a
\* connection that lasts, with nothing listened to that could be awaited.
CommitIsReported ==
    \A p \in Puts :
        ~<>[](/\ canSendWrites /\ listens = {}
              /\ [put |-> p, status |-> "ok"] \in ToSet(putsToAck))

-----------------------------------------------------------------------------
(* The queue of writes the rest of the program relies on.                  *)

\* The server's decision on write p that has not come back yet.
Decision(p) ==
    IF \E i \in DOMAIN wire : wire[i].what = "put" /\ wire[i].id = p /\ wire[i].status # "sent"
    THEN wire[CHOOSE i \in DOMAIN wire : wire[i].what = "put" /\ wire[i].id = p].status
    ELSE "pending"

Outcome(p) ==
    CASE completions[p] # << >> ->
            completions[p][1]
      [] completions[p] = << >> /\ \E k \in DOMAIN putsToAck : putsToAck[k].put = p ->
            putsToAck[CHOOSE k \in DOMAIN putsToAck : putsToAck[k].put = p].status
      [] OTHER -> "none"

\* The writes that wait, with the decisions on their way.
Undecided == [p \in outstandingPuts |-> Decision(p)]

\* The writes of which the server may still get a copy nobody waits for.
Travelling ==
    late \cup
        {p \in Puts \ outstandingPuts :
            \E i \in DOMAIN wire :
                wire[i].what = "put" /\ wire[i].id = p /\ wire[i].status = "sent"}

Outcomes == [p \in Puts |-> Outcome(p)]

Queue == INSTANCE WriteQueue WITH
    Writes <- Puts, queue <- Undecided, late <- Travelling, outcome <- Outcomes

\* All of the connecting, authenticating, restoring and losing comes to the one
\* queue in which a write waits until the server has decided it.
QueueSpec == Queue!Spec
=============================================================================
