------------------------ MODULE DatabaseClientProofs ------------------------
(***************************************************************************)
(* Proofs about DatabaseClient's connection: however interruptions, token  *)
(* fetches, retries, answers and failures interleave, and for any bounds,  *)
(* its states agree, the client never rests while it may connect, its      *)
(* count of unanswered listens is right, every outstanding write is on a   *)
(* connection that is up, a write is answered once, and all of it is the   *)
(* queue of writes that WriteQueue describes.                              *)
(***************************************************************************)
EXTENDS DatabaseClient, SequenceTheorems, FiniteSetTheorems, FunctionTheorems,
        WellFoundedInduction, TLAPS

\* What is needed of the types: the numbers and sequences of the writes and
\* listens play no part in it.
ControlTypes ==
    /\ connectionState \in
            {"Disconnected", "GettingToken", "Connecting", "Authenticating", "Connected"}
    /\ realtime \in {"nil", "CONNECTING", "CONNECTED"}

AnyRequest ==
    [what : {"auth", "put", "listen", "onDisconnect"},
     id : {0} \cup Puts \cup Queries \cup OnDisconnects,
     flag : BOOLEAN, status : {"sent", "ok", "failed"}]

\* The request that restores the state when it is answered.
RestoreAwaited(w) == \E i \in DOMAIN w : w[i].what = "auth" /\ w[i].flag

\* Nothing is sent on a connection that is not ready; while authenticating, what
\* was sent holds the request that restores the state.
WireAgrees ==
    /\ realtime # "CONNECTED" => wire = << >>
    /\ connectionState = "Authenticating" => wire \in Seq(AnyRequest) /\ RestoreAwaited(wire)

\* The inductive invariant of the theorems about the connection.
IInv == ControlTypes /\ StatesAgree /\ InterruptedIsOffline /\ NeverStranded /\ WireAgrees

LEMMA InitIInv == Init => IInv
  BY DEF Init, IInv, ControlTypes, StatesAgree, InterruptedIsOffline, NeverStranded,
     WireAgrees, connected

-----------------------------------------------------------------------------
(* The wire while authenticating.                                          *)

LEMMA RequestTypes ==
    /\ \A flag \in BOOLEAN : Req("auth", 0, flag) \in AnyRequest
    /\ \A q \in Queries : Req("listen", q, TRUE) \in AnyRequest
  BY DEF Req, AnyRequest

\* One more request.
LEMMA AppendAwaits ==
    ASSUME NEW w \in Seq(AnyRequest), RestoreAwaited(w), NEW r \in AnyRequest
    PROVE  Append(w, r) \in Seq(AnyRequest) /\ RestoreAwaited(Append(w, r))
<1>1. /\ Append(w, r) \in Seq(AnyRequest)
      /\ DOMAIN Append(w, r) = 1..(Len(w) + 1) /\ DOMAIN w = 1..Len(w) /\ Len(w) \in Nat
      /\ \A i \in 1..Len(w) : Append(w, r)[i] = w[i]
  OBVIOUS
<1>2. PICK i \in DOMAIN w : w[i].what = "auth" /\ w[i].flag
  BY DEF RestoreAwaited
<1>3. i \in DOMAIN Append(w, r) /\ Append(w, r)[i] = w[i]
  BY <1>1, <1>2
<1> QED  BY <1>1, <1>2, <1>3 DEF RestoreAwaited

\* The answer of another kind of request is taken off.
LEMMA TailAwaits ==
    ASSUME NEW w \in Seq(AnyRequest), RestoreAwaited(w), w # << >>, Head(w).what # "auth"
    PROVE  Tail(w) \in Seq(AnyRequest) /\ RestoreAwaited(Tail(w))
<1>1. /\ Tail(w) \in Seq(AnyRequest)
      /\ DOMAIN Tail(w) = 1..(Len(w) - 1) /\ DOMAIN w = 1..Len(w) /\ Len(w) \in Nat
      /\ \A i \in 1..(Len(w) - 1) : Tail(w)[i] = w[i + 1]
      /\ Head(w) = w[1]
  OBVIOUS
<1>2. PICK i \in DOMAIN w : w[i].what = "auth" /\ w[i].flag
  BY DEF RestoreAwaited
<1>3. i # 1
  BY <1>1, <1>2
<1>4. i - 1 \in DOMAIN Tail(w) /\ Tail(w)[i - 1] = w[i]
  BY <1>1, <1>2, <1>3
<1> QED  BY <1>1, <1>2, <1>4 DEF RestoreAwaited

\* A query is no longer listened to.
LEMMA ForgetAwaits ==
    ASSUME NEW w \in Seq(AnyRequest), RestoreAwaited(w), NEW q
    PROVE  Forget(w, q) \in Seq(AnyRequest) /\ RestoreAwaited(Forget(w, q))
<1>1. DOMAIN w = 1..Len(w) /\ Len(w) \in Nat /\ \A i \in DOMAIN w : w[i] \in AnyRequest
  OBVIOUS
<1>2. \A i \in DOMAIN w : [w[i] EXCEPT !.flag = FALSE] \in AnyRequest
  BY <1>1 DEF AnyRequest
<1>3. /\ DOMAIN Forget(w, q) = 1..Len(w)
      /\ \A i \in DOMAIN w : Forget(w, q)[i] \in AnyRequest
      /\ \A i \in DOMAIN w : w[i].what = "auth" => Forget(w, q)[i] = w[i]
  BY <1>1, <1>2 DEF Forget
<1>4. Forget(w, q) \in Seq(AnyRequest)
  BY <1>1, <1>2 DEF Forget
<1> QED  BY <1>1, <1>3, <1>4 DEF RestoreAwaited

\* The server decides a request.
LEMMA DecisionAwaits ==
    ASSUME NEW w \in Seq(AnyRequest), RestoreAwaited(w), NEW i \in DOMAIN w,
           NEW status \in {"ok", "failed"}
    PROVE  /\ [w EXCEPT ![i].status = status] \in Seq(AnyRequest)
           /\ RestoreAwaited([w EXCEPT ![i].status = status])
<1> DEFINE v == [w EXCEPT ![i].status = status]
<1>1. DOMAIN w = 1..Len(w) /\ Len(w) \in Nat /\ \A j \in DOMAIN w : w[j] \in AnyRequest
  OBVIOUS
<1>2. /\ [w[i] EXCEPT !.status = status] \in AnyRequest
      /\ [w[i] EXCEPT !.status = status].what = w[i].what
      /\ [w[i] EXCEPT !.status = status].flag = w[i].flag
  BY <1>1 DEF AnyRequest
<1>3. /\ DOMAIN v = 1..Len(w)
      /\ v[i] = [w[i] EXCEPT !.status = status]
      /\ \A j \in DOMAIN w \ {i} : v[j] = w[j]
  BY <1>1
<1>4. v \in Seq(AnyRequest)
  BY <1>1, <1>2, ExceptSeq
<1>5. PICK j \in DOMAIN w : w[j].what = "auth" /\ w[j].flag
  BY DEF RestoreAwaited
<1>6. v[j].what = "auth" /\ v[j].flag
  BY <1>2, <1>3, <1>5
<1> QED  BY <1>1, <1>3, <1>4, <1>5, <1>6 DEF RestoreAwaited

-----------------------------------------------------------------------------
(* The steps.                                                              *)

\* A step that only touches the wire.
LEMMA WireStep ==
    ASSUME IInv, UNCHANGED <<connectionVars, fetch>>,
           wire = << >> /\ realtime # "CONNECTED" => wire' = << >>,
           connectionState = "Authenticating" =>
                wire' \in Seq(AnyRequest) /\ RestoreAwaited(wire')
    PROVE  IInv'
<1>1. UNCHANGED <<connectionState, realtime, interruptReasons, scheduledRetry, fetch>>
  BY DEF connectionVars
<1>2. ControlTypes' /\ StatesAgree'
  BY <1>1 DEF IInv, ControlTypes, StatesAgree, connected
<1>3. InterruptedIsOffline'
  BY <1>1 DEF IInv, InterruptedIsOffline, StatesAgree, connected
<1>4. WireAgrees'
  BY <1>1 DEF IInv, WireAgrees
<1>5. NeverStranded'
  BY <1>1 DEF IInv, NeverStranded, RestoreAwaited
<1> QED  BY <1>2, <1>3, <1>4, <1>5 DEF IInv

\* The connection closes.
LEMMA CloseStep ==
    ASSUME IInv, realtime # "nil", NEW force, onDisconnect(interruptReasons', force),
           fetch' = fetch
    PROVE  IInv'
<1>1. scheduledRetry = "none" /\ fetch = "none"
  BY DEF IInv, StatesAgree, ControlTypes, connected
<1>2. /\ connectionState' = "Disconnected" /\ realtime' = "nil" /\ wire' = << >>
      /\ IF interruptReasons' = {} THEN scheduledRetry' = IF force THEN "forced" ELSE "plain"
                                   ELSE scheduledRetry' = scheduledRetry
  BY DEF onDisconnect, tryScheduleReconnect
<1>3. scheduledRetry' # "none" <=> interruptReasons' = {}
  BY <1>1, <1>2
<1> QED
  BY <1>1, <1>2, <1>3 DEF IInv, ControlTypes, StatesAgree, InterruptedIsOffline,
     NeverStranded, WireAgrees, connected

LEMMA InterruptStep ==
    ASSUME IInv, NEW reason, interruptForReason(reason), fetch' = fetch
    PROVE  IInv'
<1>1. CASE realtime # "nil"
  BY <1>1, CloseStep DEF interruptForReason
<1>2. CASE realtime = "nil"
  <2>1. /\ interruptReasons' # {}
        /\ connectionState' = "Disconnected" /\ scheduledRetry' = "none"
        /\ realtime' = "nil" /\ wire' = wire
    BY <1>2 DEF interruptForReason
  <2>2. wire' = << >> /\ (fetch' # "none" => connectionState \in {"GettingToken", "Disconnected"})
    BY <1>2, <2>1 DEF IInv, WireAgrees, StatesAgree
  <2> QED
    BY <2>1, <2>2 DEF IInv, ControlTypes, StatesAgree, InterruptedIsOffline,
       NeverStranded, WireAgrees, connected
<1> QED  BY <1>1, <1>2

\* A retry is scheduled, or something keeps the client off line.
LEMMA RetryStep ==
    ASSUME IInv, realtime = "nil", connectionState' = "Disconnected", realtime' = "nil",
           wire' = wire, NEW force, tryScheduleReconnect(interruptReasons', force),
           interruptReasons' # {} => interruptReasons # {} \/ connectionState # "Disconnected"
    PROVE  IInv'
<1>1. wire' = << >>
  BY DEF IInv, WireAgrees
<1>2. scheduledRetry' # "none" <=> interruptReasons' = {}
  <2>1. CASE interruptReasons' = {}
    BY <2>1 DEF tryScheduleReconnect
  <2>2. CASE interruptReasons' # {}
    BY <2>2 DEF tryScheduleReconnect, IInv, InterruptedIsOffline, StatesAgree
  <2> QED  BY <2>1, <2>2
<1> QED
  BY <1>1, <1>2 DEF IInv, ControlTypes, StatesAgree, InterruptedIsOffline,
     NeverStranded, WireAgrees, connected

LEMMA ResumeStep == ASSUME IInv, NEW reason, Resume(reason) PROVE IInv'
<1>1. /\ interruptReasons # {} /\ connectionState = "Disconnected" /\ realtime = "nil"
      /\ interruptReasons' \subseteq interruptReasons
      /\ UNCHANGED <<connectionState, realtime, wire, fetch>>
  BY DEF Resume, resumeForReason, IInv, InterruptedIsOffline, StatesAgree, ControlTypes, connected
<1>2. tryScheduleReconnect(interruptReasons', forceAuthTokenRefresh)
  BY <1>1 DEF Resume, resumeForReason
<1> QED  BY <1>1, <1>2, RetryStep

LEMMA EnteringForegroundStep == IInv /\ enteringForeground => IInv'
<1> SUFFICES ASSUME IInv, enteringForeground PROVE IInv'
  OBVIOUS
<1>1. /\ connectionState = "Disconnected" /\ realtime = "nil"
      /\ UNCHANGED <<connectionState, realtime, interruptReasons, wire, fetch>>
      /\ tryScheduleReconnect(interruptReasons', forceAuthTokenRefresh)
  BY DEF enteringForeground, IInv, StatesAgree, ControlTypes, connected
<1> QED  BY <1>1, RetryStep

LEMMA RetryFiresStep == IInv /\ RetryFires => IInv'
<1> SUFFICES ASSUME IInv, RetryFires PROVE IInv'
  OBVIOUS
<1>1. /\ connectionState = "Disconnected" /\ realtime = "nil" /\ interruptReasons = {}
      /\ wire = << >>
  BY DEF RetryFires, IInv, StatesAgree, ControlTypes, connected, InterruptedIsOffline, WireAgrees
<1>2. /\ connectionState' = "GettingToken" /\ scheduledRetry' = "none" /\ fetch' # "none"
      /\ UNCHANGED <<realtime, interruptReasons, wire>>
  BY DEF RetryFires
<1> QED
  BY <1>1, <1>2 DEF IInv, ControlTypes, StatesAgree, InterruptedIsOffline,
     NeverStranded, WireAgrees, connected

LEMMA FetchFailsStep == IInv /\ FetchFails => IInv'
<1> SUFFICES ASSUME IInv, FetchFails PROVE IInv'
  OBVIOUS
<1>1. /\ connectionState \in {"GettingToken", "Disconnected"} /\ realtime = "nil"
      /\ connectionState' = "Disconnected" /\ fetch' = "none"
      /\ UNCHANGED <<realtime, interruptReasons, wire>>
      /\ tryScheduleReconnect(interruptReasons', forceAuthTokenRefresh)
  BY DEF FetchFails, IInv, StatesAgree, ControlTypes, connected
<1> QED  BY <1>1, RetryStep

LEMMA FetchReturnsStep == ASSUME IInv, NEW token, FetchReturns(token) PROVE IInv'
<1>1. fetch' = "none" /\ UNCHANGED <<interruptReasons, scheduledRetry, wire>>
  BY DEF FetchReturns
<1>2. CASE connectionState = "GettingToken"
  <2>1. /\ connectionState' = "Connecting" /\ realtime' = "CONNECTING"
        /\ scheduledRetry = "none" /\ interruptReasons = {} /\ wire = << >>
    BY <1>2 DEF FetchReturns, openNetworkConnection, IInv, StatesAgree, ControlTypes,
       connected, InterruptedIsOffline, WireAgrees
  <2> QED
    BY <1>1, <2>1 DEF IInv, ControlTypes, StatesAgree, InterruptedIsOffline,
       NeverStranded, WireAgrees, connected
<1>3. CASE connectionState # "GettingToken"
  <2>1. /\ UNCHANGED <<connectionState, realtime>>
        /\ connectionState = "Disconnected" /\ realtime = "nil"
    BY <1>3 DEF FetchReturns, IInv, StatesAgree, ControlTypes, connected
  <2> QED
    BY <1>1, <2>1 DEF IInv, ControlTypes, StatesAgree, InterruptedIsOffline,
       NeverStranded, WireAgrees, connected
<1> QED  BY <1>2, <1>3

LEMMA HandshakeStep == IInv /\ onHandshake => IInv'
<1> SUFFICES ASSUME IInv, onHandshake PROVE IInv'
  OBVIOUS
<1>1. /\ connectionState = "Connecting" /\ wire = << >>
      /\ interruptReasons = {} /\ scheduledRetry = "none" /\ fetch = "none"
      /\ realtime' = "CONNECTED"
      /\ UNCHANGED <<interruptReasons, scheduledRetry, fetch>>
  BY DEF onHandshake, tokenVars, IInv, StatesAgree, ControlTypes, connected,
     InterruptedIsOffline, WireAgrees
<1>2. CASE authToken
  <2>1. connectionState' = "Authenticating" /\ wire' = Append(wire, Req("auth", 0, TRUE))
    BY <1>2 DEF onHandshake
  <2> DEFINE r == Req("auth", 0, TRUE)
  <2>2. r \in AnyRequest
    BY RequestTypes
  <2> HIDE DEF r
  <2>3. Append(<< >>, r) = <<r>>
    OBVIOUS
  <2>4. wire' = <<r>>
    BY <1>1, <2>1, <2>3 DEF r
  <2>5. wire' \in Seq(AnyRequest) /\ wire'[1] = r /\ DOMAIN wire' = 1..1
    BY <2>2, <2>4
  <2>6. RestoreAwaited(wire')
    BY <2>5 DEF RestoreAwaited, Req, r
  <2> QED
    BY <1>1, <2>1, <2>5, <2>6 DEF IInv, ControlTypes, StatesAgree, InterruptedIsOffline,
       NeverStranded, WireAgrees, RestoreAwaited, connected
<1>3. CASE ~authToken
  <2>1. connectionState' = "Connected"
    BY <1>3 DEF onHandshake
  <2> QED
    BY <1>1, <2>1 DEF IInv, ControlTypes, StatesAgree, InterruptedIsOffline,
       NeverStranded, WireAgrees, connected
<1> QED  BY <1>2, <1>3

\* An answer comes on a connection that is up, of a client nothing keeps off line.
LEMMA AnswerComes ==
    ASSUME IInv, wire # << >>
    PROVE  /\ realtime = "CONNECTED" /\ connectionState \in {"Authenticating", "Connected"}
           /\ interruptReasons = {} /\ scheduledRetry = "none" /\ fetch = "none"
  BY DEF IInv, StatesAgree, ControlTypes, connected, InterruptedIsOffline, WireAgrees

LEMMA AuthSucceedsStep == IInv /\ AuthSucceeds => IInv'
<1> SUFFICES ASSUME IInv, AuthSucceeds PROVE IInv'
  OBVIOUS
<1>1. /\ wire # << >> /\ connectionState' = "Connected"
      /\ UNCHANGED <<realtime, interruptReasons, scheduledRetry, fetch>>
  BY DEF AuthSucceeds, Answer, tokenVars
<1> QED
  BY <1>1, AnswerComes DEF IInv, ControlTypes, StatesAgree, InterruptedIsOffline,
     NeverStranded, WireAgrees, connected

\* An answer of another kind leaves the wire, and for a refused listen its query
\* is forgotten.
LEMMA OtherAnswerStep ==
    ASSUME IInv, UNCHANGED <<connectionVars, fetch>>, wire # << >>, Head(wire).what # "auth",
           NEW q, wire' \in {Tail(wire), Forget(Tail(wire), q)}
    PROVE  IInv'
<1>1. realtime = "CONNECTED"
  BY AnswerComes
<1>2. connectionState = "Authenticating" =>
        /\ Tail(wire) \in Seq(AnyRequest) /\ RestoreAwaited(Tail(wire))
        /\ Forget(Tail(wire), q) \in Seq(AnyRequest) /\ RestoreAwaited(Forget(Tail(wire), q))
  BY TailAwaits, ForgetAwaits DEF IInv, WireAgrees
<1> QED  BY <1>1, <1>2, WireStep

LEMMA DeliverStep == IInv /\ Deliver => IInv'
<1> SUFFICES ASSUME IInv, Deliver PROVE IInv'
  OBVIOUS
<1>1. CASE AuthSucceeds
  BY <1>1, AuthSucceedsStep
<1>2. CASE AuthFails
  <2>1. /\ wire # << >> /\ onDisconnect(interruptReasons, TRUE)
        /\ UNCHANGED <<interruptReasons, fetch>>
    BY <1>2 DEF AuthFails, Answer, TokenTurnedDown
  <2> QED  BY <2>1, AnswerComes, CloseStep
<1>3. CASE PutAnswered
  <2>1. wire # << >> /\ Head(wire).what = "put" /\ wire' = Tail(wire)
    BY <1>3 DEF PutAnswered, Answer
  <2> QED  BY <1>3, <2>1, OtherAnswerStep DEF PutAnswered, tokenVars
<1>4. CASE ListenAnswered
  <2>1. /\ wire # << >> /\ Head(wire).what = "listen"
        /\ wire' \in {Tail(wire), Forget(Tail(wire), Head(wire).id)}
    BY <1>4 DEF ListenAnswered, Answer
  <2> QED  BY <1>4, <2>1, OtherAnswerStep DEF ListenAnswered, tokenVars
<1>5. CASE OnDisconnectAnswered
  <2>1. wire # << >> /\ Head(wire).what = "onDisconnect" /\ wire' = Tail(wire)
    BY <1>5 DEF OnDisconnectAnswered, Answer
  <2> QED  BY <1>5, <2>1, OtherAnswerStep DEF OnDisconnectAnswered, tokenVars
<1> QED  BY <1>1, <1>2, <1>3, <1>4, <1>5 DEF Deliver

\* Calls of the app and steps of the server that touch nothing but the wire.
LEMMA QuietStep ==
    ASSUME IInv,
           \/ putInternal \/ purgeOutstandingWrites
           \/ \E q \in Queries : listen(q) \/ unlisten(q)
           \/ \E o \in OnDisconnects : onDisconnectOperation(o)
           \/ \E token \in BOOLEAN : refreshAuthToken(token)
           \/ StaleFetchReturns
           \/ \E i \in DOMAIN wire : ServerDecides(i)
           \/ \E p \in late : LateWrite(p)
    PROVE  IInv'
<1>1. connectionState = "Authenticating" =>
        /\ wire \in Seq(AnyRequest) /\ RestoreAwaited(wire) /\ realtime = "CONNECTED" /\ connected
  BY DEF IInv, WireAgrees, StatesAgree, connected
<1>2. realtime = "CONNECTED" <=> connected
  BY DEF IInv, StatesAgree
<1>3. CASE putInternal
  <2>1. UNCHANGED <<connectionVars, fetch>> /\ (connectionState # "Connected" => wire' = wire)
    BY <1>3 DEF putInternal, tokenVars, canSendWrites
  <2> QED  BY <1>1, <1>2, <2>1, WireStep DEF connected
<1>4. CASE purgeOutstandingWrites
  BY <1>1, <1>4, WireStep DEF purgeOutstandingWrites, tokenVars
<1>5. ASSUME NEW q \in Queries, listen(q) PROVE IInv'
  <2>1. UNCHANGED <<connectionVars, fetch>>
    BY <1>5 DEF listen, tokenVars
  <2>2. wire' = IF connected THEN Append(wire, Req("listen", q, TRUE)) ELSE wire
    BY <1>5 DEF listen
  <2> QED  BY <1>1, <1>2, <2>1, <2>2, WireStep, AppendAwaits, RequestTypes
<1>6. ASSUME NEW q \in Queries, unlisten(q) PROVE IInv'
  <2>1. wire' = Forget(wire, q) /\ UNCHANGED <<connectionVars, fetch>>
    BY <1>6 DEF unlisten, tokenVars
  <2>2. wire = << >> => wire' = << >>
    BY <2>1 DEF Forget
  <2> QED  BY <1>1, <2>1, <2>2, WireStep, ForgetAwaits
<1>7. ASSUME NEW o \in OnDisconnects, onDisconnectOperation(o) PROVE IInv'
  <2>1. UNCHANGED <<connectionVars, fetch>> /\ (connectionState # "Connected" => wire' = wire)
    BY <1>7 DEF onDisconnectOperation, tokenVars, canSendWrites
  <2> QED  BY <1>1, <1>2, <2>1, WireStep DEF connected
<1>8. ASSUME NEW token \in BOOLEAN, refreshAuthToken(token) PROVE IInv'
  <2>1. /\ UNCHANGED <<connectionVars, fetch>>
        /\ wire' = IF connected /\ token THEN Append(wire, Req("auth", 0, FALSE)) ELSE wire
    BY <1>8 DEF refreshAuthToken
  <2> QED  BY <1>1, <1>2, <2>1, WireStep, AppendAwaits, RequestTypes
<1>9. CASE StaleFetchReturns
  BY <1>1, <1>9, WireStep DEF StaleFetchReturns
<1>10. ASSUME NEW i \in DOMAIN wire, ServerDecides(i) PROVE IInv'
  <2>1. PICK status \in {"ok", "failed"} : wire' = [wire EXCEPT ![i].status = status]
    BY <1>10 DEF ServerDecides
  <2>2. wire # << >> /\ UNCHANGED <<connectionVars, fetch>>
    BY <1>10 DEF ServerDecides, tokenVars
  <2> QED  BY <1>1, <2>1, <2>2, WireStep, DecisionAwaits
<1>11. ASSUME NEW p \in late, LateWrite(p) PROVE IInv'
  BY <1>1, <1>11, WireStep DEF LateWrite, tokenVars
<1> QED  BY <1>3, <1>4, <1>5, <1>6, <1>7, <1>8, <1>9, <1>10, <1>11

LEMMA NextIInv == IInv /\ [Next]_vars => IInv'
<1> SUFFICES ASSUME IInv, [Next]_vars PROVE IInv'
  OBVIOUS
<1>1. ASSUME NEW token \in BOOLEAN, FetchReturns(token) PROVE IInv'
  BY <1>1, FetchReturnsStep
<1>2. CASE open \/ goOnline
  BY <1>2, ResumeStep DEF open, goOnline
<1>3. CASE goOffline
  BY <1>3, InterruptStep DEF goOffline
<1>4. CASE enteringForeground
  BY <1>4, EnteringForegroundStep
<1>5. CASE RetryFires \/ FetchFails \/ onHandshake
  BY <1>5, RetryFiresStep, FetchFailsStep, HandshakeStep
<1>6. CASE Deliver
  BY <1>6, DeliverStep
<1>7. CASE onAuthRevoked
  <2>1. /\ realtime # "nil" /\ onDisconnect(interruptReasons, TRUE)
        /\ UNCHANGED <<interruptReasons, fetch>>
    BY <1>7 DEF onAuthRevoked, TokenTurnedDown
  <2> QED  BY <2>1, CloseStep
<1>8. CASE ConnectionLost
  <2>1. /\ realtime # "nil" /\ onDisconnect(interruptReasons, forceAuthTokenRefresh)
        /\ UNCHANGED <<interruptReasons, fetch>>
    BY <1>8 DEF ConnectionLost
  <2> QED  BY <2>1, CloseStep
<1>9. CASE onKill
  BY <1>9, InterruptStep DEF onKill
<1>10. CASE UNCHANGED vars
  <2>1. UNCHANGED <<connectionState, realtime, interruptReasons, scheduledRetry, fetch, wire>>
    BY <1>10 DEF vars, connectionVars, tokenVars
  <2> QED
    BY <2>1 DEF IInv, ControlTypes, StatesAgree, InterruptedIsOffline,
       NeverStranded, WireAgrees, connected
<1> QED
  BY <1>1, <1>2, <1>3, <1>4, <1>5, <1>6, <1>7, <1>8, <1>9, <1>10, QuietStep DEF Next

\* The inductive invariant: FPersistentConnection's states, retries and wire agree
\* in every step.
THEOREM Invariant == Spec => []IInv
<1> QED  BY InitIInv, NextIInv, PTL DEF Spec

-----------------------------------------------------------------------------
(* The theorems.                                                           *)

\* The assertions of the client's handlers about their own state hold.
THEOREM StatesAlwaysAgree == Spec => []StatesAgree
<1>1. IInv => StatesAgree  BY DEF IInv
<1> QED  BY <1>1, Invariant, PTL

\* A client that may connect has a retry, a fetch or a connection under way.
THEOREM ClientNeverStranded == Spec => []NeverStranded
<1>1. IInv => NeverStranded  BY DEF IInv
<1> QED  BY <1>1, Invariant, PTL

\* An interrupted client is off line and does nothing to get on line.
THEOREM InterruptionHolds == Spec => []InterruptedIsOffline
<1>1. IInv => InterruptedIsOffline
  BY DEF IInv
<1> QED  BY <1>1, Invariant, PTL

-----------------------------------------------------------------------------
(* The listens awaited: counting requests.                                 *)

Requests(I) ==
    [what : {"auth", "put", "listen", "onDisconnect"}, id : I,
     flag : BOOLEAN, status : {"sent", "ok", "failed"}]

\* A sequence of requests, about anything.
IsWire(w) == \E I : w \in Seq(Requests(I))

Listening(w) == {i \in DOMAIN w : w[i].what = "listen"}

LEMMA RequestsWiden ==
    ASSUME NEW I, NEW J
    PROVE  \A w \in Seq(Requests(I)) : w \in Seq(Requests(I \cup J))
<1>1. Requests(I) \subseteq Requests(I \cup J)
  BY DEF Requests
<1> QED  BY <1>1, SeqMonotonic

LEMMA ReqFits ==
    ASSUME NEW what \in {"auth", "put", "listen", "onDisconnect"}, NEW id, NEW flag \in BOOLEAN
    PROVE  Req(what, id, flag) \in Requests({id}) /\ Req(what, id, flag).what = what
  BY DEF Req, Requests

\* The places of the listens are finitely many.
LEMMA ListeningFinite ==
    ASSUME NEW w, IsWire(w)
    PROVE  IsFiniteSet(Listening(w)) /\ Cardinality(Listening(w)) \in Nat
<1>1. DOMAIN w = 1..Len(w) /\ Len(w) \in Nat
  BY DEF IsWire
<1>2. IsFiniteSet(1..Len(w))
  BY <1>1, FS_Interval
<1>3. Listening(w) \in SUBSET (1..Len(w))
  BY <1>1 DEF Listening
<1> QED  BY <1>2, <1>3, FS_Subset, FS_CardinalityType

\* One more request.
LEMMA AppendCounts ==
    ASSUME NEW w, IsWire(w), NEW id, NEW r \in Requests({id})
    PROVE  /\ IsWire(Append(w, r))
           /\ r.what = "listen" =>
                Cardinality(Listening(Append(w, r))) = Cardinality(Listening(w)) + 1
           /\ r.what # "listen" =>
                Cardinality(Listening(Append(w, r))) = Cardinality(Listening(w))
<1>1. PICK I : w \in Seq(Requests(I))
  BY DEF IsWire
<1>2. w \in Seq(Requests(I \cup {id})) /\ r \in Requests(I \cup {id})
  BY <1>1, RequestsWiden DEF Requests
<1>3. /\ Append(w, r) \in Seq(Requests(I \cup {id}))
      /\ DOMAIN w = 1..Len(w) /\ Len(w) \in Nat
      /\ DOMAIN Append(w, r) = 1..(Len(w) + 1)
      /\ \A i \in 1..Len(w) : Append(w, r)[i] = w[i]
      /\ Append(w, r)[Len(w) + 1] = r
  BY <1>2
<1>4. IsWire(Append(w, r))
  BY <1>3 DEF IsWire
<1>5. Len(w) + 1 \notin Listening(w)
  BY <1>3 DEF Listening
<1>6. CASE r.what = "listen"
  <2>1. Listening(Append(w, r)) = Listening(w) \cup {Len(w) + 1}
    BY <1>3, <1>6 DEF Listening
  <2> QED  BY <1>4, <1>5, <1>6, <2>1, ListeningFinite, FS_AddElement
<1>7. CASE r.what # "listen"
  <2>1. Listening(Append(w, r)) = Listening(w)
    BY <1>3, <1>7 DEF Listening
  <2> QED  BY <1>4, <1>7, <2>1, ListeningFinite
<1> QED  BY <1>6, <1>7

\* The oldest request is taken off.
LEMMA TailCounts ==
    ASSUME NEW w, IsWire(w), w # << >>
    PROVE  /\ IsWire(Tail(w))
           /\ Cardinality(Listening(Tail(w))) =
                Cardinality(Listening(w)) - IF Head(w).what = "listen" THEN 1 ELSE 0
<1>1. PICK I : w \in Seq(Requests(I))
  BY DEF IsWire
<1>2. /\ Tail(w) \in Seq(Requests(I))
      /\ DOMAIN w = 1..Len(w) /\ Len(w) \in Nat \ {0}
      /\ DOMAIN Tail(w) = 1..(Len(w) - 1)
      /\ \A i \in 1..(Len(w) - 1) : Tail(w)[i] = w[i + 1]
      /\ Head(w) = w[1]
  BY <1>1
<1>3. IsWire(Tail(w))
  BY <1>2 DEF IsWire
<1> DEFINE rest == Listening(w) \ {1}
           shift == [i \in Listening(Tail(w)) |-> i + 1]
<1>4. IsFiniteSet(Listening(Tail(w))) /\ IsFiniteSet(Listening(w))
  BY <1>3, ListeningFinite
<1>5. shift \in Bijection(Listening(Tail(w)), rest)
  <2>1. \A i \in Listening(Tail(w)) : i \in Nat /\ i + 1 \in rest
    BY <1>2 DEF Listening
  <2>2. \A i, j \in Listening(Tail(w)) : shift[i] = shift[j] => i = j
    BY <2>1
  <2>3. ASSUME NEW j \in rest PROVE \E i \in Listening(Tail(w)) : shift[i] = j
    <3>1. j - 1 \in Listening(Tail(w)) /\ j \in Nat
      BY <1>2 DEF Listening
    <3>2. shift[j - 1] = j
      BY <3>1
    <3> QED  BY <3>1, <3>2
  <2>4. shift \in [Listening(Tail(w)) -> rest]
    BY <2>1
  <2> QED  BY <2>2, <2>3, <2>4, Fun_IsBij
<1>6. Cardinality(rest) = Cardinality(Listening(Tail(w)))
  <2> HIDE DEF rest, shift
  <2> QED  BY <1>4, <1>5, FS_Bijection DEF ExistsBijection
<1>7. Cardinality(rest) = Cardinality(Listening(w)) - IF 1 \in Listening(w) THEN 1 ELSE 0
  BY <1>4, FS_RemoveElement, FS_CardinalityType
<1>8. 1 \in Listening(w) <=> Head(w).what = "listen"
  BY <1>2 DEF Listening
<1> QED  BY <1>3, <1>6, <1>7, <1>8

\* A query is no longer listened to.
LEMMA ForgetCounts ==
    ASSUME NEW w, IsWire(w), NEW q
    PROVE  IsWire(Forget(w, q)) /\ Listening(Forget(w, q)) = Listening(w)
<1>1. PICK I : w \in Seq(Requests(I))
  BY DEF IsWire
<1>2. DOMAIN w = 1..Len(w) /\ Len(w) \in Nat /\ \A i \in DOMAIN w : w[i] \in Requests(I)
  BY <1>1
<1>3. \A i \in DOMAIN w : /\ [w[i] EXCEPT !.flag = FALSE] \in Requests(I)
                          /\ [w[i] EXCEPT !.flag = FALSE].what = w[i].what
  BY <1>2 DEF Requests
<1>4. /\ DOMAIN Forget(w, q) = 1..Len(w)
      /\ \A i \in DOMAIN w : Forget(w, q)[i] \in Requests(I) /\ Forget(w, q)[i].what = w[i].what
  BY <1>2, <1>3 DEF Forget
<1>5. Forget(w, q) \in Seq(Requests(I))
  BY <1>2, <1>3 DEF Forget
<1> QED  BY <1>2, <1>4, <1>5 DEF IsWire, Listening

\* The server decides a request.
LEMMA DecisionCounts ==
    ASSUME NEW w, IsWire(w), NEW i \in DOMAIN w, NEW status \in {"ok", "failed"}
    PROVE  /\ IsWire([w EXCEPT ![i].status = status])
           /\ Listening([w EXCEPT ![i].status = status]) = Listening(w)
<1> DEFINE v == [w EXCEPT ![i].status = status]
<1>1. PICK I : w \in Seq(Requests(I))
  BY DEF IsWire
<1>2. DOMAIN w = 1..Len(w) /\ Len(w) \in Nat /\ \A j \in DOMAIN w : w[j] \in Requests(I)
  BY <1>1
<1>3. /\ [w[i] EXCEPT !.status = status] \in Requests(I)
      /\ [w[i] EXCEPT !.status = status].what = w[i].what
  BY <1>2 DEF Requests
<1>4. /\ DOMAIN v = 1..Len(w)
      /\ v[i] = [w[i] EXCEPT !.status = status]
      /\ \A j \in DOMAIN w \ {i} : v[j] = w[j]
  BY <1>2
<1>5. v \in Seq(Requests(I))
  BY <1>1, <1>2, <1>3, ExceptSeq
<1>6. Listening(v) = Listening(w)
  BY <1>2, <1>3, <1>4 DEF Listening
<1> QED  BY <1>5, <1>6 DEF IsWire

AllOf(what, v) == \A i \in DOMAIN v : v[i].what = what

\* Requests of one kind, whatever they are about, are a wire of their own.
LEMMA Block ==
    ASSUME NEW n \in Nat, NEW what \in {"auth", "put", "listen", "onDisconnect"}, NEW d
    PROVE  LET v == [i \in 1..n |-> Req(what, d[i], TRUE)]
           IN  IsWire(v) /\ Len(v) = n /\ AllOf(what, v)
<1> DEFINE v == [i \in 1..n |-> Req(what, d[i], TRUE)]
           R == Requests({d[i] : i \in 1..n})
<1>1. \A i \in 1..n : Req(what, d[i], TRUE) \in R /\ Req(what, d[i], TRUE).what = what
  BY DEF Req, Requests
<1>2. \A i \in 1..n : v[i].what = what
  BY <1>1
<1> HIDE DEF R
<1>3. v \in [1..n -> R] /\ DOMAIN v = 1..n
  BY <1>1
<1> HIDE DEF v
<1>4. v \in Seq(R) /\ Len(v) = n
  BY <1>3
<1> QED  BY <1>2, <1>3, <1>4 DEF IsWire, AllOf, R, v

\* Listens, or requests of another kind, are sent behind w.
LEMMA BlockCounts ==
    ASSUME NEW w, IsWire(w), NEW v, IsWire(v)
    PROVE  /\ IsWire(w \o v)
           /\ AllOf("listen", v) =>
                Cardinality(Listening(w \o v)) = Cardinality(Listening(w)) + Len(v)
           /\ AllOf("put", v) \/ AllOf("onDisconnect", v) =>
                Cardinality(Listening(w \o v)) = Cardinality(Listening(w))
<1>1. PICK I : w \in Seq(Requests(I))
  BY DEF IsWire
<1>2. PICK J : v \in Seq(Requests(J))
  BY DEF IsWire
<1> DEFINE n == Len(v)
<1>3. w \in Seq(Requests(I \cup J))
  BY <1>1, RequestsWiden
<1>4. v \in Seq(Requests(J \cup I)) /\ J \cup I = I \cup J
  BY <1>2, RequestsWiden
<1>5. /\ w \o v \in Seq(Requests(I \cup J))
      /\ DOMAIN w = 1..Len(w) /\ Len(w) \in Nat
      /\ DOMAIN v = 1..n /\ n \in Nat
      /\ DOMAIN (w \o v) = 1..(Len(w) + n)
      /\ \A i \in 1..Len(w) : (w \o v)[i] = w[i]
      /\ \A i \in 1..n : (w \o v)[Len(w) + i] = v[i]
  <2> DEFINE R == Requests(I \cup J)
  <2>1. w \in Seq(R) /\ v \in Seq(R)
    BY <1>3, <1>4
  <2> HIDE DEF R
  <2>2. /\ w \o v \in Seq(R)
        /\ Len(w \o v) = Len(w) + Len(v)
        /\ Len(w) \in Nat /\ Len(v) \in Nat
        /\ \A i \in 1..(Len(w) + Len(v)) :
                (w \o v)[i] = IF i <= Len(w) THEN w[i] ELSE v[i - Len(w)]
    BY <2>1, ConcatProperties
  <2>3. /\ DOMAIN w = 1..Len(w) /\ DOMAIN v = 1..Len(v)
        /\ DOMAIN (w \o v) = 1..Len(w \o v)
    BY <2>1, <2>2
  <2>4. \A i \in 1..Len(w) : (w \o v)[i] = w[i]
    BY <2>2
  <2>5. \A i \in 1..Len(v) : (w \o v)[Len(w) + i] = v[i]
    BY <2>2
  <2> QED  BY <2>2, <2>3, <2>4, <2>5 DEF R
<1> HIDE DEF n
<1>6. IsWire(w \o v)
  BY <1>5 DEF IsWire
<1>7. \A i \in (Len(w) + 1)..(Len(w) + n) : i - Len(w) \in 1..n /\ (w \o v)[i] = v[i - Len(w)]
  <2> SUFFICES ASSUME NEW i \in (Len(w) + 1)..(Len(w) + n)
               PROVE  i - Len(w) \in 1..n /\ (w \o v)[i] = v[i - Len(w)]
    OBVIOUS
  <2>1. i - Len(w) \in 1..n /\ i = Len(w) + (i - Len(w))
    BY <1>5
  <2> QED  BY <1>5, <2>1
<1>8. ASSUME AllOf("listen", v)
      PROVE  Cardinality(Listening(w \o v)) = Cardinality(Listening(w)) + n
  <2> DEFINE new == (Len(w) + 1)..(Len(w) + n)
  <2>1. Listening(w \o v) = Listening(w) \cup new
    BY <1>5, <1>7, <1>8 DEF Listening, AllOf
  <2>2. Listening(w) \cap new = {}
    BY <1>5 DEF Listening
  <2>3. IsFiniteSet(new) /\ Cardinality(new) = n
    <3>1. Len(w) + 1 \in Int /\ Len(w) + n \in Int
      BY <1>5
    <3>2. /\ IsFiniteSet(new)
          /\ Cardinality(new) =
                IF Len(w) + 1 > Len(w) + n THEN 0 ELSE (Len(w) + n) - (Len(w) + 1) + 1
      BY <3>1, FS_Interval
    <3> HIDE DEF new
    <3> QED  BY <1>5, <3>2
  <2>4. IsFiniteSet(Listening(w)) /\ Cardinality(Listening(w)) \in Nat
    BY ListeningFinite
  <2> HIDE DEF new
  <2>5. Cardinality(Listening(w) \cup new)
            = Cardinality(Listening(w)) + Cardinality(new) - Cardinality({})
    BY <2>2, <2>3, <2>4, FS_Union
  <2>6. Cardinality({}) = 0
    BY FS_EmptySet
  <2> QED  BY <1>5, <2>1, <2>3, <2>4, <2>5, <2>6
<1>9. ASSUME AllOf("put", v) \/ AllOf("onDisconnect", v)
       PROVE  Listening(w \o v) = Listening(w)
  BY <1>5, <1>7, <1>9 DEF Listening, AllOf
<1> QED  BY <1>6, <1>8, <1>9 DEF n

-----------------------------------------------------------------------------
(* The listens awaited: the invariant.                                     *)

Bounded ==
    /\ IsFiniteSet(listens) /\ IsFiniteSet(outstandingPuts)
    /\ \E O : onDisconnectQueue \in Seq(O)

\* What the count needs: enumerations of finite sets and of a sequence, which is
\* what the state is restored from.
CountInv == IsWire(wire) /\ Bounded /\ UnackedListensAwaited

LEMMA EmptyCounts == IsWire(<< >>) /\ Listening(<< >>) = {} /\ Cardinality(Listening(<< >>)) = 0
<1>1. << >> \in Seq(Requests({})) /\ DOMAIN << >> = {}
  OBVIOUS
<1>2. IsWire(<< >>) /\ Listening(<< >>) = {}
  BY <1>1 DEF IsWire, Listening
<1> QED  BY <1>2, FS_EmptySet

LEMMA InitCountInv == Init => CountInv
<1> SUFFICES ASSUME Init PROVE CountInv
  OBVIOUS
<1>1. wire = << >> /\ unackedListensCount = 0 /\ onDisconnectQueue = << >>
      /\ listens = {} /\ outstandingPuts = {}
  BY DEF Init
<1>2. onDisconnectQueue \in Seq({})
  BY <1>1
<1>3. Bounded
  BY <1>1, <1>2, FS_EmptySet DEF Bounded
<1> QED  BY <1>1, <1>3, EmptyCounts DEF CountInv, UnackedListensAwaited, Listening

\* A step that leaves the wire alone, and at most forgets writes and operations.
LEMMA SameWireCounts ==
    ASSUME CountInv, UNCHANGED <<wire, unackedListensCount, listens>>,
           outstandingPuts' \subseteq outstandingPuts,
           onDisconnectQueue' \in {onDisconnectQueue, << >>}
    PROVE  CountInv'
<1>1. Bounded'
  <2>1. IsFiniteSet(outstandingPuts')
    BY FS_Subset DEF CountInv, Bounded
  <2>2. \E O : onDisconnectQueue' \in Seq(O)
    <3>1. << >> \in Seq({})
      OBVIOUS
    <3> QED  BY <3>1 DEF CountInv, Bounded
  <2> QED  BY <2>1, <2>2 DEF CountInv, Bounded
<1>2. IsWire(wire)' /\ UnackedListensAwaited'
  BY DEF CountInv, IsWire, UnackedListensAwaited
<1> QED  BY <1>1, <1>2 DEF CountInv

\* The connection closes, and its requests go with it.
LEMMA CloseCounts ==
    ASSUME CountInv, NEW reasons, NEW force, onDisconnect(reasons, force)
    PROVE  CountInv'
<1>1. /\ wire' = << >> /\ unackedListensCount' = 0
      /\ UNCHANGED <<listens, onDisconnectQueue>>
      /\ outstandingPuts' \subseteq outstandingPuts
  BY DEF onDisconnect, cancelSentTransactions
<1>2. Bounded'
  BY <1>1, FS_Subset DEF CountInv, Bounded
<1> QED  BY <1>1, <1>2, EmptyCounts DEF CountInv, UnackedListensAwaited, Listening

LEMMA InterruptCounts ==
    ASSUME CountInv, NEW reason, interruptForReason(reason)
    PROVE  CountInv'
<1>1. CASE realtime # "nil"
  BY <1>1, CloseCounts DEF interruptForReason
<1>2. CASE realtime = "nil"
  BY <1>2, SameWireCounts DEF interruptForReason
<1> QED  BY <1>1, <1>2

\* The state is restored behind the requests rest.
LEMMA RestoreCounts ==
    ASSUME CountInv, NEW rest, IsWire(rest),
           Cardinality(Listening(rest)) = unackedListensCount,
           restoreState(rest), UNCHANGED <<listens, outstandingPuts>>
    PROVE  CountInv'
<1>1. PICK order \in [1..Cardinality(listens) -> listens] :
        wire' = rest
            \o [i \in DOMAIN order |-> Req("listen", order[i], TRUE)]
            \o PutRequests(outstandingPuts)
            \o [i \in DOMAIN onDisconnectQueue |->
                    Req("onDisconnect", onDisconnectQueue[i], TRUE)]
  BY DEF restoreState, Enumerations
<1> DEFINE n == Cardinality(listens)
           m == Cardinality(outstandingPuts)
           k == Len(onDisconnectQueue)
           u == [i \in 1..n |-> Req("listen", order[i], TRUE)]
           v == PutRequests(outstandingPuts)
           w == [i \in 1..k |-> Req("onDisconnect", onDisconnectQueue[i], TRUE)]
<1>2. n \in Nat /\ m \in Nat /\ k \in Nat /\ DOMAIN onDisconnectQueue = 1..k
  BY FS_CardinalityType DEF CountInv, Bounded
<1>3. wire' = ((rest \o u) \o v) \o w
  BY <1>1, <1>2
<1>4. IsWire(u) /\ Len(u) = n /\ AllOf("listen", u)
  BY <1>2, Block
<1>5. IsWire(v) /\ AllOf("put", v)
  <2>1. \E d : v = [i \in 1..m |-> Req("put", d[i], TRUE)]
    BY Zenon DEF PutRequests
  <2> HIDE DEF m, v
  <2> QED  BY <1>2, <2>1, Block
<1>6. IsWire(w) /\ AllOf("onDisconnect", w)
  BY <1>2, Block
<1> HIDE DEF n, m, k, u, v, w
<1>7. IsWire(rest \o u) /\ Cardinality(Listening(rest \o u)) = unackedListensCount + n
  BY <1>4, BlockCounts
<1>8. /\ IsWire((rest \o u) \o v)
      /\ Cardinality(Listening((rest \o u) \o v)) = unackedListensCount + n
  BY <1>5, <1>7, BlockCounts
<1>9. IsWire(wire') /\ Cardinality(Listening(wire')) = unackedListensCount + n
  BY <1>3, <1>6, <1>8, BlockCounts
<1>10. unackedListensCount' = unackedListensCount + n
  BY DEF restoreState, n
<1>11. Bounded'
  <2>1. onDisconnectQueue' \in Seq({})
    BY DEF restoreState
  <2> QED  BY <2>1 DEF CountInv, Bounded
<1> QED  BY <1>9, <1>10, <1>11 DEF CountInv, UnackedListensAwaited, Listening

\* The wire changes, with the count.
LEMMA WireCounts ==
    ASSUME CountInv, IsWire(wire'), Cardinality(Listening(wire')) = unackedListensCount', Bounded'
    PROVE  CountInv'
  BY DEF CountInv, UnackedListensAwaited, Listening

LEMMA CountNow == CountInv => Cardinality(Listening(wire)) = unackedListensCount
  BY DEF CountInv, UnackedListensAwaited, Listening

\* Calls of the app that may send a request at once.
LEMMA CallCounts ==
    ASSUME CountInv,
           \/ putInternal
           \/ \E q \in Queries : listen(q) \/ unlisten(q)
           \/ \E o \in OnDisconnects : onDisconnectOperation(o)
           \/ \E token \in BOOLEAN : refreshAuthToken(token)
    PROVE  CountInv'
<1>0. /\ IsWire(wire) /\ Bounded /\ unackedListensCount \in Nat
      /\ Cardinality(Listening(wire)) = unackedListensCount
  BY CountNow, ListeningFinite DEF CountInv
<1>1. CASE putInternal
  <2>1. UNCHANGED <<listens, unackedListensCount, onDisconnectQueue>>
    BY <1>1 DEF putInternal, listenVars
  <2>2. Bounded'
    <3>1. outstandingPuts' = outstandingPuts \cup {putCounter}
      BY <1>1 DEF putInternal
    <3> QED  BY <1>0, <2>1, <3>1, FS_AddElement DEF Bounded
  <2> DEFINE r == Req("put", putCounter, TRUE)
  <2>3. wire' \in {wire, Append(wire, r)}
    BY <1>1 DEF putInternal
  <2>4. r \in Requests({putCounter}) /\ r.what = "put"
    BY ReqFits
  <2> HIDE DEF r
  <2>5. /\ IsWire(Append(wire, r))
        /\ Cardinality(Listening(Append(wire, r))) = Cardinality(Listening(wire))
    BY <1>0, <2>4, AppendCounts
  <2>6. IsWire(wire') /\ Cardinality(Listening(wire')) = unackedListensCount
    BY <1>0, <2>3, <2>5
  <2> QED  BY <2>1, <2>2, <2>6, WireCounts
<1>2. ASSUME NEW q \in Queries, listen(q) PROVE CountInv'
  <2>1. UNCHANGED <<outstandingPuts, onDisconnectQueue>> /\ listens' = listens \cup {q}
    BY <1>2 DEF listen, putVars
  <2>2. Bounded'
    BY <1>0, <2>1, FS_AddElement DEF Bounded
  <2> DEFINE r == Req("listen", q, TRUE)
  <2>3. r \in Requests({q}) /\ r.what = "listen"
    BY ReqFits
  <2>4. \/ wire' = wire /\ unackedListensCount' = unackedListensCount
        \/ wire' = Append(wire, r) /\ unackedListensCount' = unackedListensCount + 1
    BY <1>2 DEF listen
  <2> HIDE DEF r
  <2>5. /\ IsWire(Append(wire, r))
        /\ Cardinality(Listening(Append(wire, r))) = Cardinality(Listening(wire)) + 1
    BY <1>0, <2>3, AppendCounts
  <2> QED  BY <1>0, <2>2, <2>4, <2>5, WireCounts
<1>3. ASSUME NEW q \in Queries, unlisten(q) PROVE CountInv'
  <2>1. /\ UNCHANGED <<outstandingPuts, onDisconnectQueue, unackedListensCount>>
        /\ listens' = listens \ {q} /\ wire' = Forget(wire, q)
    BY <1>3 DEF unlisten, putVars
  <2>2. Bounded'
    BY <1>0, <2>1, FS_RemoveElement DEF Bounded
  <2> QED  BY <1>0, <2>1, <2>2, ForgetCounts, WireCounts
<1>4. ASSUME NEW o \in OnDisconnects, onDisconnectOperation(o) PROVE CountInv'
  <2>1. UNCHANGED <<outstandingPuts, listens, unackedListensCount>>
    BY <1>4 DEF onDisconnectOperation, putVars, listenVars
  <2> DEFINE r == Req("onDisconnect", o, TRUE)
  <2>2. /\ wire' \in {wire, Append(wire, r)}
        /\ onDisconnectQueue' \in {onDisconnectQueue, Append(onDisconnectQueue, o)}
    BY <1>4 DEF onDisconnectOperation
  <2>3. Bounded'
    <3>1. PICK O : onDisconnectQueue \in Seq(O)
      BY <1>0 DEF Bounded
    <3>2. onDisconnectQueue \in Seq(O \cup {o})
      BY <3>1, SeqMonotonic
    <3>3. onDisconnectQueue' \in Seq(O \cup {o})
      BY <2>2, <3>2
    <3> QED  BY <1>0, <2>1, <3>3 DEF Bounded
  <2>4. r \in Requests({o}) /\ r.what = "onDisconnect"
    BY ReqFits
  <2> HIDE DEF r
  <2>5. /\ IsWire(Append(wire, r))
        /\ Cardinality(Listening(Append(wire, r))) = Cardinality(Listening(wire))
    BY <1>0, <2>4, AppendCounts
  <2> QED  BY <1>0, <2>1, <2>2, <2>3, <2>5, WireCounts
<1>5. ASSUME NEW token \in BOOLEAN, refreshAuthToken(token) PROVE CountInv'
  <2>1. UNCHANGED <<outstandingPuts, listens, unackedListensCount, onDisconnectQueue>>
    BY <1>5 DEF refreshAuthToken, putVars, listenVars
  <2> DEFINE r == Req("auth", 0, FALSE)
  <2>2. wire' \in {wire, Append(wire, r)}
    BY <1>5 DEF refreshAuthToken
  <2>3. r \in Requests({0}) /\ r.what = "auth"
    BY ReqFits
  <2> HIDE DEF r
  <2>4. /\ IsWire(Append(wire, r))
        /\ Cardinality(Listening(Append(wire, r))) = Cardinality(Listening(wire))
    BY <1>0, <2>3, AppendCounts
  <2>5. Bounded'
    BY <1>0, <2>1 DEF Bounded
  <2>6. IsWire(wire') /\ Cardinality(Listening(wire')) = unackedListensCount
    BY <1>0, <2>2, <2>4
  <2> QED  BY <2>1, <2>5, <2>6, WireCounts
<1> QED  BY <1>1, <1>2, <1>3, <1>4, <1>5

\* The handshake, and the answers.
LEMMA AnswerCounts ==
    ASSUME CountInv, onHandshake \/ Deliver
    PROVE  CountInv'
<1>0. /\ IsWire(wire) /\ Bounded /\ unackedListensCount \in Nat
      /\ Cardinality(Listening(wire)) = unackedListensCount
  BY CountNow, ListeningFinite DEF CountInv
<1>1. CASE onHandshake
  <2>1. UNCHANGED <<listens, outstandingPuts>>
    BY <1>1 DEF onHandshake
  <2>2. CASE authToken
    <3> DEFINE r == Req("auth", 0, TRUE)
    <3>1. wire' = Append(wire, r) /\ UNCHANGED <<unackedListensCount, onDisconnectQueue>>
      BY <1>1, <2>2 DEF onHandshake
    <3>2. r \in Requests({0}) /\ r.what = "auth"
      BY ReqFits
    <3> HIDE DEF r
    <3>3. /\ IsWire(Append(wire, r))
          /\ Cardinality(Listening(Append(wire, r))) = Cardinality(Listening(wire))
      BY <1>0, <3>2, AppendCounts
    <3>4. Bounded'
      BY <1>0, <2>1, <3>1 DEF Bounded
    <3>5. IsWire(wire') /\ Cardinality(Listening(wire')) = unackedListensCount
      BY <1>0, <3>1, <3>3
    <3> QED  BY <3>1, <3>4, <3>5, WireCounts
  <2>3. CASE ~authToken
    BY <1>0, <1>1, <2>1, <2>3, RestoreCounts DEF onHandshake
  <2> QED  BY <2>2, <2>3
<1>2. ASSUME wire # << >>, Head(wire).what # "listen"
      PROVE  IsWire(Tail(wire)) /\ Cardinality(Listening(Tail(wire))) = unackedListensCount
  BY <1>0, <1>2, TailCounts
<1>3. CASE AuthSucceeds
  <2>1. UNCHANGED <<listens, outstandingPuts>> /\ wire # << >> /\ Head(wire).what = "auth"
    BY <1>3 DEF AuthSucceeds, Answer
  <2>2. CASE Head(wire).flag
    BY <1>2, <1>3, <2>1, <2>2, RestoreCounts DEF AuthSucceeds
  <2>3. CASE ~Head(wire).flag
    <3>1. wire' = Tail(wire) /\ UNCHANGED <<unackedListensCount, onDisconnectQueue>>
      BY <1>3, <2>3 DEF AuthSucceeds
    <3>2. Bounded'
      BY <1>0, <2>1, <3>1 DEF Bounded
    <3> QED  BY <1>2, <2>1, <3>1, <3>2, WireCounts
  <2> QED  BY <2>2, <2>3
<1>4. CASE AuthFails
  BY <1>4, CloseCounts DEF AuthFails, TokenTurnedDown
<1>5. CASE PutAnswered
  <2>1. /\ wire # << >> /\ Head(wire).what = "put" /\ wire' = Tail(wire)
        /\ UNCHANGED <<unackedListensCount, listens, onDisconnectQueue>>
        /\ outstandingPuts' = outstandingPuts \ {Head(wire).id}
    BY <1>5 DEF PutAnswered, Answer, listenVars
  <2>2. Bounded'
    BY <1>0, <2>1, FS_RemoveElement DEF Bounded
  <2> QED  BY <1>2, <2>1, <2>2, WireCounts
<1>6. CASE ListenAnswered
  <2> DEFINE q == Head(wire).id
  <2>1. /\ wire # << >> /\ Head(wire).what = "listen"
        /\ wire' \in {Tail(wire), Forget(Tail(wire), q)}
        /\ unackedListensCount' = unackedListensCount - 1
        /\ UNCHANGED <<outstandingPuts, onDisconnectQueue>>
        /\ listens' \subseteq listens
    BY <1>6 DEF ListenAnswered, Answer
  <2> HIDE DEF q
  <2>2. Bounded'
    BY <1>0, <2>1, FS_Subset DEF Bounded
  <2>3. IsWire(Tail(wire)) /\ Cardinality(Listening(Tail(wire))) = unackedListensCount - 1
    BY <1>0, <2>1, TailCounts
  <2>4. IsWire(Forget(Tail(wire), q)) /\ Listening(Forget(Tail(wire), q)) = Listening(Tail(wire))
    BY <2>3, ForgetCounts
  <2> QED  BY <2>1, <2>2, <2>3, <2>4, WireCounts
<1>7. CASE OnDisconnectAnswered
  <2>1. /\ wire # << >> /\ Head(wire).what = "onDisconnect" /\ wire' = Tail(wire)
        /\ UNCHANGED <<unackedListensCount, listens, onDisconnectQueue, outstandingPuts>>
    BY <1>7 DEF OnDisconnectAnswered, Answer, listenVars, putVars
  <2>2. Bounded'
    BY <1>0, <2>1 DEF Bounded
  <2> QED  BY <1>2, <2>1, <2>2, WireCounts
<1> QED  BY <1>1, <1>3, <1>4, <1>5, <1>6, <1>7 DEF Deliver

LEMMA NextCountInv == CountInv /\ [Next]_vars => CountInv'
<1> SUFFICES ASSUME CountInv, [Next]_vars PROVE CountInv'
  OBVIOUS
<1>1. CASE purgeOutstandingWrites
  BY <1>1, SameWireCounts DEF purgeOutstandingWrites, listenVars
<1>2. CASE open \/ goOnline \/ enteringForeground \/ RetryFires \/ FetchFails
            \/ StaleFetchReturns \/ \E token \in BOOLEAN : FetchReturns(token)
  <2>1. UNCHANGED <<wire, listenVars, putVars, onDisconnectQueue>>
    BY <1>2 DEF open, goOnline, Resume, enteringForeground, RetryFires, FetchFails,
       StaleFetchReturns, FetchReturns
  <2> QED  BY <2>1, SameWireCounts DEF listenVars, putVars
<1>3. CASE goOffline \/ onKill
  BY <1>3, InterruptCounts DEF goOffline, onKill
<1>4. ASSUME NEW i \in DOMAIN wire, ServerDecides(i) PROVE CountInv'
  <2>1. PICK status \in {"ok", "failed"} : wire' = [wire EXCEPT ![i].status = status]
    BY <1>4 DEF ServerDecides
  <2>2. UNCHANGED <<listens, unackedListensCount, outstandingPuts, onDisconnectQueue>>
    BY <1>4 DEF ServerDecides, listenVars, putVars
  <2>3. IsWire(wire') /\ Listening(wire') = Listening(wire)
    BY <2>1, DecisionCounts DEF CountInv
  <2>4. Bounded'
    BY <2>2 DEF CountInv, Bounded
  <2> QED  BY <2>2, <2>3, <2>4, CountNow, WireCounts
<1>5. ASSUME NEW p \in late, LateWrite(p) PROVE CountInv'
  BY <1>5, SameWireCounts DEF LateWrite, listenVars, putVars
<1>6. CASE onAuthRevoked \/ ConnectionLost
  BY <1>6, CloseCounts DEF onAuthRevoked, TokenTurnedDown, ConnectionLost
<1>7. CASE UNCHANGED vars
  BY <1>7, SameWireCounts DEF vars, listenVars, putVars
<1> QED
  BY <1>1, <1>2, <1>3, <1>4, <1>5, <1>6, <1>7, CallCounts, AnswerCounts DEF Next

\* The number that holds answers back is that of the listens awaited, for any
\* queries and through every loss and restoring.
THEOREM CountIsOfListens == Spec => []UnackedListensAwaited
<1>1. CountInv => UnackedListensAwaited
  BY DEF CountInv
<1> QED  BY <1>1, InitCountInv, NextCountInv, PTL DEF Spec

-----------------------------------------------------------------------------
(* Numbers in ascending order.                                             *)

Ascending(f) == \A i, j \in DOMAIN f : i < j => f[i] < f[j]

\* Numbers, if there are any, have a least one.
LEMMA LeastExists ==
    ASSUME NEW S \in SUBSET Nat, S # {}
    PROVE  \E x \in S : \A y \in S : x <= y
<1>1. \E x \in S : \A y \in S : ~(<<y, x>> \in OpToRel(<, Nat))
  BY NatLessThanWellFounded, WFMin, Zenon
<1>2. \A x, y \in Nat : y < x => <<y, x>> \in OpToRel(<, Nat)
  BY Zenon DEF OpToRel
<1>3. \E x \in S : \A y \in S : ~(y < x)
  BY <1>1, <1>2, Zenon
<1> QED  BY <1>3

\* A least number goes in front of the others.
LEMMA LeastInFront ==
    ASSUME NEW S \in SUBSET Nat, NEW x \in S, \A y \in S : x <= y, NEW n \in Nat,
           NEW g \in [1..n -> S \ {x}], Ascending(g)
    PROVE  \E f \in [1..(n + 1) -> S] : Ascending(f)
<1> DEFINE f == [i \in 1..(n + 1) |-> IF i = 1 THEN x ELSE g[i - 1]]
<1>1. \A i \in 2..(n + 1) : i - 1 \in 1..n /\ g[i - 1] \in S \ {x}
  OBVIOUS
<1>2. f \in [1..(n + 1) -> S]
  BY <1>1
<1>3. ASSUME NEW i \in 1..(n + 1), NEW j \in 1..(n + 1), i < j PROVE f[i] < f[j]
  <2>1. j \in 2..(n + 1) /\ f[j] = g[j - 1] /\ g[j - 1] \in S \ {x} /\ j - 1 \in 1..n
    BY <1>1, <1>3
  <2>2. CASE i = 1
    <3>1. f[i] = x /\ x <= g[j - 1] /\ x # g[j - 1] /\ x \in Nat /\ g[j - 1] \in Nat
      BY <2>1, <2>2
    <3> QED  BY <2>1, <3>1
  <2>3. CASE i # 1
    <3>1. f[i] = g[i - 1] /\ i - 1 \in 1..n /\ i - 1 < j - 1
      BY <1>3, <2>3
    <3>2. DOMAIN g = 1..n
      OBVIOUS
    <3>3. g[i - 1] < g[j - 1]
      BY <2>1, <3>1, <3>2 DEF Ascending
    <3> QED  BY <2>1, <3>1, <3>3
  <2> QED  BY <2>2, <2>3
<1>4. DOMAIN f = 1..(n + 1)
  OBVIOUS
<1> HIDE DEF f
<1>5. Ascending(f)
  BY <1>3, <1>4 DEF Ascending
<1> QED  BY <1>2, <1>5

\* Finitely many numbers can be put in order.
LEMMA OrderExists ==
    ASSUME NEW S \in SUBSET Nat, IsFiniteSet(S)
    PROVE  \E f \in [1..Cardinality(S) -> S] : Ascending(f)
<1> DEFINE Ordered(T, n) == \E f \in [1..n -> T] : Ascending(f)
           Bad == {n \in Nat : \E T \in SUBSET Nat :
                        IsFiniteSet(T) /\ Cardinality(T) = n /\ ~ Ordered(T, n)}
<1>1. ASSUME Bad # {} PROVE FALSE
  <2>1. PICK n \in Bad : \A k \in Bad : n <= k
    BY <1>1, LeastExists
  <2>2. PICK T \in SUBSET Nat : IsFiniteSet(T) /\ Cardinality(T) = n /\ ~ Ordered(T, n)
    OBVIOUS
  <2>3. T # {}
    <3> SUFFICES ASSUME T = {} PROVE FALSE
      OBVIOUS
    <3>1. n = 0
      BY <2>2, FS_EmptySet
    <3>2. [i \in 1..0 |-> 0] \in [1..0 -> T] /\ DOMAIN [i \in 1..0 |-> 0] = {}
      OBVIOUS
    <3>3. Ascending([i \in 1..0 |-> 0])
      BY <3>2 DEF Ascending
    <3> QED  BY <2>2, <3>1, <3>2, <3>3
  <2>4. PICK x \in T : \A y \in T : x <= y
    BY <2>3, LeastExists
  <2>5. IsFiniteSet(T \ {x}) /\ Cardinality(T \ {x}) = n - 1 /\ n \in Nat
    BY <2>2, FS_RemoveElement
  <2>6. n - 1 \in Nat
    BY <2>5, FS_CardinalityType
  <2>7. n - 1 \notin Bad
    BY <2>1, <2>6
  <2>8. Ordered(T \ {x}, n - 1)
    BY <2>5, <2>6, <2>7
  <2>9. PICK g \in [1..(n - 1) -> T \ {x}] : Ascending(g)
    BY <2>8
  <2>10. \E f \in [1..((n - 1) + 1) -> T] : Ascending(f)
    BY <2>4, <2>6, <2>9, LeastInFront
  <2>11. (n - 1) + 1 = n
    BY <2>5
  <2> QED  BY <2>2, <2>10, <2>11
<1>2. Cardinality(S) \in Nat
  BY FS_CardinalityType
<1>3. Cardinality(S) \notin Bad
  BY <1>1
<1> QED  BY <1>2, <1>3

\* InOrder(S) lists S, each number once, ascending.
LEMMA InOrderLists ==
    ASSUME NEW S \in SUBSET Nat, IsFiniteSet(S)
    PROVE  /\ Cardinality(S) \in Nat
           /\ InOrder(S) \in [1..Cardinality(S) -> S]
           /\ Ascending(InOrder(S))
           /\ \A x \in S : \E i \in 1..Cardinality(S) : InOrder(S)[i] = x
<1> DEFINE n == Cardinality(S)
           g == InOrder(S)
<1>1. n \in Nat
  BY FS_CardinalityType
<1> HIDE DEF n
<1>2. PICK f \in [1..n -> S] : Ascending(f)
  BY OrderExists DEF n
<1>3. \A i, j \in 1..n : f[i] = f[j] => i = j
  <2> SUFFICES ASSUME NEW i \in 1..n, NEW j \in 1..n, f[i] = f[j], i # j PROVE FALSE
    OBVIOUS
  <2>1. DOMAIN f = 1..n /\ f[i] \in Nat /\ f[j] \in Nat
    BY <1>2
  <2>2. (i < j => f[i] < f[j]) /\ (j < i => f[j] < f[i])
    BY <1>2, <2>1 DEF Ascending
  <2> QED  BY <1>1, <2>1, <2>2
<1>4. f \in Enumerations(S)
  BY <1>2, <1>3 DEF Enumerations, IsInjective, n
<1>5. g \in Enumerations(S) /\ Ascending(g)
  BY <1>2, <1>4 DEF InOrder, Ascending
<1> HIDE DEF g
<1>6. g \in [1..n -> S] /\ IsInjective(g)
  BY <1>5 DEF Enumerations, n
<1>7. g \in Surjection(1..n, S)
  <2>1. g \in Injection(1..n, S)
    BY <1>6 DEF Injection
  <2>2. Cardinality(1..n) = n
    BY <1>1, FS_Interval
  <2> QED  BY <2>1, <2>2, FS_Injection DEF n
<1>8. \A x \in S : \E i \in 1..n : g[i] = x
  BY <1>6, <1>7 DEF Surjection
<1> QED  BY <1>1, <1>5, <1>6, <1>8 DEF g, n

-----------------------------------------------------------------------------
(* The types.                                                              *)

\* The types of the connection and the token.
TokenTypes == authToken \in BOOLEAN /\ forceAuthTokenRefresh \in BOOLEAN

ConnectionTypes ==
    /\ ControlTypes
    /\ interruptReasons \subseteq Reasons
    /\ scheduledRetry \in {"none", "plain", "forced"}
    /\ fetch \in {"none", "plain", "forced"}
    /\ staleFetches \in 0..MaxStale
    /\ faults \in 0..MaxFaults

\* Those of the writes and of what becomes of them.
PutTypes ==
    /\ putCounter \in 1..(MaxPuts + 1)
    /\ outstandingPuts \subseteq 1..(putCounter - 1)
    /\ sent \subseteq Transactions
    /\ putsToAck \in Seq([put : Puts, status : {"ok", "failed"}])
    /\ completions \in [Puts -> Seq(Completion)]

\* Those of the listens, the operations, the requests and the other end.
RequestTypesOK ==
    /\ listens \subseteq Queries
    /\ unackedListensCount \in Nat
    /\ onDisconnectQueue \in Seq(OnDisconnects)
    /\ wire \in Seq(Request)

WorldTypes == late \subseteq Puts /\ stored \in 0..MaxPuts

LEMMA TypesSplit ==
    TypeOK <=> TokenTypes /\ ConnectionTypes /\ PutTypes /\ RequestTypesOK /\ WorldTypes
  BY Zenon DEF TypeOK, TokenTypes, ConnectionTypes, ControlTypes, PutTypes, RequestTypesOK,
     WorldTypes

LEMMA InitTypes == Init => TypeOK
<1> SUFFICES ASSUME Init PROVE TypeOK
  OBVIOUS
<1>1. ConnectionTypes
  BY ClientAssumption DEF Init, ConnectionTypes, ControlTypes, Reasons
<1>2. PutTypes
  <2>1. << >> \in Seq(Completion) /\ << >> \in Seq([put : Puts, status : {"ok", "failed"}])
    OBVIOUS
  <2> QED  BY <2>1, ClientAssumption DEF Init, PutTypes
<1>3. RequestTypesOK
  BY DEF Init, RequestTypesOK
<1>4. WorldTypes
  BY ClientAssumption DEF Init, WorldTypes
<1>5. TokenTypes
  BY Zenon DEF Init, TokenTypes
<1> QED  BY <1>1, <1>2, <1>3, <1>4, <1>5, TypesSplit

\* Flags are set to flags.
LEMMA TokenTypesKept ==
    ASSUME TypeOK, [Next]_vars
    PROVE  TokenTypes'
<1>0. authToken \in BOOLEAN /\ forceAuthTokenRefresh \in BOOLEAN
  BY Zenon DEF TypeOK
<1>1. ASSUME UNCHANGED <<authToken, forceAuthTokenRefresh>> PROVE TokenTypes'
  BY <1>0, <1>1, Zenon DEF TokenTypes
<1>2. ASSUME NEW reasons, NEW force \in BOOLEAN, tryScheduleReconnect(reasons, force)
      PROVE  forceAuthTokenRefresh' \in BOOLEAN
  <2>1. forceAuthTokenRefresh' = FALSE \/ forceAuthTokenRefresh' = force
    BY <1>2, Zenon DEF tryScheduleReconnect
  <2> QED  BY <2>1, Zenon
<1>3. ASSUME NEW reason, interruptForReason(reason)
      PROVE  forceAuthTokenRefresh' \in BOOLEAN
  BY <1>0, <1>2, <1>3, Zenon DEF interruptForReason, onDisconnect
<1>4. ASSUME NEW token \in BOOLEAN, refreshAuthToken(token) PROVE TokenTypes'
  BY <1>0, <1>4, Zenon DEF refreshAuthToken, TokenTypes
<1>5. ASSUME NEW token \in BOOLEAN, FetchReturns(token) PROVE TokenTypes'
  BY <1>0, <1>5, Zenon DEF FetchReturns, openNetworkConnection, TokenTypes
<1>6. ASSUME NEW reason, Resume(reason) PROVE TokenTypes'
  BY <1>0, <1>2, <1>6, Zenon DEF Resume, resumeForReason, TokenTypes
<1>7. CASE goOffline \/ onKill
  BY <1>0, <1>3, <1>7, Zenon DEF goOffline, onKill, TokenTypes
<1>8. CASE enteringForeground \/ FetchFails
  BY <1>0, <1>2, <1>8, Zenon DEF enteringForeground, FetchFails, TokenTypes
<1>9. CASE AuthFails \/ onAuthRevoked
  <2>1. authToken' = FALSE /\ tryScheduleReconnect(interruptReasons, TRUE)
    BY <1>9, Zenon DEF AuthFails, onAuthRevoked, TokenTurnedDown, onDisconnect
  <2> QED  BY <1>2, <2>1, Zenon DEF TokenTypes
<1>10. CASE ConnectionLost
  BY <1>0, <1>2, <1>10, Zenon DEF ConnectionLost, onDisconnect, TokenTypes
<1>11. CASE \/ putInternal \/ purgeOutstandingWrites
            \/ \E q \in Queries : listen(q) \/ unlisten(q)
            \/ \E o \in OnDisconnects : onDisconnectOperation(o)
            \/ \E i \in DOMAIN wire : ServerDecides(i)
            \/ \E p \in late : LateWrite(p)
            \/ RetryFires \/ StaleFetchReturns \/ onHandshake \/ AuthSucceeds
            \/ PutAnswered \/ ListenAnswered \/ OnDisconnectAnswered \/ UNCHANGED vars
  <2>1. UNCHANGED <<authToken, forceAuthTokenRefresh>>
    BY <1>11 DEF putInternal, purgeOutstandingWrites, listen, unlisten, onDisconnectOperation,
       ServerDecides, LateWrite, RetryFires, StaleFetchReturns, onHandshake, AuthSucceeds,
       PutAnswered, ListenAnswered, OnDisconnectAnswered, vars, tokenVars
  <2> QED  BY <1>1, <2>1
<1> QED
  BY <1>4, <1>5, <1>6, <1>7, <1>8, <1>9, <1>10, <1>11 DEF Next, Deliver, open, goOnline

\* States, reasons and fetches are as they should be.
LEMMA ConnectionTypesKept ==
    ASSUME TypeOK, IInv', [Next]_vars
    PROVE  ConnectionTypes'
<1>0. ConnectionTypes /\ ControlTypes'
  BY TypesSplit DEF IInv
<1>1. CASE UNCHANGED <<connectionVars, tokenVars, faults>>
  BY <1>0, <1>1 DEF ConnectionTypes, ControlTypes, connectionVars, tokenVars
<1>2. ASSUME NEW token \in BOOLEAN, refreshAuthToken(token) PROVE ConnectionTypes'
  BY <1>0, <1>2 DEF refreshAuthToken, ConnectionTypes, connectionVars, worldVars
<1>3. ASSUME NEW token \in BOOLEAN, FetchReturns(token) PROVE ConnectionTypes'
  BY <1>0, <1>3 DEF FetchReturns, openNetworkConnection, ConnectionTypes, worldVars
<1>4. CASE open \/ goOnline
  BY <1>0, <1>4 DEF open, goOnline, Resume, resumeForReason, tryScheduleReconnect,
     ConnectionTypes, worldVars
<1>5. CASE goOffline \/ onKill
  <2>1. /\ \E reason \in Reasons : interruptReasons' = interruptReasons \cup {reason}
        /\ UNCHANGED <<fetch, staleFetches>> /\ (Fault \/ UNCHANGED faults)
    BY <1>5 DEF goOffline, onKill, interruptForReason, Reasons
  <2>2. scheduledRetry' \in {scheduledRetry, "none", "plain", "forced"}
    <3>1. PICK reason : interruptForReason(reason)
      BY <1>5 DEF goOffline, onKill
    <3> QED  BY <3>1 DEF interruptForReason, onDisconnect, tryScheduleReconnect
  <2> QED  BY <1>0, <2>1, <2>2, ClientAssumption DEF ConnectionTypes, Fault
<1>6. CASE enteringForeground
  BY <1>0, <1>6 DEF enteringForeground, tryScheduleReconnect, ConnectionTypes, worldVars
<1>7. CASE RetryFires
  BY <1>0, <1>7, ClientAssumption DEF RetryFires, ConnectionTypes, worldVars
<1>8. CASE FetchFails
  BY <1>0, <1>8, ClientAssumption DEF FetchFails, tryScheduleReconnect, ConnectionTypes, Fault
<1>9. CASE StaleFetchReturns
  BY <1>0, <1>9, ClientAssumption DEF StaleFetchReturns, ConnectionTypes, connectionVars, worldVars
<1>10. CASE onHandshake
  BY <1>0, <1>10 DEF onHandshake, ConnectionTypes, tokenVars, worldVars
<1>11. ASSUME NEW i \in DOMAIN wire, ServerDecides(i) PROVE ConnectionTypes'
  <2>1. UNCHANGED <<connectionVars, tokenVars>> /\ (Fault \/ UNCHANGED faults)
    BY <1>11 DEF ServerDecides
  <2> QED
    BY <1>0, <2>1, ClientAssumption DEF ConnectionTypes, connectionVars, tokenVars, Fault
<1>12. CASE AuthSucceeds
  BY <1>0, <1>12 DEF AuthSucceeds, ConnectionTypes, tokenVars, worldVars
<1>13. CASE AuthFails \/ onAuthRevoked \/ ConnectionLost
  BY <1>0, <1>13, ClientAssumption DEF AuthFails, onAuthRevoked, ConnectionLost, TokenTurnedDown,
     onDisconnect, tryScheduleReconnect, ConnectionTypes, Fault
<1>14. CASE \/ putInternal \/ purgeOutstandingWrites
            \/ \E q \in Queries : listen(q) \/ unlisten(q)
            \/ \E o \in OnDisconnects : onDisconnectOperation(o)
            \/ \E p \in late : LateWrite(p)
            \/ PutAnswered \/ ListenAnswered \/ OnDisconnectAnswered \/ UNCHANGED vars
  <2>1. UNCHANGED <<connectionVars, tokenVars, faults>>
    BY <1>14 DEF putInternal, purgeOutstandingWrites, listen, unlisten, onDisconnectOperation,
       LateWrite, PutAnswered, ListenAnswered, OnDisconnectAnswered, vars, worldVars
  <2> QED  BY <1>1, <2>1
<1> QED
  BY <1>2, <1>3, <1>4, <1>5, <1>6, <1>7, <1>8, <1>9, <1>10, <1>11, <1>12, <1>13, <1>14
     DEF Next, Deliver

\* What is called is what was called before and the answers held, in order.
HeldOf(p) == {k \in DOMAIN putsToAck : putsToAck[k].put = p}

LEMMA HeldOfTypes ==
    ASSUME TypeOK, NEW p \in Puts
    PROVE  /\ HeldOf(p) \in SUBSET Nat /\ IsFiniteSet(HeldOf(p))
           /\ Cardinality(HeldOf(p)) \in Nat
<1>1. DOMAIN putsToAck = 1..Len(putsToAck) /\ Len(putsToAck) \in Nat
  BY DEF TypeOK
<1>2. IsFiniteSet(1..Len(putsToAck)) /\ HeldOf(p) \in SUBSET (1..Len(putsToAck))
  BY <1>1, FS_Interval DEF HeldOf
<1> QED  BY <1>2, FS_Subset, FS_CardinalityType

LEMMA HeldStatus ==
    ASSUME TypeOK, NEW k \in DOMAIN putsToAck
    PROVE  putsToAck[k].status \in {"ok", "failed"}
<1> DEFINE Answered == [put : Puts, status : {"ok", "failed"}]
<1>1. putsToAck \in Seq(Answered)
  BY Zenon DEF TypeOK
<1> HIDE DEF Answered
<1>2. putsToAck[k] \in Answered
  BY <1>1
<1> QED  BY <1>2 DEF Answered

LEMMA AckedPuts ==
    ASSUME TypeOK, NEW p \in Puts
    PROVE  LET n == Cardinality(HeldOf(p))
               t == [i \in 1..n |-> putsToAck[InOrder(HeldOf(p))[i]].status]
           IN  /\ ackPuts[p] = completions[p] \o t
               /\ t \in Seq({"ok", "failed"}) /\ Len(t) = n
               /\ ackPuts[p] \in Seq(Completion)
               /\ Len(ackPuts[p]) = Len(completions[p]) + n
<1> DEFINE n == Cardinality(HeldOf(p))
           t == [i \in 1..n |-> putsToAck[InOrder(HeldOf(p))[i]].status]
<1>1. ackPuts[p] = completions[p] \o t
  BY DEF ackPuts, HeldOf
<1>2. n \in Nat /\ InOrder(HeldOf(p)) \in [1..n -> HeldOf(p)]
  BY HeldOfTypes, InOrderLists
<1>3. \A k \in DOMAIN putsToAck : putsToAck[k].status \in {"ok", "failed"}
  BY HeldStatus
<1>4. \A i \in 1..n : putsToAck[InOrder(HeldOf(p))[i]].status \in {"ok", "failed"}
  BY <1>2, <1>3 DEF HeldOf
<1> HIDE DEF n
<1>5. t \in [1..n -> {"ok", "failed"}]
  BY <1>4
<1> HIDE DEF t
<1>6. t \in Seq({"ok", "failed"}) /\ Len(t) = n
  BY <1>2, <1>5
<1>7. t \in Seq(Completion) /\ completions[p] \in Seq(Completion)
  <2>1. t \in Seq(Completion)
    BY <1>2, <1>5 DEF Completion
  <2> QED  BY <2>1 DEF TypeOK
<1>8. /\ completions[p] \o t \in Seq(Completion)
      /\ Len(completions[p] \o t) = Len(completions[p]) + Len(t)
  BY <1>7, ConcatProperties
<1> QED  BY <1>1, <1>6, <1>8 DEF n, t

LEMMA AckPutsType == TypeOK => ackPuts \in [Puts -> Seq(Completion)]
<1> SUFFICES ASSUME TypeOK PROVE ackPuts \in [Puts -> Seq(Completion)]
  OBVIOUS
<1>1. \A p \in Puts : ackPuts[p] \in Seq(Completion)
  BY AckedPuts
<1>2. ackPuts = [p \in Puts |-> ackPuts[p]]
  BY DEF ackPuts
<1> QED  BY <1>1, <1>2

\* A request that is answered is one of the requests sent.
LEMMA HeadIsRequest ==
    ASSUME TypeOK, wire # << >>
    PROVE  /\ wire \in Seq(Request) /\ Head(wire) \in Request /\ Tail(wire) \in Seq(Request)
           /\ Head(wire) = wire[1] /\ 1 \in DOMAIN wire
           /\ Head(wire).what = "put" => Head(wire).id \in Puts
<1>1. wire \in Seq(Request)
  BY Zenon DEF TypeOK
<1>2. Head(wire) \in Request /\ Tail(wire) \in Seq(Request)
      /\ Head(wire) = wire[1] /\ 1 \in DOMAIN wire
  BY <1>1
<1>3. \A r \in Request : r.what = "put" => r.id \in Puts
  BY DEF Request
<1> QED  BY <1>1, <1>2, <1>3

LEMMA WritesAreNumbered ==
    ASSUME TypeOK
    PROVE  /\ MaxPuts \in Nat /\ putCounter \in 1..(MaxPuts + 1) /\ outstandingPuts \subseteq Puts
           /\ \A p \in outstandingPuts : p < putCounter
           /\ Puts \in SUBSET Nat /\ outstandingPuts \in SUBSET Nat
<1>1. /\ putCounter \in 1..(MaxPuts + 1) /\ outstandingPuts \subseteq 1..(putCounter - 1)
  BY TypesSplit DEF PutTypes
<1>2. MaxPuts \in Nat
  BY ClientAssumption
<1> QED  BY <1>1, <1>2 DEF Puts

\* Writes, their answers and their blocks keep their types.
LEMMA PutTypesKept ==
    ASSUME TypeOK, [Next]_vars
    PROVE  PutTypes'
<1>0. PutTypes /\ MaxPuts \in Nat /\ Transactions \subseteq Puts
  BY TypesSplit, ClientAssumption DEF Puts
<1>1. ASSUME UNCHANGED putVars PROVE PutTypes'
  BY <1>0, <1>1 DEF PutTypes, putVars
<1>2. CASE putInternal
  <2>1. /\ putCounter <= MaxPuts /\ putCounter' = putCounter + 1
        /\ outstandingPuts' = outstandingPuts \cup {putCounter}
        /\ UNCHANGED <<putsToAck, completions>>
        /\ sent' \in {sent, sent \cup ({putCounter} \cap Transactions)}
    BY <1>2 DEF putInternal
  <2>2. putCounter' \in 1..(MaxPuts + 1) /\ outstandingPuts' \subseteq 1..(putCounter' - 1)
    BY <1>0, <2>1 DEF PutTypes
  <2>3. sent' \subseteq Transactions
    BY <1>0, <2>1 DEF PutTypes
  <2> QED  BY <1>0, <2>1, <2>2, <2>3 DEF PutTypes
<1>3. ASSUME NEW f \in [Puts -> Seq(Completion)], NEW S,
             completions' = [p \in Puts |-> IF p \in S THEN Append(f[p], "withdrawn") ELSE f[p]]
      PROVE  completions' \in [Puts -> Seq(Completion)]
  <2>1. "withdrawn" \in Completion
    BY DEF Completion
  <2>2. \A p \in Puts : f[p] \in Seq(Completion) /\ Append(f[p], "withdrawn") \in Seq(Completion)
    BY <2>1
  <2> QED  BY <1>3, <2>2
<1>4. CASE purgeOutstandingWrites
  <2>1. completions' = [p \in Puts |->
            IF p \in outstandingPuts THEN Append(ackPuts[p], "withdrawn") ELSE ackPuts[p]]
    BY <1>4 DEF purgeOutstandingWrites
  <2>2. completions' \in [Puts -> Seq(Completion)]
    BY <1>3, <2>1, AckPutsType
  <2>3. putsToAck' = << >> /\ outstandingPuts' = {} /\ sent' = {} /\ UNCHANGED putCounter
    BY <1>4 DEF purgeOutstandingWrites
  <2>4. putsToAck' \in Seq([put : Puts, status : {"ok", "failed"}])
    BY <2>3
  <2> QED  BY <1>0, <2>2, <2>3, <2>4 DEF PutTypes
<1>5. ASSUME cancelSentTransactions, UNCHANGED <<putCounter, putsToAck>> PROVE PutTypes'
  <2>1. completions' \in [Puts -> Seq(Completion)]
    BY <1>0, <1>3, <1>5 DEF cancelSentTransactions, PutTypes
  <2>2. outstandingPuts' \subseteq outstandingPuts /\ sent' \subseteq sent
    BY <1>5 DEF cancelSentTransactions
  <2> QED  BY <1>0, <1>5, <2>1, <2>2 DEF PutTypes
<1>6. CASE goOffline \/ onKill
  <2>1. PICK reason : interruptForReason(reason)
    BY <1>6 DEF goOffline, onKill
  <2>2. CASE realtime # "nil"
    BY <1>5, <2>1, <2>2 DEF interruptForReason, onDisconnect
  <2>3. CASE realtime = "nil"
    BY <1>1, <2>1, <2>3 DEF interruptForReason, putVars
  <2> QED  BY <2>2, <2>3
<1>7. CASE AuthFails \/ onAuthRevoked \/ ConnectionLost
  BY <1>5, <1>7 DEF AuthFails, onAuthRevoked, ConnectionLost, TokenTurnedDown, onDisconnect
<1>8. CASE onHandshake \/ AuthSucceeds
  <2>1. /\ sent' \in {sent, sent \cup (outstandingPuts \cap Transactions)}
        /\ UNCHANGED <<putCounter, outstandingPuts, putsToAck, completions>>
    BY <1>8 DEF onHandshake, AuthSucceeds, restoreState
  <2>2. sent' \subseteq Transactions
    BY <1>0, <2>1 DEF PutTypes
  <2> QED  BY <1>0, <2>1, <2>2 DEF PutTypes
<1>9. CASE PutAnswered
  <2> DEFINE p == Head(wire).id
             status == Head(wire).status
  <2>1. p \in Puts /\ status \in {"ok", "failed"}
    BY <1>9, HeadIsRequest DEF PutAnswered, Answer
  <2>2. /\ outstandingPuts' = outstandingPuts \ {p} /\ sent' = sent \ {p} /\ UNCHANGED putCounter
        /\ completions' \in {completions, [completions EXCEPT ![p] = Append(@, status)]}
        /\ putsToAck' \in {putsToAck, Append(putsToAck, [put |-> p, status |-> status])}
    BY <1>9, Zenon DEF PutAnswered
  <2> HIDE DEF p, status
  <2>3. [completions EXCEPT ![p] = Append(@, status)] \in [Puts -> Seq(Completion)]
    <3>1. status \in Completion
      BY <2>1 DEF Completion
    <3>2. completions \in [Puts -> Seq(Completion)]
      BY <1>0 DEF PutTypes
    <3>3. Append(completions[p], status) \in Seq(Completion)
      BY <2>1, <3>1, <3>2
    <3> QED  BY <3>2, <3>3
  <2>4. putsToAck' \in Seq([put : Puts, status : {"ok", "failed"}])
    <3> DEFINE Answers == [put : Puts, status : {"ok", "failed"}]
    <3>1. [put |-> p, status |-> status] \in Answers
      BY <2>1
    <3>2. putsToAck \in Seq(Answers)
      BY <1>0 DEF PutTypes
    <3> HIDE DEF Answers
    <3>3. Append(putsToAck, [put |-> p, status |-> status]) \in Seq(Answers)
      BY <3>1, <3>2
    <3> QED  BY <2>2, <3>2, <3>3 DEF Answers
  <2>5. completions' \in [Puts -> Seq(Completion)]
    BY <1>0, <2>2, <2>3 DEF PutTypes
  <2> QED  BY <1>0, <2>2, <2>4, <2>5 DEF PutTypes
<1>10. CASE ListenAnswered
  <2>1. /\ UNCHANGED <<putCounter, outstandingPuts, sent>>
        /\ \/ completions' = ackPuts /\ putsToAck' = << >>
           \/ UNCHANGED <<completions, putsToAck>>
    BY <1>10 DEF ListenAnswered
  <2>2. << >> \in Seq([put : Puts, status : {"ok", "failed"}])
    OBVIOUS
  <2>3. completions' \in [Puts -> Seq(Completion)]
    BY <1>0, <2>1, AckPutsType DEF PutTypes
  <2>4. putsToAck' \in Seq([put : Puts, status : {"ok", "failed"}])
    BY <1>0, <2>1, <2>2 DEF PutTypes
  <2> QED  BY <1>0, <2>1, <2>3, <2>4 DEF PutTypes
<1>11. CASE \/ \E q \in Queries : listen(q) \/ unlisten(q)
            \/ \E o \in OnDisconnects : onDisconnectOperation(o)
            \/ \E token \in BOOLEAN : refreshAuthToken(token) \/ FetchReturns(token)
            \/ open \/ goOnline \/ enteringForeground
            \/ RetryFires \/ FetchFails \/ StaleFetchReturns
            \/ \E i \in DOMAIN wire : ServerDecides(i)
            \/ \E p \in late : LateWrite(p)
            \/ OnDisconnectAnswered \/ UNCHANGED vars
  <2>1. UNCHANGED putVars
    BY <1>11 DEF listen, unlisten, onDisconnectOperation, refreshAuthToken, FetchReturns, open,
       goOnline, Resume, enteringForeground, RetryFires, FetchFails, StaleFetchReturns,
       ServerDecides, LateWrite, OnDisconnectAnswered, vars
  <2> QED  BY <1>1, <2>1
<1> QED
  BY <1>2, <1>4, <1>6, <1>7, <1>8, <1>9, <1>10, <1>11 DEF Next, Deliver

\* A function on 1..n is a sequence.
LEMMA MadeSequence ==
    ASSUME NEW R, NEW n \in Nat, NEW v, v \in [1..n -> R]
    PROVE  v \in Seq(R) /\ Len(v) = n /\ DOMAIN v = 1..n
  OBVIOUS

\* The requests that are made.
LEMMA RequestsMade ==
    /\ \A p \in Puts : Req("put", p, TRUE) \in Request
    /\ \A q \in Queries : Req("listen", q, TRUE) \in Request
    /\ \A o \in OnDisconnects : Req("onDisconnect", o, TRUE) \in Request
    /\ \A flag \in BOOLEAN : Req("auth", 0, flag) \in Request
  BY DEF Req, Request

LEMMA ForgetType ==
    ASSUME NEW w \in Seq(Request), NEW q
    PROVE  Forget(w, q) \in Seq(Request)
<1>1. \A r \in Request : r.what = "listen" => [r EXCEPT !.flag = FALSE] \in Request
  BY DEF Request
<1>2. DOMAIN w = 1..Len(w) /\ Len(w) \in Nat /\ \A i \in DOMAIN w : w[i] \in Request
  OBVIOUS
<1>3. \A i \in DOMAIN w :
        (IF w[i].what = "listen" /\ w[i].id = q THEN [w[i] EXCEPT !.flag = FALSE] ELSE w[i])
            \in Request
  BY <1>1, <1>2
<1> QED  BY <1>2, <1>3 DEF Forget

LEMMA DecisionType ==
    ASSUME NEW w \in Seq(Request), NEW i \in DOMAIN w,
           NEW status \in IF w[i].what = "onDisconnect" THEN {"ok"} ELSE {"ok", "failed"}
    PROVE  [w EXCEPT ![i].status = status] \in Seq(Request)
<1>1. w[i] \in Request
  OBVIOUS
<1>2. [w[i] EXCEPT !.status = status] \in Request
  BY <1>1 DEF Request
<1> QED  BY <1>2, ExceptSeq

\* The write requests, each once and by index.
LEMMA PutRequestsInOrder ==
    ASSUME NEW S \in SUBSET Puts, IsFiniteSet(S), Puts \in SUBSET Nat
    PROVE  LET n == Cardinality(S)
               f == InOrder(S)
           IN  /\ PutRequests(S) = [i \in 1..n |-> Req("put", f[i], TRUE)]
               /\ n \in Nat /\ f \in [1..n -> S]
               /\ \A i, j \in 1..n : i < j => f[i] < f[j]
               /\ \A p \in S : \E i \in 1..n : f[i] = p
               /\ PutRequests(S) \in Seq(Request) /\ Len(PutRequests(S)) = n
<1> DEFINE n == Cardinality(S)
           f == InOrder(S)
<1>1. n \in Nat /\ f \in [1..n -> S] /\ Ascending(f) /\ \A p \in S : \E i \in 1..n : f[i] = p
  BY InOrderLists
<1>2. PutRequests(S) = [i \in 1..n |-> Req("put", f[i], TRUE)]
  BY Zenon DEF PutRequests
<1> HIDE DEF n, f
<1>3. \A i, j \in 1..n : i < j => f[i] < f[j]
  BY <1>1 DEF Ascending
<1>4. \A i \in 1..n : Req("put", f[i], TRUE) \in Request
  BY <1>1, RequestsMade
<1>5. PutRequests(S) \in [1..n -> Request]
  BY <1>2, <1>4
<1>6. PutRequests(S) \in Seq(Request) /\ Len(PutRequests(S)) = n
  BY <1>1, <1>5, MadeSequence
<1> QED  BY <1>1, <1>2, <1>3, <1>6 DEF n, f

\* What is sent behind the requests rest when the state is restored.
LEMMA RestoredRequests ==
    ASSUME TypeOK, CountInv, NEW rest \in Seq(Request), restoreState(rest)
    PROVE  \E u \in Seq(Request), w \in Seq(Request) :
                /\ wire' = ((rest \o u) \o PutRequests(outstandingPuts)) \o w
                /\ \A i \in DOMAIN u : u[i].what = "listen"
                /\ \A i \in DOMAIN w : w[i].what = "onDisconnect"
<1>1. PICK order \in [1..Cardinality(listens) -> listens] :
        wire' = rest
            \o [i \in DOMAIN order |-> Req("listen", order[i], TRUE)]
            \o PutRequests(outstandingPuts)
            \o [i \in DOMAIN onDisconnectQueue |->
                    Req("onDisconnect", onDisconnectQueue[i], TRUE)]
  BY DEF restoreState, Enumerations
<1> DEFINE n == Cardinality(listens)
           k == Len(onDisconnectQueue)
           u == [i \in 1..n |-> Req("listen", order[i], TRUE)]
           w == [i \in 1..k |-> Req("onDisconnect", onDisconnectQueue[i], TRUE)]
<1>2. n \in Nat
  BY FS_CardinalityType DEF CountInv, Bounded
<1>3. k \in Nat /\ DOMAIN onDisconnectQueue = 1..k
      /\ \A i \in 1..k : onDisconnectQueue[i] \in OnDisconnects
  <2>1. onDisconnectQueue \in Seq(OnDisconnects)
    BY TypesSplit DEF RequestTypesOK
  <2> QED  BY <2>1
<1>4. wire' = ((rest \o u) \o PutRequests(outstandingPuts)) \o w
  BY <1>1, <1>3
<1>5. listens \subseteq Queries
  BY TypesSplit DEF RequestTypesOK
<1> HIDE DEF n, k
<1>6. \A i \in 1..n : order[i] \in Queries
  BY <1>1, <1>5 DEF n
<1>7. u \in Seq(Request) /\ \A i \in DOMAIN u : u[i].what = "listen"
  <2>1. \A i \in 1..n : Req("listen", order[i], TRUE) \in Request
    BY <1>6, RequestsMade
  <2>2. \A i \in DOMAIN u : u[i].what = "listen"
    BY DEF Req
  <2>3. u \in [1..n -> Request]
    BY <2>1
  <2> HIDE DEF u
  <2>4. u \in Seq(Request)
    BY <1>2, <2>3, MadeSequence
  <2> QED  BY <2>2, <2>4
<1>8. w \in Seq(Request) /\ \A i \in DOMAIN w : w[i].what = "onDisconnect"
  <2>1. \A i \in 1..k : Req("onDisconnect", onDisconnectQueue[i], TRUE) \in Request
    BY <1>3, RequestsMade
  <2>2. \A i \in DOMAIN w : w[i].what = "onDisconnect"
    BY DEF Req
  <2>3. w \in [1..k -> Request]
    BY <2>1
  <2> HIDE DEF w
  <2>4. w \in Seq(Request)
    BY <1>3, <2>3, MadeSequence
  <2> QED  BY <2>2, <2>4
<1> HIDE DEF u, w
<1> QED  BY <1>4, <1>7, <1>8

\* Requests, listens and operations keep their types.
LEMMA RequestTypesKept ==
    ASSUME TypeOK, CountInv, CountInv', [Next]_vars
    PROVE  RequestTypesOK'
<1>0. /\ listens \subseteq Queries /\ unackedListensCount \in Nat
      /\ onDisconnectQueue \in Seq(OnDisconnects) /\ wire \in Seq(Request)
  BY TypesSplit DEF RequestTypesOK
<1>1. unackedListensCount' \in Nat
  <2>1. IsWire(wire') /\ unackedListensCount' = Cardinality(Listening(wire'))
    BY DEF CountInv, UnackedListensAwaited, Listening
  <2> QED  BY <2>1, ListeningFinite
<1>2. << >> \in Seq(Request) /\ << >> \in Seq(OnDisconnects)
  OBVIOUS
<1>3. listens' \subseteq Queries
  <2>1. \/ listens' \subseteq listens
        \/ \E q \in Queries : listens' = listens \cup {q}
    BY Zenon DEF putInternal, purgeOutstandingWrites, listen, unlisten, onDisconnectOperation,
       refreshAuthToken, FetchReturns, open, goOffline, goOnline, Resume, interruptForReason,
       enteringForeground, RetryFires, FetchFails, StaleFetchReturns, onHandshake, ServerDecides,
       LateWrite, AuthSucceeds, AuthFails, PutAnswered, ListenAnswered, OnDisconnectAnswered,
       onAuthRevoked, TokenTurnedDown, onDisconnect, ConnectionLost, onKill, Next, Deliver,
       vars, listenVars
  <2> QED  BY <1>0, <2>1
<1>4. onDisconnectQueue' \in Seq(OnDisconnects)
  <2>1. \/ onDisconnectQueue' \in {onDisconnectQueue, << >>}
        \/ \E o \in OnDisconnects : onDisconnectQueue' = Append(onDisconnectQueue, o)
    BY Zenon DEF putInternal, purgeOutstandingWrites, listen, unlisten, onDisconnectOperation,
       refreshAuthToken, FetchReturns, open, goOffline, goOnline, Resume, interruptForReason,
       enteringForeground, RetryFires, FetchFails, StaleFetchReturns, onHandshake, restoreState,
       ServerDecides, LateWrite, AuthSucceeds, AuthFails, PutAnswered, ListenAnswered,
       OnDisconnectAnswered, onAuthRevoked, TokenTurnedDown, onDisconnect, ConnectionLost, onKill,
       Next, Deliver, vars
  <2>2. \A o \in OnDisconnects : Append(onDisconnectQueue, o) \in Seq(OnDisconnects)
    BY <1>0
  <2> QED  BY <1>0, <1>2, <2>1, <2>2, Zenon
<1>5. wire' \in Seq(Request)
  <2>1. ASSUME NEW r \in Request, wire' \in {wire, Append(wire, r)} PROVE wire' \in Seq(Request)
    BY <1>0, <2>1
  <2>2. CASE putInternal
    <3>1. putCounter \in Puts
      BY <2>2, TypesSplit, ClientAssumption DEF putInternal, PutTypes, Puts
    <3> QED  BY <2>1, <2>2, <3>1, RequestsMade DEF putInternal
  <2>3. ASSUME NEW q \in Queries, listen(q) PROVE wire' \in Seq(Request)
    BY <2>1, <2>3, RequestsMade DEF listen
  <2>4. ASSUME NEW q \in Queries, unlisten(q) PROVE wire' \in Seq(Request)
    BY <1>0, <2>4, ForgetType DEF unlisten
  <2>5. ASSUME NEW o \in OnDisconnects, onDisconnectOperation(o) PROVE wire' \in Seq(Request)
    BY <2>1, <2>5, RequestsMade DEF onDisconnectOperation
  <2>6. ASSUME NEW token \in BOOLEAN, refreshAuthToken(token) PROVE wire' \in Seq(Request)
    <3>1. wire' \in {wire, Append(wire, Req("auth", 0, FALSE))}
      BY <2>6 DEF refreshAuthToken
    <3> QED  BY <2>1, <3>1, RequestsMade
  <2>7. ASSUME NEW rest \in Seq(Request), restoreState(rest) PROVE wire' \in Seq(Request)
    <3>1. PICK u \in Seq(Request), w \in Seq(Request) :
            /\ wire' = ((rest \o u) \o PutRequests(outstandingPuts)) \o w
            /\ \A i \in DOMAIN u : u[i].what = "listen"
            /\ \A i \in DOMAIN w : w[i].what = "onDisconnect"
      BY <2>7, RestoredRequests
    <3>2. PutRequests(outstandingPuts) \in Seq(Request)
      BY WritesAreNumbered, PutRequestsInOrder DEF CountInv, Bounded
    <3> QED  BY <3>1, <3>2
  <2>8. CASE onHandshake
    <3>1. wire' = Append(wire, Req("auth", 0, TRUE)) \/ restoreState(wire)
      BY <2>8 DEF onHandshake
    <3> QED  BY <1>0, <2>1, <2>7, <3>1, RequestsMade
  <2>9. ASSUME NEW i \in DOMAIN wire, ServerDecides(i) PROVE wire' \in Seq(Request)
    <3>1. PICK status \in IF wire[i].what = "onDisconnect" THEN {"ok"} ELSE {"ok", "failed"} :
            wire' = [wire EXCEPT ![i].status = status]
      BY <2>9 DEF ServerDecides
    <3> QED  BY <1>0, <3>1, DecisionType
  <2>10. CASE AuthSucceeds
    <3>1. wire # << >> /\ (wire' = Tail(wire) \/ restoreState(Tail(wire)))
      BY <2>10 DEF AuthSucceeds, Answer
    <3> QED  BY <2>7, <3>1, HeadIsRequest
  <2>11. CASE PutAnswered \/ OnDisconnectAnswered \/ ListenAnswered
    <3>1. wire # << >> /\ (wire' = Tail(wire) \/ \E q : wire' = Forget(Tail(wire), q))
      BY <2>11 DEF PutAnswered, OnDisconnectAnswered, ListenAnswered, Answer
    <3> QED  BY <3>1, HeadIsRequest, ForgetType
  <2>12. CASE \/ purgeOutstandingWrites
              \/ \E token \in BOOLEAN : FetchReturns(token)
              \/ open \/ goOnline \/ goOffline \/ enteringForeground
              \/ RetryFires \/ FetchFails \/ StaleFetchReturns
              \/ \E p \in late : LateWrite(p)
              \/ AuthFails \/ onAuthRevoked \/ ConnectionLost \/ onKill \/ UNCHANGED vars
    <3>1. wire' = wire \/ wire' = << >>
      BY <2>12 DEF purgeOutstandingWrites, FetchReturns, open, goOnline, Resume, goOffline,
         interruptForReason, enteringForeground, RetryFires, FetchFails, StaleFetchReturns,
         LateWrite, AuthFails, onAuthRevoked, TokenTurnedDown, onDisconnect, ConnectionLost,
         onKill, vars
    <3> QED  BY <1>0, <1>2, <3>1
  <2> QED
    BY <2>2, <2>3, <2>4, <2>5, <2>6, <2>8, <2>9, <2>10, <2>11, <2>12 DEF Next, Deliver
<1> QED  BY <1>1, <1>3, <1>4, <1>5 DEF RequestTypesOK

\* Only writes travel, and only writes are stored.
LEMMA WorldTypesKept ==
    ASSUME TypeOK, [Next]_vars
    PROVE  WorldTypes'
<1>0. late \subseteq Puts /\ stored \in 0..MaxPuts /\ Puts = 1..MaxPuts /\ MaxPuts \in Nat
  BY TypesSplit, ClientAssumption DEF WorldTypes, Puts
<1>1. ASSUME NEW i \in DOMAIN wire, wire[i].what = "put" PROVE wire[i].id \in Puts
  <2>1. wire \in Seq(Request)
    BY TypesSplit DEF RequestTypesOK
  <2>2. wire[i] \in Request
    BY <2>1
  <2> QED  BY <1>1, <2>2 DEF Request
<1>2. ASSUME Straggle PROVE late' \subseteq Puts
  <2>1. late' \subseteq late \cup
            {wire[i].id : i \in {j \in DOMAIN wire :
                wire[j].what = "put" /\ wire[j].status = "sent"}}
    BY <1>2 DEF Straggle
  <2> QED  BY <1>0, <1>1, <2>1
<1>3. CASE goOffline \/ onKill \/ AuthFails \/ onAuthRevoked \/ ConnectionLost
  <2>1. UNCHANGED stored /\ (Straggle \/ UNCHANGED late)
    BY <1>3 DEF goOffline, onKill, AuthFails, onAuthRevoked, ConnectionLost, TokenTurnedDown,
       interruptForReason, onDisconnect
  <2> QED  BY <1>0, <1>2, <2>1 DEF WorldTypes
<1>4. CASE \E i \in DOMAIN wire : ServerDecides(i)
  <2> PICK i \in DOMAIN wire : ServerDecides(i)
    BY <1>4
  <2>1. UNCHANGED late /\ (stored' = stored \/ (wire[i].what = "put" /\ stored' = wire[i].id))
    BY DEF ServerDecides
  <2> QED  BY <1>0, <1>1, <2>1 DEF WorldTypes
<1>5. CASE \E p \in late : LateWrite(p)
  BY <1>0, <1>5 DEF LateWrite, WorldTypes
<1>6. CASE \/ putInternal \/ purgeOutstandingWrites
           \/ \E q \in Queries : listen(q) \/ unlisten(q)
           \/ \E o \in OnDisconnects : onDisconnectOperation(o)
           \/ \E token \in BOOLEAN : refreshAuthToken(token) \/ FetchReturns(token)
           \/ open \/ goOnline \/ enteringForeground
           \/ RetryFires \/ FetchFails \/ StaleFetchReturns \/ onHandshake
           \/ AuthSucceeds \/ PutAnswered \/ ListenAnswered \/ OnDisconnectAnswered
           \/ UNCHANGED vars
  <2>1. UNCHANGED <<late, stored>>
    BY <1>6 DEF putInternal, purgeOutstandingWrites, listen, unlisten, onDisconnectOperation,
       refreshAuthToken, FetchReturns, open, goOnline, Resume, enteringForeground, RetryFires,
       FetchFails, StaleFetchReturns, onHandshake, AuthSucceeds, PutAnswered, ListenAnswered,
       OnDisconnectAnswered, vars, worldVars
  <2> QED  BY <1>0, <2>1 DEF WorldTypes
<1> QED  BY <1>3, <1>4, <1>5, <1>6 DEF Next, Deliver

\* Every variable of the client, the network and the server has its type, for any
\* number of writes, queries, operations and failures.
THEOREM TypeCorrect == Spec => []TypeOK
<1>1. TypeOK /\ CountInv /\ CountInv' /\ IInv' /\ [Next]_vars => TypeOK'
  <2> SUFFICES ASSUME TypeOK, CountInv, CountInv', IInv', [Next]_vars PROVE TypeOK'
    OBVIOUS
  <2>1. (TokenTypes /\ ConnectionTypes /\ PutTypes /\ RequestTypesOK /\ WorldTypes)'
    BY TokenTypesKept, ConnectionTypesKept, PutTypesKept, RequestTypesKept, WorldTypesKept
  <2>2. (TokenTypes /\ ConnectionTypes /\ PutTypes /\ RequestTypesOK /\ WorldTypes)' => TypeOK'
    BY TypesSplit, PTL
  <2> QED  BY <2>1, <2>2
<1> QED  BY <1>1, InitTypes, InitIInv, NextIInv, InitCountInv, NextCountInv, PTL DEF Spec

-----------------------------------------------------------------------------
(* The writes on the wire.                                                 *)

\* The writes that w carries, with what the server said of them.
Carried(w) == {<<w[i].id, w[i].status>> : i \in {j \in DOMAIN w : w[j].what = "put"}}

\* They are in the order of their numbers.
WritesInOrder(w) ==
    \A i, j \in DOMAIN w : i < j /\ w[i].what = "put" /\ w[j].what = "put" => w[i].id < w[j].id

\* The places of the requests whose answer restores the state.
Restorers(w) == {i \in DOMAIN w : w[i].what = "auth" /\ w[i].flag}

LEMMA CarriedTypes ==
    ASSUME NEW w \in Seq(Request)
    PROVE  Carried(w) \subseteq Puts \X {"sent", "ok", "failed"}
<1>1. \A r \in Request : r.what = "put" => r.id \in Puts /\ r.status \in {"sent", "ok", "failed"}
  BY DEF Request
<1>2. \A i \in DOMAIN w : w[i] \in Request
  OBVIOUS
<1> QED  BY <1>1, <1>2 DEF Carried

\* A write is carried once.
LEMMA CarriedOnce ==
    ASSUME NEW w \in Seq(Request), WritesInOrder(w), Puts \in SUBSET Nat,
           NEW i \in DOMAIN w, NEW j \in DOMAIN w, w[i].what = "put", w[j].what = "put",
           w[i].id = w[j].id
    PROVE  i = j
<1>1. \A r \in Request : r.what = "put" => r.id \in Puts
  BY DEF Request
<1>2. w[i].id \in Nat /\ i \in Nat /\ j \in Nat
  <2>1. w[i] \in Request /\ DOMAIN w = 1..Len(w) /\ Len(w) \in Nat
    OBVIOUS
  <2>2. w[i].id \in Puts
    BY <1>1, <2>1
  <2>3. w[i].id \in Nat
    BY <2>2
  <2> QED  BY <2>1, <2>3
<1>3. (i < j => w[i].id < w[j].id) /\ (j < i => w[j].id < w[i].id)
  BY DEF WritesInOrder
<1> QED  BY <1>2, <1>3

LEMMA CarriedEmpty == Carried(<< >>) = {} /\ WritesInOrder(<< >>) /\ Restorers(<< >>) = {}
<1>1. DOMAIN << >> = {}
  OBVIOUS
<1> QED  BY <1>1 DEF Carried, WritesInOrder, Restorers

\* One more request.
LEMMA CarriedAppend ==
    ASSUME NEW w \in Seq(Request), WritesInOrder(w), NEW r \in Request
    PROVE  /\ r.what # "put" => WritesInOrder(Append(w, r)) /\ Carried(Append(w, r)) = Carried(w)
           /\ r.what = "put" /\ (\A c \in Carried(w) : c[1] < r.id) =>
                /\ WritesInOrder(Append(w, r))
                /\ Carried(Append(w, r)) = Carried(w) \cup {<<r.id, r.status>>}
           /\ r.what # "auth" \/ ~r.flag => Restorers(Append(w, r)) = Restorers(w)
<1> DEFINE v == Append(w, r)
           n == Len(w)
<1>1. /\ n \in Nat /\ DOMAIN w = 1..n /\ DOMAIN v = 1..(n + 1) /\ v \in Seq(Request)
      /\ v[n + 1] = r /\ \A i \in 1..n : v[i] = w[i]
  OBVIOUS
<1> HIDE DEF v, n
<1>2. ASSUME r.what # "put" PROVE WritesInOrder(v) /\ Carried(v) = Carried(w)
  <2>1. \A i \in DOMAIN v : v[i].what = "put" => i \in DOMAIN w /\ v[i] = w[i]
    BY <1>1, <1>2
  <2>2. \A i \in DOMAIN w : i \in DOMAIN v /\ v[i] = w[i]
    BY <1>1
  <2>3. {j \in DOMAIN v : v[j].what = "put"} = {j \in DOMAIN w : w[j].what = "put"}
    BY <2>1, <2>2
  <2>4. Carried(v) = Carried(w)
    BY <2>1, <2>3 DEF Carried
  <2> QED  BY <2>1, <2>4 DEF WritesInOrder
<1>3. ASSUME r.what = "put", \A c \in Carried(w) : c[1] < r.id
      PROVE  WritesInOrder(v) /\ Carried(v) = Carried(w) \cup {<<r.id, r.status>>}
  <2>1. \A i \in DOMAIN w : i \in DOMAIN v /\ v[i] = w[i] /\ i # n + 1
    BY <1>1
  <2>2. \A i \in DOMAIN v : i \in DOMAIN w \/ i = n + 1
    BY <1>1
  <2>3. {j \in DOMAIN v : v[j].what = "put"} = {j \in DOMAIN w : w[j].what = "put"} \cup {n + 1}
    BY <1>1, <1>3, <2>1, <2>2
  <2>4. Carried(v) = Carried(w) \cup {<<r.id, r.status>>}
    BY <1>1, <2>1, <2>3 DEF Carried
  <2>5. \A i \in DOMAIN w : w[i].what = "put" => w[i].id < r.id
    <3>1. \A i \in DOMAIN w : w[i].what = "put" => <<w[i].id, w[i].status>> \in Carried(w)
      BY DEF Carried
    <3> QED  BY <1>3, <3>1
  <2>6. ASSUME NEW i \in DOMAIN v, NEW j \in DOMAIN v, i < j, v[i].what = "put", v[j].what = "put"
        PROVE  v[i].id < v[j].id
    <3>1. i \in DOMAIN w /\ v[i] = w[i]
      BY <1>1, <2>6
    <3>2. CASE j = n + 1
      BY <1>1, <2>5, <2>6, <3>1, <3>2
    <3>3. CASE j # n + 1
      <4>1. j \in DOMAIN w /\ v[j] = w[j]
        BY <2>1, <2>2, <3>3
      <4> QED  BY <2>6, <3>1, <4>1 DEF WritesInOrder
    <3> QED  BY <3>2, <3>3
  <2> QED  BY <2>4, <2>6 DEF WritesInOrder
<1>4. ASSUME r.what # "auth" \/ ~r.flag PROVE Restorers(v) = Restorers(w)
  <2>1. \A i \in DOMAIN w : i \in DOMAIN v /\ v[i] = w[i]
    BY <1>1
  <2>2. \A i \in DOMAIN v : i \in DOMAIN w \/ i = n + 1
    BY <1>1
  <2>3. n + 1 \notin Restorers(v)
    BY <1>1, <1>4 DEF Restorers
  <2> QED  BY <2>1, <2>2, <2>3 DEF Restorers
<1> QED  BY <1>2, <1>3, <1>4 DEF v

\* The oldest request is answered.
LEMMA CarriedTail ==
    ASSUME NEW w \in Seq(Request), WritesInOrder(w), Puts \in SUBSET Nat, w # << >>
    PROVE  /\ WritesInOrder(Tail(w))
           /\ w[1].what # "put" => Carried(Tail(w)) = Carried(w)
           /\ w[1].what = "put" => /\ Carried(Tail(w)) = Carried(w) \ {<<w[1].id, w[1].status>>}
                                   /\ \A c \in Carried(Tail(w)) : w[1].id < c[1]
           /\ Restorers(w) \subseteq {1} => Restorers(Tail(w)) = {}
<1> DEFINE v == Tail(w)
           n == Len(w)
<1>1. /\ n \in Nat \ {0} /\ DOMAIN w = 1..n /\ DOMAIN v = 1..(n - 1)
      /\ \A i \in 1..(n - 1) : v[i] = w[i + 1]
  OBVIOUS
<1> HIDE DEF v, n
<1>2. \A i \in DOMAIN v : i \in Nat /\ i + 1 \in DOMAIN w /\ v[i] = w[i + 1] /\ 1 < i + 1
  BY <1>1
<1>3. \A j \in DOMAIN w \ {1} : j \in Nat /\ j - 1 \in DOMAIN v /\ v[j - 1] = w[j]
  <2> SUFFICES ASSUME NEW j \in DOMAIN w \ {1}
               PROVE  j \in Nat /\ j - 1 \in DOMAIN v /\ v[j - 1] = w[j]
    OBVIOUS
  <2>1. j \in Nat /\ j - 1 \in 1..(n - 1) /\ (j - 1) + 1 = j
    BY <1>1
  <2> QED  BY <1>1, <2>1
<1>4. WritesInOrder(v)
  <2> SUFFICES ASSUME NEW i \in DOMAIN v, NEW j \in DOMAIN v, i < j, v[i].what = "put",
                      v[j].what = "put"
               PROVE  v[i].id < v[j].id
    BY DEF WritesInOrder
  <2>1. /\ i + 1 \in DOMAIN w /\ j + 1 \in DOMAIN w /\ v[i] = w[i + 1] /\ v[j] = w[j + 1]
        /\ i + 1 < j + 1
    BY <1>2
  <2> QED  BY <2>1 DEF WritesInOrder
<1>5. \A c \in Carried(v) :
        \E j \in DOMAIN w \ {1} : w[j].what = "put" /\ c = <<w[j].id, w[j].status>>
  <2> SUFFICES ASSUME NEW i \in DOMAIN v, v[i].what = "put"
               PROVE  \E j \in DOMAIN w \ {1} : /\ w[j].what = "put"
                            /\ <<v[i].id, v[i].status>> = <<w[j].id, w[j].status>>
    BY DEF Carried
  <2>1. i + 1 \in DOMAIN w \ {1} /\ v[i] = w[i + 1]
    BY <1>2
  <2> QED  BY <2>1
<1>6. \A j \in DOMAIN w \ {1} : w[j].what = "put" => <<w[j].id, w[j].status>> \in Carried(v)
  <2> SUFFICES ASSUME NEW j \in DOMAIN w \ {1}, w[j].what = "put"
               PROVE  <<w[j].id, w[j].status>> \in Carried(v)
    OBVIOUS
  <2>1. j - 1 \in DOMAIN v /\ v[j - 1] = w[j]
    BY <1>3
  <2>2. <<v[j - 1].id, v[j - 1].status>> \in Carried(v)
    BY <2>1 DEF Carried
  <2> QED  BY <2>1, <2>2
<1>7. /\ \A c \in Carried(w) : \E j \in DOMAIN w : w[j].what = "put" /\ c = <<w[j].id, w[j].status>>
      /\ \A j \in DOMAIN w : w[j].what = "put" => <<w[j].id, w[j].status>> \in Carried(w)
  BY DEF Carried
<1>8. ASSUME w[1].what # "put" PROVE Carried(v) = Carried(w)
  <2>1. \A c \in Carried(w) : c \in Carried(v)
    <3> SUFFICES ASSUME NEW c \in Carried(w) PROVE c \in Carried(v)
      OBVIOUS
    <3>1. PICK j \in DOMAIN w : w[j].what = "put" /\ c = <<w[j].id, w[j].status>>
      BY <1>7
    <3> QED  BY <1>6, <1>8, <3>1
  <2>2. \A c \in Carried(v) : c \in Carried(w)
    <3> SUFFICES ASSUME NEW c \in Carried(v) PROVE c \in Carried(w)
      OBVIOUS
    <3>1. PICK j \in DOMAIN w \ {1} : w[j].what = "put" /\ c = <<w[j].id, w[j].status>>
      BY <1>5
    <3> QED  BY <1>7, <3>1
  <2> QED  BY <2>1, <2>2
<1>9. ASSUME w[1].what = "put"
      PROVE  /\ \A c \in Carried(v) : w[1].id < c[1]
             /\ Carried(v) = Carried(w) \ {<<w[1].id, w[1].status>>}
  <2>1. 1 \in DOMAIN w /\ \A j \in DOMAIN w \ {1} : 1 < j
    BY <1>1
  <2>2. \A j \in DOMAIN w \ {1} : w[j].what = "put" => w[1].id < w[j].id
    BY <1>9, <2>1 DEF WritesInOrder
  <2>3. \A j \in DOMAIN w \ {1} : w[j].what = "put" => w[1].id # w[j].id
    BY <1>9, <2>1, CarriedOnce
  <2>4. \A c \in Carried(v) : w[1].id < c[1] /\ c # <<w[1].id, w[1].status>>
    <3> SUFFICES ASSUME NEW c \in Carried(v)
                 PROVE  w[1].id < c[1] /\ c # <<w[1].id, w[1].status>>
      OBVIOUS
    <3>1. PICK j \in DOMAIN w \ {1} : w[j].what = "put" /\ c = <<w[j].id, w[j].status>>
      BY <1>5
    <3> QED  BY <2>2, <2>3, <3>1
  <2>5. Carried(v) \subseteq Carried(w)
    BY <1>5, <1>7
  <2>6. \A c \in Carried(w) : c = <<w[1].id, w[1].status>> \/ c \in Carried(v)
    BY <1>6, <1>7
  <2> QED  BY <2>4, <2>5, <2>6
<1>10. ASSUME Restorers(w) \subseteq {1} PROVE Restorers(v) = {}
  <2> SUFFICES ASSUME NEW i \in Restorers(v) PROVE FALSE
    OBVIOUS
  <2>1. i \in Nat /\ i + 1 \in DOMAIN w /\ v[i] = w[i + 1] /\ 1 < i + 1
        /\ v[i].what = "auth" /\ v[i].flag
    BY <1>2 DEF Restorers
  <2>2. i + 1 \in Restorers(w)
    BY <2>1 DEF Restorers
  <2> QED  BY <1>10, <2>1, <2>2
<1> QED  BY <1>4, <1>8, <1>9, <1>10 DEF v

\* The requests change in what the writes do not share.
LEMMA CarriedSame ==
    ASSUME NEW w, NEW v, WritesInOrder(w), DOMAIN v = DOMAIN w,
           \A i \in DOMAIN w : v[i].what = w[i].what /\ v[i].id = w[i].id,
           \A i \in DOMAIN w : w[i].what = "put" => v[i].status = w[i].status
    PROVE  WritesInOrder(v) /\ Carried(v) = Carried(w)
<1>1. {j \in DOMAIN v : v[j].what = "put"} = {j \in DOMAIN w : w[j].what = "put"}
  OBVIOUS
<1>2. Carried(v) = Carried(w)
  BY <1>1 DEF Carried
<1>3. WritesInOrder(v)
  BY DEF WritesInOrder
<1> QED  BY <1>2, <1>3

\* A query is no longer listened to.
LEMMA CarriedForget ==
    ASSUME NEW w \in Seq(Request), WritesInOrder(w), NEW q
    PROVE  /\ WritesInOrder(Forget(w, q)) /\ Carried(Forget(w, q)) = Carried(w)
           /\ Restorers(Forget(w, q)) = Restorers(w)
<1> DEFINE v == Forget(w, q)
<1>1. DOMAIN w = 1..Len(w) /\ Len(w) \in Nat /\ \A i \in DOMAIN w : w[i] \in Request
  OBVIOUS
<1>2. \A x \in Request : LET y == [x EXCEPT !.flag = FALSE]
                         IN  y.what = x.what /\ y.id = x.id /\ y.status = x.status
  BY DEF Request
<1>3. /\ DOMAIN v = DOMAIN w
      /\ \A i \in DOMAIN w : \/ v[i] = w[i]
                             \/ w[i].what # "auth" /\ v[i] = [w[i] EXCEPT !.flag = FALSE]
  BY <1>1 DEF Forget
<1> HIDE DEF v
<1>4. \A i \in DOMAIN w : /\ v[i].what = w[i].what /\ v[i].id = w[i].id
                          /\ v[i].status = w[i].status
                          /\ w[i].what = "auth" => v[i] = w[i]
  BY <1>1, <1>2, <1>3
<1>5. WritesInOrder(v) /\ Carried(v) = Carried(w)
  BY <1>3, <1>4, CarriedSame
<1>6. Restorers(v) = Restorers(w)
  BY <1>3, <1>4 DEF Restorers
<1> QED  BY <1>5, <1>6 DEF v

\* One request's status changes.
Decided(w, v, i, status) ==
    /\ DOMAIN v = DOMAIN w
    /\ \A j \in DOMAIN w : v[j].what = w[j].what /\ v[j].id = w[j].id /\ v[j].flag = w[j].flag
    /\ \A j \in DOMAIN w \ {i} : v[j].status = w[j].status
    /\ v[i].status = status

\* The server decides a request.
LEMMA CarriedDecision ==
    ASSUME NEW w \in Seq(Request), WritesInOrder(w), Puts \in SUBSET Nat, NEW i \in DOMAIN w,
           NEW status, w[i].status = "sent", NEW v, Decided(w, v, i, status)
    PROVE  /\ WritesInOrder(v) /\ Restorers(v) = Restorers(w)
           /\ w[i].what = "put" =>
                Carried(v) = (Carried(w) \ {<<w[i].id, "sent">>}) \cup {<<w[i].id, status>>}
<1>1. DOMAIN w = 1..Len(w) /\ Len(w) \in Nat /\ \A j \in DOMAIN w : w[j] \in Request
  OBVIOUS
<1>3. DOMAIN v = DOMAIN w /\ \A j \in DOMAIN w \ {i} : v[j].status = w[j].status
  BY DEF Decided
<1>4. /\ \A j \in DOMAIN w : v[j].what = w[j].what /\ v[j].id = w[j].id /\ v[j].flag = w[j].flag
      /\ v[i].status = status
  BY DEF Decided
<1>5. WritesInOrder(v)
  BY <1>3, <1>4 DEF WritesInOrder
<1>6. Restorers(v) = Restorers(w)
  BY <1>3, <1>4 DEF Restorers
<1>8. ASSUME w[i].what = "put"
      PROVE  Carried(v) = (Carried(w) \ {<<w[i].id, "sent">>}) \cup {<<w[i].id, status>>}
  <2>1. \A j \in DOMAIN w \ {i} : w[j].what = "put" => w[j].id # w[i].id
    BY <1>8, CarriedOnce
  <2>2. ASSUME NEW c \in Carried(v)
        PROVE  c \in (Carried(w) \ {<<w[i].id, "sent">>}) \cup {<<w[i].id, status>>}
    <3>1. PICK j \in DOMAIN v : v[j].what = "put" /\ c = <<v[j].id, v[j].status>>
      BY DEF Carried
    <3>2. CASE j = i
      BY <1>3, <1>4, <3>1, <3>2
    <3>3. CASE j # i
      <4>1. /\ j \in DOMAIN w \ {i} /\ w[j].what = "put"
            /\ v[j].id = w[j].id /\ v[j].status = w[j].status
        BY <1>3, <1>4, <3>1, <3>3
      <4>2. c = <<w[j].id, w[j].status>> /\ w[j].id # w[i].id
        BY <2>1, <3>1, <4>1
      <4>3. c \in Carried(w)
        BY <4>1, <4>2 DEF Carried
      <4> QED  BY <4>2, <4>3
    <3> QED  BY <3>2, <3>3
  <2>3. ASSUME NEW c \in Carried(w), c # <<w[i].id, "sent">> PROVE c \in Carried(v)
    <3>1. PICK j \in DOMAIN w : w[j].what = "put" /\ c = <<w[j].id, w[j].status>>
      BY DEF Carried
    <3>2. j # i
      BY <2>3, <3>1
    <3>3. /\ j \in DOMAIN v /\ v[j].what = w[j].what
          /\ v[j].id = w[j].id /\ v[j].status = w[j].status
      BY <1>3, <1>4, <3>2
    <3> QED  BY <3>1, <3>3 DEF Carried
  <2>4. <<w[i].id, status>> \in Carried(v)
    <3>1. i \in DOMAIN v /\ v[i].what = "put" /\ <<v[i].id, v[i].status>> = <<w[i].id, status>>
      BY <1>3, <1>4, <1>8
    <3> QED  BY <3>1 DEF Carried
  <2> QED  BY <2>2, <2>3, <2>4
<1> QED  BY <1>5, <1>6, <1>8

\* A decision about another request.
LEMMA DecisionOther ==
    ASSUME NEW w, WritesInOrder(w), NEW v, NEW i \in DOMAIN w, NEW status,
           Decided(w, v, i, status), w[i].what # "put"
    PROVE  Carried(v) = Carried(w)
<1>1. /\ DOMAIN v = DOMAIN w
      /\ \A j \in DOMAIN w : v[j].what = w[j].what /\ v[j].id = w[j].id
  BY DEF Decided
<1>2. \A j \in DOMAIN w : w[j].what = "put" => v[j].status = w[j].status
  BY DEF Decided
<1> QED  BY <1>1, <1>2, CarriedSame

\* What the server decides.
LEMMA DecisionMade ==
    ASSUME TypeOK, NEW i \in DOMAIN wire, ServerDecides(i)
    PROVE  \E status \in {"ok", "failed"} :
                /\ Decided(wire, wire', i, status)
                /\ stored' = IF wire[i].what = "put" /\ status = "ok" THEN wire[i].id ELSE stored
<1>1. PICK status \in {"ok", "failed"} :
            /\ wire' = [wire EXCEPT ![i].status = status]
            /\ stored' = IF wire[i].what = "put" /\ status = "ok" THEN wire[i].id ELSE stored
  BY DEF ServerDecides
<1>2. wire \in Seq(Request) /\ wire[i] \in Request
  BY TypesSplit DEF RequestTypesOK
<1>3. \A x \in Request : LET y == [x EXCEPT !.status = status]
                         IN  y.what = x.what /\ y.id = x.id /\ y.flag = x.flag /\ y.status = status
  BY DEF Request
<1> DEFINE y == [wire[i] EXCEPT !.status = status]
<1>4. y.what = wire[i].what /\ y.id = wire[i].id /\ y.flag = wire[i].flag /\ y.status = status
  BY <1>2, <1>3
<1>5. /\ DOMAIN wire' = DOMAIN wire /\ wire'[i] = y
      /\ \A j \in DOMAIN wire \ {i} : wire'[j] = wire[j]
  BY <1>1, <1>2
<1> HIDE DEF y
<1>6. Decided(wire, wire', i, status)
  BY <1>4, <1>5 DEF Decided
<1>7. stored' = IF wire[i].what = "put" /\ status = "ok" THEN wire[i].id ELSE stored
  BY <1>1
<1> QED  BY <1>6, <1>7

\* Requests are sent behind w.
LEMMA CarriedConcat ==
    ASSUME NEW w \in Seq(Request), WritesInOrder(w), NEW v \in Seq(Request), WritesInOrder(v),
           \A a \in Carried(w), b \in Carried(v) : a[1] < b[1]
    PROVE  /\ w \o v \in Seq(Request)
           /\ WritesInOrder(w \o v) /\ Carried(w \o v) = Carried(w) \cup Carried(v)
           /\ Restorers(w) = {} /\ Restorers(v) = {} => Restorers(w \o v) = {}
<1> DEFINE z == w \o v
           m == Len(w)
           n == Len(v)
<1>1. /\ z \in Seq(Request) /\ m \in Nat /\ n \in Nat
      /\ DOMAIN w = 1..m /\ DOMAIN v = 1..n /\ DOMAIN z = 1..(m + n)
      /\ \A i \in 1..(m + n) : z[i] = IF i <= m THEN w[i] ELSE v[i - m]
  <2>1. /\ w \o v \in Seq(Request)
        /\ Len(w \o v) = Len(w) + Len(v)
        /\ \A i \in 1..(Len(w) + Len(v)) :
                (w \o v)[i] = IF i <= Len(w) THEN w[i] ELSE v[i - Len(w)]
    BY ConcatProperties
  <2>2. m \in Nat /\ n \in Nat /\ DOMAIN w = 1..m /\ DOMAIN v = 1..n /\ DOMAIN z = 1..Len(z)
    BY <2>1
  <2> QED  BY <2>1, <2>2
<1> HIDE DEF z, m, n
<1>2. \A i \in DOMAIN w : i \in DOMAIN z /\ z[i] = w[i]
  BY <1>1
<1>3. ASSUME NEW i \in DOMAIN v PROVE i + m \in DOMAIN z /\ z[i + m] = v[i]
  <2>1. i + m \in 1..(m + n) /\ ~(i + m <= m) /\ (i + m) - m = i
    BY <1>1
  <2> QED  BY <1>1, <2>1
<1>4. ASSUME NEW i \in DOMAIN z
      PROVE  i \in DOMAIN w \/ (i - m \in DOMAIN v /\ z[i] = v[i - m] /\ i > m)
  BY <1>1
<1>5. /\ \A i \in DOMAIN w : w[i].what = "put" => <<w[i].id, w[i].status>> \in Carried(w)
      /\ \A i \in DOMAIN v : v[i].what = "put" => <<v[i].id, v[i].status>> \in Carried(v)
  BY DEF Carried
<1>6. Carried(z) \subseteq Carried(w) \cup Carried(v)
  <2> SUFFICES ASSUME NEW i \in DOMAIN z, z[i].what = "put"
               PROVE  <<z[i].id, z[i].status>> \in Carried(w) \cup Carried(v)
    BY DEF Carried
  <2>1. CASE i \in DOMAIN w
    BY <1>2, <1>5, <2>1
  <2>2. CASE i \notin DOMAIN w
    BY <1>4, <1>5, <2>2
  <2> QED  BY <2>1, <2>2
<1>7. Carried(w) \subseteq Carried(z)
  BY <1>2 DEF Carried
<1>8. Carried(v) \subseteq Carried(z)
  <2> SUFFICES ASSUME NEW i \in DOMAIN v, v[i].what = "put"
               PROVE  <<v[i].id, v[i].status>> \in Carried(z)
    BY DEF Carried
  <2>1. i + m \in DOMAIN z /\ z[i + m] = v[i]
    BY <1>3
  <2>2. <<z[i + m].id, z[i + m].status>> \in Carried(z)
    BY <2>1 DEF Carried
  <2> QED  BY <2>1, <2>2
<1>9. ASSUME NEW i \in DOMAIN z, NEW j \in DOMAIN z, i < j, z[i].what = "put", z[j].what = "put"
      PROVE  z[i].id < z[j].id
  <2>1. CASE j \in DOMAIN w
    <3>1. i \in DOMAIN w
      BY <1>1, <1>9, <2>1
    <3> QED  BY <1>2, <1>9, <2>1, <3>1 DEF WritesInOrder
  <2>2. CASE i \in DOMAIN w /\ j \notin DOMAIN w
    <3>1. /\ <<w[i].id, w[i].status>> \in Carried(w) /\ z[i] = w[i]
          /\ z[j] = v[j - m] /\ <<v[j - m].id, v[j - m].status>> \in Carried(v)
      BY <1>2, <1>4, <1>5, <1>9, <2>2
    <3>2. <<w[i].id, w[i].status>>[1] < <<v[j - m].id, v[j - m].status>>[1]
      BY <3>1
    <3> QED  BY <3>1, <3>2
  <2>3. CASE i \notin DOMAIN w /\ j \notin DOMAIN w
    <3>1. i - m \in DOMAIN v /\ j - m \in DOMAIN v /\ z[i] = v[i - m] /\ z[j] = v[j - m]
      BY <1>4, <2>3
    <3>2. i - m < j - m
      BY <1>1, <1>9
    <3> QED  BY <1>9, <3>1, <3>2 DEF WritesInOrder
  <2> QED  BY <2>1, <2>2, <2>3
<1>10. WritesInOrder(z)
  BY <1>9 DEF WritesInOrder
<1>11. Restorers(w) = {} /\ Restorers(v) = {} => Restorers(z) = {}
  BY <1>2, <1>4 DEF Restorers
<1> QED  BY <1>1, <1>6, <1>7, <1>8, <1>10, <1>11 DEF z

\* Restoring the state sends every outstanding write.
LEMMA CarriedRestored ==
    ASSUME TypeOK, CountInv, NEW rest \in Seq(Request), Carried(rest) = {}, WritesInOrder(rest),
           Restorers(rest) = {}, restoreState(rest)
    PROVE  /\ WritesInOrder(wire') /\ Restorers(wire') = {}
           /\ Carried(wire') = {<<p, "sent">> : p \in outstandingPuts}
<1>1. PICK u \in Seq(Request), w \in Seq(Request) :
        /\ wire' = ((rest \o u) \o PutRequests(outstandingPuts)) \o w
        /\ \A i \in DOMAIN u : u[i].what = "listen"
        /\ \A i \in DOMAIN w : w[i].what = "onDisconnect"
  BY RestoredRequests
<1>2. /\ Carried(u) = {} /\ WritesInOrder(u) /\ Restorers(u) = {}
      /\ Carried(w) = {} /\ WritesInOrder(w) /\ Restorers(w) = {}
  BY <1>1 DEF Carried, WritesInOrder, Restorers
<1> DEFINE v == PutRequests(outstandingPuts)
           n == Cardinality(outstandingPuts)
           f == InOrder(outstandingPuts)
<1>3. /\ v = [i \in 1..n |-> Req("put", f[i], TRUE)] /\ v \in Seq(Request)
      /\ n \in Nat /\ f \in [1..n -> outstandingPuts]
      /\ \A i, j \in 1..n : i < j => f[i] < f[j]
      /\ \A p \in outstandingPuts : \E i \in 1..n : f[i] = p
  BY WritesAreNumbered, PutRequestsInOrder DEF CountInv, Bounded
<1> HIDE DEF v, n, f
<1>4. /\ DOMAIN v = 1..n
      /\ \A i \in 1..n : v[i].what = "put" /\ v[i].id = f[i] /\ v[i].status = "sent"
  BY <1>3 DEF Req
<1>5. WritesInOrder(v)
  <2> SUFFICES ASSUME NEW i \in 1..n, NEW j \in 1..n, i < j PROVE v[i].id < v[j].id
    BY <1>4 DEF WritesInOrder
  <2>1. v[i].id = f[i] /\ v[j].id = f[j]
    BY <1>4
  <2> QED  BY <1>3, <2>1
<1>6. Carried(v) = {<<p, "sent">> : p \in outstandingPuts} /\ Restorers(v) = {}
  <2>1. Carried(v) = {<<f[i], "sent">> : i \in 1..n}
    <3>1. {j \in DOMAIN v : v[j].what = "put"} = 1..n
      BY <1>4
    <3> QED  BY <1>4, <3>1 DEF Carried
  <2>2. Restorers(v) = {}
    BY <1>4 DEF Restorers
  <2> QED  BY <1>3, <2>1, <2>2
<1> DEFINE x == rest \o u
           y == x \o v
           z == y \o w
<1>7. x \in Seq(Request) /\ WritesInOrder(x) /\ Carried(x) = {} /\ Restorers(x) = {}
  BY <1>2, CarriedConcat
<1>8. y \in Seq(Request) /\ WritesInOrder(y) /\ Carried(y) = Carried(v) /\ Restorers(y) = {}
  <2> HIDE DEF x
  <2>1. \A a \in Carried(x), b \in Carried(v) : a[1] < b[1]
    BY <1>7
  <2>2. y \in Seq(Request) /\ WritesInOrder(y) /\ Carried(y) = Carried(x) \cup Carried(v)
        /\ Restorers(y) = {}
    BY <1>3, <1>5, <1>6, <1>7, <2>1, CarriedConcat
  <2> HIDE DEF y
  <2> QED  BY <1>7, <2>2
<1>9. WritesInOrder(z) /\ Carried(z) = Carried(v) /\ Restorers(z) = {}
  <2> HIDE DEF y
  <2>1. \A a \in Carried(y), b \in Carried(w) : a[1] < b[1]
    BY <1>2
  <2>2. WritesInOrder(z) /\ Carried(z) = Carried(y) \cup Carried(w) /\ Restorers(z) = {}
    BY <1>2, <1>8, <2>1, CarriedConcat
  <2> HIDE DEF z
  <2> QED  BY <1>2, <1>8, <2>2
<1>10. wire' = z
  BY <1>1 DEF v
<1> HIDE DEF z
<1> QED  BY <1>6, <1>9, <1>10


-----------------------------------------------------------------------------
(* What is outstanding is on the wire.                                     *)

\* Every outstanding write is on the wire of a client that is connected.
WritesSent ==
    connectionState = "Connected" =>
        /\ \A p \in outstandingPuts : \E c \in Carried(wire) : c[1] = p
        /\ onDisconnectQueue = << >>

\* No write is sent before the state is restored, and the first answer to come
\* is the one that restores it.
WireInv ==
    /\ WritesInOrder(wire)
    /\ \A c \in Carried(wire) : c[1] < putCounter
    /\ connectionState # "Connected" => Carried(wire) = {}
    /\ Restorers(wire) = IF connectionState = "Authenticating" THEN {1} ELSE {}
    /\ WritesSent

LEMMA InitWireInv == Init => WireInv
  BY CarriedEmpty DEF Init, WireInv, WritesSent

\* Without a connection nothing is on the wire.
LEMMA OfflineWire == ASSUME IInv', realtime' # "CONNECTED" PROVE WireInv'
<1>1. wire' = << >> /\ connectionState' \notin {"Authenticating", "Connected"}
  BY DEF IInv, WireAgrees, StatesAgree, connected
<1> QED  BY <1>1, CarriedEmpty DEF WireInv, WritesSent

\* The writes on the wire stay as they are.
LEMMA SameWrites ==
    ASSUME WireInv, WritesInOrder(wire'), Carried(wire') = Carried(wire),
           UNCHANGED <<connectionState, putCounter>>, outstandingPuts' \subseteq outstandingPuts,
           connectionState = "Connected" => onDisconnectQueue' \in {onDisconnectQueue, << >>},
           Restorers(wire') = Restorers(wire)
    PROVE  WireInv'
  BY DEF WireInv, WritesSent

\* One more request, which is no write.
LEMMA SendOther ==
    ASSUME TypeOK, WireInv, NEW r \in Request, r.what # "put",
           r.what # "auth" \/ ~r.flag, wire' \in {wire, Append(wire, r)},
           UNCHANGED <<connectionState, putCounter, outstandingPuts>>,
           connectionState = "Connected" => onDisconnectQueue' \in {onDisconnectQueue, << >>}
    PROVE  WireInv'
<1>1. wire \in Seq(Request) /\ WritesInOrder(wire)
  BY TypesSplit DEF RequestTypesOK, WireInv
<1>2. /\ WritesInOrder(wire') /\ Carried(wire') = Carried(wire)
      /\ Restorers(wire') = Restorers(wire)
  BY <1>1, CarriedAppend
<1> QED  BY <1>2, SameWrites DEF WireInv

\* The state is restored, behind requests that are no writes.
LEMMA RestoreSends ==
    ASSUME TypeOK, CountInv, NEW rest \in Seq(Request), Carried(rest) = {}, WritesInOrder(rest),
           Restorers(rest) = {}, restoreState(rest), connectionState' = "Connected",
           UNCHANGED <<outstandingPuts, putCounter>>
    PROVE  WireInv'
<1>1. /\ WritesInOrder(wire') /\ Carried(wire') = {<<p, "sent">> : p \in outstandingPuts}
      /\ Restorers(wire') = {}
      /\ onDisconnectQueue' = << >>
  BY CarriedRestored DEF restoreState
<1>2. \A c \in Carried(wire') : c[1] < putCounter
  BY <1>1, WritesAreNumbered
<1>3. \A p \in outstandingPuts : \E c \in Carried(wire') : c[1] = p
  <2> SUFFICES ASSUME NEW p \in outstandingPuts PROVE \E c \in Carried(wire') : c[1] = p
    OBVIOUS
  <2>1. <<p, "sent">> \in Carried(wire')
    BY <1>1
  <2> QED  BY <2>1
<1> QED  BY <1>1, <1>2, <1>3 DEF WireInv, WritesSent

LEMMA PutSends == ASSUME TypeOK, WireInv, putInternal PROVE WireInv'
<1>0. wire \in Seq(Request) /\ WritesInOrder(wire) /\ putCounter \in Puts /\ putCounter \in Nat
  BY TypesSplit, ClientAssumption DEF RequestTypesOK, WireInv, putInternal, PutTypes, Puts
<1>1. /\ putCounter' = putCounter + 1 /\ outstandingPuts' = outstandingPuts \cup {putCounter}
      /\ UNCHANGED <<connectionState, onDisconnectQueue>>
  BY DEF putInternal, connectionVars
<1>2. CASE connectionState = "Connected"
  <2> DEFINE r == Req("put", putCounter, TRUE)
  <2>1. wire' = Append(wire, r)
    BY <1>2 DEF putInternal, canSendWrites
  <2>2. r \in Request /\ r.what = "put" /\ r.id = putCounter /\ r.status = "sent"
    BY <1>0, RequestsMade DEF Req
  <2> HIDE DEF r
  <2>3. \A c \in Carried(wire) : c[1] < r.id
    BY <2>2 DEF WireInv
  <2>4. /\ WritesInOrder(wire') /\ Carried(wire') = Carried(wire) \cup {<<putCounter, "sent">>}
        /\ Restorers(wire') = Restorers(wire)
    BY <1>0, <2>1, <2>2, <2>3, CarriedAppend
  <2>5. \A c \in Carried(wire') : c[1] < putCounter + 1
    <3>1. \A c \in Carried(wire) : c[1] < putCounter /\ c[1] \in Nat
      BY <1>0, CarriedTypes, WritesAreNumbered DEF WireInv
    <3> QED  BY <1>0, <2>4, <3>1
  <2>6. \A p \in outstandingPuts' : \E c \in Carried(wire') : c[1] = p
    <3>1. <<putCounter, "sent">> \in Carried(wire') /\ Carried(wire) \subseteq Carried(wire')
      BY <2>4
    <3> QED  BY <1>1, <1>2, <3>1 DEF WireInv, WritesSent
  <2> QED  BY <1>1, <1>2, <2>4, <2>5, <2>6 DEF WireInv, WritesSent
<1>3. CASE connectionState # "Connected"
  <2>1. wire' = wire /\ Carried(wire) = {}
    BY <1>3 DEF putInternal, canSendWrites, WireInv
  <2> QED  BY <1>1, <1>3, <2>1 DEF WireInv, WritesSent
<1> QED  BY <1>2, <1>3

\* The oldest request is answered: what it says of a write is taken off.
LEMMA AnswerTaken ==
    ASSUME TypeOK, IInv, WireInv, wire # << >>,
           Head(wire).what # "auth",
           wire' = Tail(wire) \/ \E q : wire' = Forget(Tail(wire), q),
           UNCHANGED <<connectionState, putCounter, onDisconnectQueue>>,
           outstandingPuts' =
                outstandingPuts \ IF Head(wire).what = "put" THEN {Head(wire).id} ELSE {}
    PROVE  WireInv'
<1>1. /\ wire \in Seq(Request) /\ Tail(wire) \in Seq(Request) /\ Head(wire) = wire[1]
      /\ WritesInOrder(wire) /\ Puts \in SUBSET Nat /\ 1 \in DOMAIN wire
  BY HeadIsRequest, WritesAreNumbered DEF WireInv
<1>2. connectionState = "Connected" /\ Restorers(wire) = {}
  <2>1. connectionState \in {"Authenticating", "Connected"}
    BY AnswerComes
  <2>2. 1 \notin Restorers(wire)
    BY <1>1 DEF Restorers
  <2> QED  BY <2>1, <2>2 DEF WireInv
<1>3. /\ WritesInOrder(wire') /\ Carried(wire') = Carried(Tail(wire))
      /\ Restorers(wire') = Restorers(wire)
  <2>1. WritesInOrder(Tail(wire)) /\ Restorers(Tail(wire)) = {}
    BY <1>1, <1>2, CarriedTail
  <2>2. CASE wire' = Tail(wire)
    BY <1>2, <2>1, <2>2
  <2>3. ASSUME NEW q, wire' = Forget(Tail(wire), q)
        PROVE  /\ WritesInOrder(wire') /\ Carried(wire') = Carried(Tail(wire))
               /\ Restorers(wire') = Restorers(wire)
    BY <1>1, <1>2, <2>1, <2>3, CarriedForget
  <2> QED  BY <2>2, <2>3
<1>4. CASE wire[1].what # "put"
  <2>1. Carried(wire') = Carried(wire) /\ outstandingPuts' = outstandingPuts
    BY <1>1, <1>3, <1>4, CarriedTail
  <2> QED  BY <1>2, <1>3, <2>1, SameWrites
<1>5. CASE wire[1].what = "put"
  <2>1. /\ Carried(wire') = Carried(wire) \ {<<wire[1].id, wire[1].status>>}
        /\ outstandingPuts' = outstandingPuts \ {wire[1].id}
    BY <1>1, <1>3, <1>5, CarriedTail
  <2>2. \A p \in outstandingPuts' : \E c \in Carried(wire') : c[1] = p
    <3> SUFFICES ASSUME NEW p \in outstandingPuts, p # wire[1].id
                 PROVE  \E c \in Carried(wire') : c[1] = p
      BY <2>1
    <3>1. PICK c \in Carried(wire) : c[1] = p
      BY <1>2 DEF WireInv, WritesSent
    <3>2. c # <<wire[1].id, wire[1].status>>
      BY <3>1
    <3> QED  BY <2>1, <3>1, <3>2
  <2>3. \A c \in Carried(wire') : c[1] < putCounter
    BY <2>1 DEF WireInv
  <2> QED  BY <1>2, <1>3, <2>2, <2>3 DEF WireInv, WritesSent
<1> QED  BY <1>4, <1>5

LEMMA NextWireInv ==
    ASSUME TypeOK, CountInv, IInv, IInv', WireInv, [Next]_vars
    PROVE  WireInv'
<1>0. wire \in Seq(Request) /\ WritesInOrder(wire) /\ Puts \in SUBSET Nat
  BY TypesSplit, WritesAreNumbered DEF RequestTypesOK, WireInv
<1>1. CASE realtime' # "CONNECTED"
  BY <1>1, OfflineWire
<1>2. CASE putInternal
  BY <1>2, PutSends
<1>3. ASSUME UNCHANGED <<wire, connectionState, putCounter>>,
             outstandingPuts' \subseteq outstandingPuts,
             connectionState = "Connected" => onDisconnectQueue' \in {onDisconnectQueue, << >>}
      PROVE  WireInv'
  BY <1>3, SameWrites DEF WireInv
<1>4. ASSUME NEW q \in Queries, listen(q) PROVE WireInv'
  <2>1. Req("listen", q, TRUE) \in Request /\ Req("listen", q, TRUE).what \notin {"put", "auth"}
    BY RequestsMade DEF Req
  <2>2. /\ wire' \in {wire, Append(wire, Req("listen", q, TRUE))}
        /\ UNCHANGED <<connectionState, putCounter, outstandingPuts, onDisconnectQueue>>
    BY <1>4 DEF listen, connectionVars, putVars
  <2> QED  BY <2>1, <2>2, SendOther
<1>5. ASSUME NEW q \in Queries, unlisten(q) PROVE WireInv'
  <2>1. /\ wire' = Forget(wire, q)
        /\ UNCHANGED <<connectionState, putCounter, outstandingPuts, onDisconnectQueue>>
    BY <1>5 DEF unlisten, connectionVars, putVars
  <2>2. /\ WritesInOrder(wire') /\ Carried(wire') = Carried(wire)
        /\ Restorers(wire') = Restorers(wire)
    BY <1>0, <2>1, CarriedForget
  <2> QED  BY <2>1, <2>2, SameWrites DEF WireInv
<1>6. ASSUME NEW o \in OnDisconnects, onDisconnectOperation(o) PROVE WireInv'
  <2>1. /\ Req("onDisconnect", o, TRUE) \in Request
        /\ Req("onDisconnect", o, TRUE).what \notin {"put", "auth"}
    BY RequestsMade DEF Req
  <2>2. /\ wire' \in {wire, Append(wire, Req("onDisconnect", o, TRUE))}
        /\ UNCHANGED <<connectionState, putCounter, outstandingPuts>>
        /\ connectionState = "Connected" => onDisconnectQueue' = onDisconnectQueue
    BY <1>6 DEF onDisconnectOperation, connectionVars, putVars, canSendWrites
  <2> QED  BY <2>1, <2>2, SendOther
<1>7. ASSUME NEW token \in BOOLEAN, refreshAuthToken(token) PROVE WireInv'
  <2>1. /\ Req("auth", 0, FALSE) \in Request /\ Req("auth", 0, FALSE).what # "put"
        /\ ~Req("auth", 0, FALSE).flag
    BY RequestsMade DEF Req
  <2>2. /\ wire' \in {wire, Append(wire, Req("auth", 0, FALSE))}
        /\ UNCHANGED <<connectionState, putCounter, outstandingPuts, onDisconnectQueue>>
    BY <1>7 DEF refreshAuthToken, connectionVars, putVars
  <2> QED  BY <2>1, <2>2, SendOther
<1>8. CASE onHandshake
  <2>1. wire = << >> /\ UNCHANGED <<putCounter, outstandingPuts>>
    BY <1>8 DEF onHandshake, IInv, WireAgrees
  <2>2. CASE authToken
    <3>1. /\ connectionState' = "Authenticating" /\ wire' = Append(wire, Req("auth", 0, TRUE))
          /\ UNCHANGED onDisconnectQueue
      BY <1>8, <2>2 DEF onHandshake
    <3>2. Req("auth", 0, TRUE) \in Request /\ Req("auth", 0, TRUE).what = "auth"
          /\ Req("auth", 0, TRUE).flag
      BY RequestsMade DEF Req
    <3> DEFINE r == Req("auth", 0, TRUE)
    <3> HIDE DEF r
    <3>3. wire' = <<r>> /\ wire'[1] = r /\ wire' # << >>
      BY <2>1, <3>1 DEF r
    <3>4. Restorers(wire') = {1}
      <4>1. DOMAIN wire' = {1}
        BY <3>3
      <4> QED  BY <3>2, <3>3, <4>1 DEF Restorers, r
    <3>5. WritesInOrder(wire') /\ Carried(wire') = {}
      BY <1>0, <2>1, <3>1, <3>2, CarriedAppend, CarriedEmpty
    <3> QED  BY <3>1, <3>4, <3>5 DEF WireInv, WritesSent
  <2>3. CASE ~authToken
    BY <1>0, <1>8, <2>1, <2>3, RestoreSends, CarriedEmpty DEF onHandshake
  <2> QED  BY <2>2, <2>3
<1>9. ASSUME NEW i \in DOMAIN wire, ServerDecides(i) PROVE WireInv'
  <2>1. PICK status \in {"ok", "failed"} : Decided(wire, wire', i, status)
    BY <1>9, DecisionMade
  <2>2. /\ wire[i].status = "sent"
        /\ UNCHANGED <<connectionState, putCounter, outstandingPuts, onDisconnectQueue>>
    BY <1>9 DEF ServerDecides, connectionVars, putVars
  <2>3. WritesInOrder(wire') /\ Restorers(wire') = Restorers(wire)
    BY <1>0, <2>1, <2>2, CarriedDecision
  <2>4. CASE wire[i].what # "put"
    <3>1. Carried(wire') = Carried(wire)
      BY <1>0, <2>1, <2>4, DecisionOther
    <3> QED  BY <2>2, <2>3, <3>1, SameWrites DEF WireInv
  <2>5. CASE wire[i].what = "put"
    <3>1. Carried(wire') = (Carried(wire) \ {<<wire[i].id, "sent">>}) \cup {<<wire[i].id, status>>}
      BY <1>0, <2>1, <2>2, <2>5, CarriedDecision
    <3>2. <<wire[i].id, "sent">> \in Carried(wire)
      BY <2>2, <2>5 DEF Carried
    <3>3. connectionState = "Connected"
      BY <3>2 DEF WireInv
    <3>4. \A c \in Carried(wire') : c[1] < putCounter
      <4>1. <<wire[i].id, "sent">>[1] < putCounter
        BY <3>2 DEF WireInv
      <4> QED  BY <3>1, <4>1 DEF WireInv
    <3>5. \A c \in Carried(wire) : \E d \in Carried(wire') : d[1] = c[1]
      <4> SUFFICES ASSUME NEW c \in Carried(wire) PROVE \E d \in Carried(wire') : d[1] = c[1]
        OBVIOUS
      <4>1. CASE c = <<wire[i].id, "sent">>
        <5>1. <<wire[i].id, status>> \in Carried(wire') /\ <<wire[i].id, status>>[1] = c[1]
          BY <3>1, <4>1
        <5> QED  BY <5>1
      <4>2. CASE c # <<wire[i].id, "sent">>
        BY <3>1, <4>2
      <4> QED  BY <4>1, <4>2
    <3>6. \A p \in outstandingPuts : \E d \in Carried(wire') : d[1] = p
      BY <3>3, <3>5 DEF WireInv, WritesSent
    <3>7. onDisconnectQueue = << >>
      BY <3>3 DEF WireInv, WritesSent
    <3> QED  BY <2>2, <2>3, <3>3, <3>4, <3>6, <3>7 DEF WireInv, WritesSent
  <2> QED  BY <2>4, <2>5
<1>10. CASE AuthSucceeds
  <2>1. /\ wire # << >> /\ Head(wire).what = "auth" /\ Head(wire) = wire[1]
        /\ Tail(wire) \in Seq(Request) /\ connectionState' = "Connected"
        /\ UNCHANGED <<putCounter, outstandingPuts>>
    BY <1>10, HeadIsRequest DEF AuthSucceeds, Answer
  <2>2. /\ WritesInOrder(Tail(wire)) /\ Carried(Tail(wire)) = Carried(wire)
        /\ Restorers(Tail(wire)) = {}
    <3>1. Restorers(wire) \subseteq {1}
      BY DEF WireInv
    <3> QED  BY <1>0, <2>1, <3>1, CarriedTail
  <2>3. Head(wire).flag <=> connectionState = "Authenticating"
    <3>1. 1 \in Restorers(wire) <=> Head(wire).flag
      BY <2>1, HeadIsRequest DEF Restorers
    <3> QED  BY <3>1 DEF WireInv
  <2>4. CASE Head(wire).flag
    <3>1. restoreState(Tail(wire)) /\ Carried(wire) = {}
      BY <1>10, <2>3, <2>4 DEF AuthSucceeds, WireInv
    <3> QED  BY <2>1, <2>2, <3>1, RestoreSends
  <2>5. CASE ~Head(wire).flag
    <3>1. wire' = Tail(wire) /\ UNCHANGED onDisconnectQueue
      BY <1>10, <2>5 DEF AuthSucceeds
    <3>2. connectionState = "Connected"
      BY <2>1, <2>3, <2>5, AnswerComes
    <3>3. Restorers(wire') = Restorers(wire)
      BY <2>2, <3>1, <3>2 DEF WireInv
    <3> QED  BY <2>1, <2>2, <3>1, <3>2, <3>3, SameWrites
  <2> QED  BY <2>4, <2>5
<1>11. CASE PutAnswered
  <2>1. /\ wire # << >> /\ Head(wire).what = "put" /\ wire' = Tail(wire)
        /\ UNCHANGED <<connectionState, putCounter, onDisconnectQueue>>
        /\ outstandingPuts' = outstandingPuts \ {Head(wire).id}
    BY <1>11 DEF PutAnswered, Answer, connectionVars
  <2> QED  BY <2>1, AnswerTaken
<1>12. CASE ListenAnswered \/ OnDisconnectAnswered
  <2>1. /\ wire # << >> /\ Head(wire).what \in {"listen", "onDisconnect"}
        /\ wire' = Tail(wire) \/ \E q : wire' = Forget(Tail(wire), q)
        /\ UNCHANGED <<connectionState, putCounter, onDisconnectQueue, outstandingPuts>>
    BY <1>12 DEF ListenAnswered, OnDisconnectAnswered, Answer, connectionVars, putVars
  <2> QED  BY <2>1, AnswerTaken
<1>13. CASE purgeOutstandingWrites
  BY <1>3, <1>13 DEF purgeOutstandingWrites, connectionVars
<1>14. CASE (\E p \in late : LateWrite(p)) \/ StaleFetchReturns \/ UNCHANGED vars
  BY <1>3, <1>14 DEF LateWrite, StaleFetchReturns, connectionVars, putVars, vars
<1>15. CASE \/ open \/ goOffline \/ goOnline \/ enteringForeground \/ RetryFires \/ FetchFails
            \/ \E token \in BOOLEAN : FetchReturns(token)
            \/ AuthFails \/ onAuthRevoked \/ ConnectionLost \/ onKill
  <2>1. CASE open \/ goOnline
    <3>1. realtime' = realtime /\ interruptReasons # {}
      BY <2>1 DEF open, goOnline, Resume
    <3> QED
      BY <1>1, <3>1 DEF IInv, InterruptedIsOffline, StatesAgree, connected
  <2>2. CASE goOffline \/ onKill
    <3>1. realtime' = "nil"
      BY <2>2 DEF goOffline, onKill, interruptForReason, onDisconnect
    <3> QED  BY <1>1, <3>1
  <2>3. CASE enteringForeground \/ RetryFires \/ FetchFails
    <3>1. realtime' = realtime /\ realtime # "CONNECTED"
      BY <2>3 DEF enteringForeground, RetryFires, FetchFails, IInv, StatesAgree, connected
    <3> QED  BY <1>1, <3>1
  <2>4. CASE \E token \in BOOLEAN : FetchReturns(token)
    <3>1. realtime' \in {realtime, "CONNECTING"} /\ realtime # "CONNECTED"
      BY <2>4 DEF FetchReturns, openNetworkConnection, IInv, StatesAgree, connected
    <3> QED  BY <1>1, <3>1
  <2>5. CASE AuthFails \/ onAuthRevoked \/ ConnectionLost
    <3>1. realtime' = "nil"
      BY <2>5 DEF AuthFails, onAuthRevoked, ConnectionLost, TokenTurnedDown, onDisconnect
    <3> QED  BY <1>1, <3>1
  <2> QED  BY <1>15, <2>1, <2>2, <2>3, <2>4, <2>5
<1> QED
  BY <1>2, <1>4, <1>5, <1>6, <1>7, <1>8, <1>9, <1>10, <1>11, <1>12, <1>13, <1>14, <1>15
     DEF Next, Deliver

LEMMA AlwaysWireInv == Spec => [](TypeOK /\ IInv /\ WireInv)
<1>1. TypeOK /\ CountInv /\ IInv /\ IInv' /\ WireInv /\ [Next]_vars => WireInv'
  BY NextWireInv
<1>2. Spec => []TypeOK
  BY TypeCorrect
<1> QED  BY <1>1, <1>2, InitIInv, NextIInv, InitCountInv, NextCountInv, InitWireInv, PTL DEF Spec

\* Once the connection is up, every outstanding write is on it and no onDisconnect
\* operation waits, for any writes and through every loss and restoring.
THEOREM ConnectedAlwaysMeansSent == Spec => []ConnectedMeansSent
<1>1. WireInv => ConnectedMeansSent
  <2> SUFFICES ASSUME WireInv, connectionState = "Connected", NEW p \in outstandingPuts
               PROVE  \E i \in DOMAIN wire : wire[i].what = "put" /\ wire[i].id = p
    BY DEF ConnectedMeansSent, WireInv, WritesSent
  <2>1. PICK c \in Carried(wire) : c[1] = p
    BY DEF WireInv, WritesSent
  <2>2. PICK i \in DOMAIN wire : wire[i].what = "put" /\ c = <<wire[i].id, wire[i].status>>
    BY DEF Carried
  <2> QED  BY <2>1, <2>2
<1> QED  BY <1>1, AlwaysWireInv, PTL

-----------------------------------------------------------------------------
(* What becomes of a write.                                                *)

Kept(p) == IF p \in outstandingPuts THEN 1 ELSE 0

\* The times write p's block has been called, is due, or is still to be called.
Answers(p) == Len(completions[p]) + Kept(p) + Cardinality(HeldOf(p))

\* Nothing is lost either: a write that was made is kept, held or answered.
OnceInv == \A p \in Puts : Answers(p) = IF p < putCounter THEN 1 ELSE 0

LEMMA AnswersNumbers ==
    ASSUME TypeOK, NEW p \in Puts
    PROVE  /\ Len(completions[p]) \in Nat /\ Kept(p) \in Nat /\ Cardinality(HeldOf(p)) \in Nat
           /\ completions[p] \in Seq(Completion)
           /\ putCounter \in Nat /\ outstandingPuts \subseteq Puts /\ p \in Nat
           /\ outstandingPuts \subseteq 1..(putCounter - 1)
<1>1. completions[p] \in Seq(Completion) /\ putCounter \in 1..(MaxPuts + 1) /\ MaxPuts \in Nat
      /\ outstandingPuts \subseteq 1..(putCounter - 1)
  BY ClientAssumption DEF TypeOK
<1> QED  BY <1>1, HeldOfTypes DEF Kept, Puts

\* The three parts are left alone.
LEMMA AnswersSame ==
    ASSUME NEW p, UNCHANGED <<completions, putsToAck>>,
           p \in outstandingPuts' <=> p \in outstandingPuts
    PROVE  Answers(p)' = Answers(p)
<1>1. HeldOf(p)' = HeldOf(p) /\ Kept(p)' = Kept(p) /\ completions' = completions
  BY DEF HeldOf, Kept
<1> QED  BY <1>1 DEF Answers

\* A write that was waiting is answered.
LEMMA AnswersMoved ==
    ASSUME TypeOK, NEW p \in Puts, NEW decision \in Completion,
           p \in outstandingPuts, p \notin outstandingPuts',
           completions'[p] = Append(completions[p], decision), UNCHANGED putsToAck
    PROVE  Answers(p)' = Answers(p)
<1>1. HeldOf(p)' = HeldOf(p) /\ Kept(p) = 1 /\ Kept(p)' = 0
  BY DEF HeldOf, Kept
<1>2. Len(completions'[p]) = Len(completions[p]) + 1 /\ Len(completions[p]) \in Nat
  BY AnswersNumbers
<1> QED  BY <1>1, <1>2, AnswersNumbers DEF Answers

LEMMA AnswersCancelled ==
    ASSUME TypeOK, NEW p \in Puts, cancelSentTransactions, UNCHANGED putsToAck
    PROVE  Answers(p)' = Answers(p)
<1>1. outstandingPuts' = outstandingPuts \ (outstandingPuts \cap sent)
      /\ completions'[p] = IF p \in outstandingPuts \cap sent
                           THEN Append(completions[p], "withdrawn") ELSE completions[p]
  BY DEF cancelSentTransactions
<1>2. CASE p \in outstandingPuts \cap sent
  BY <1>1, <1>2, AnswersMoved DEF Completion
<1>3. CASE p \notin outstandingPuts \cap sent
  <2>1. HeldOf(p)' = HeldOf(p) /\ Kept(p)' = Kept(p) /\ completions'[p] = completions[p]
    BY <1>1, <1>3 DEF HeldOf, Kept
  <2> QED  BY <2>1 DEF Answers
<1> QED  BY <1>2, <1>3

\* The held answers are passed on.
LEMMA AnswersPassedOn ==
    ASSUME TypeOK, NEW p \in Puts, putsToAck' = << >>
    PROVE  /\ Cardinality(HeldOf(p)') = 0
           /\ Len(ackPuts[p]) = Len(completions[p]) + Cardinality(HeldOf(p))
           /\ ackPuts[p] \in Seq(Completion)
<1>1. HeldOf(p)' = {}
  BY DEF HeldOf
<1> QED  BY <1>1, AckedPuts, FS_EmptySet

LEMMA AnswersPurged ==
    ASSUME TypeOK, NEW p \in Puts, purgeOutstandingWrites
    PROVE  Answers(p)' = Answers(p)
<1>1. /\ completions'[p] = IF p \in outstandingPuts THEN Append(ackPuts[p], "withdrawn")
                           ELSE ackPuts[p]
      /\ putsToAck' = << >> /\ outstandingPuts' = {}
  BY DEF purgeOutstandingWrites
<1>2. Len(completions'[p]) = Len(ackPuts[p]) + Kept(p) /\ Kept(p)' = 0
  <2>1. Len(Append(ackPuts[p], "withdrawn")) = Len(ackPuts[p]) + 1
    BY <1>1, AnswersPassedOn
  <2>2. Len(ackPuts[p]) + 0 = Len(ackPuts[p])
    BY <1>1, AnswersPassedOn
  <2>3. CASE p \in outstandingPuts
    BY <1>1, <2>1, <2>3 DEF Kept
  <2>4. CASE p \notin outstandingPuts
    BY <1>1, <2>2, <2>4 DEF Kept
  <2> QED  BY <2>3, <2>4
<1> QED  BY <1>1, <1>2, AnswersPassedOn, AnswersNumbers DEF Answers

LEMMA AnswersAfterListen ==
    ASSUME TypeOK, NEW p \in Puts, ListenAnswered
    PROVE  Answers(p)' = Answers(p)
<1>1. /\ UNCHANGED outstandingPuts
      /\ \/ UNCHANGED <<completions, putsToAck>>
         \/ completions' = ackPuts /\ putsToAck' = << >>
  BY DEF ListenAnswered
<1>2. CASE UNCHANGED <<completions, putsToAck>>
  BY <1>1, <1>2, AnswersSame
<1>3. CASE completions' = ackPuts /\ putsToAck' = << >>
  <2>1. Kept(p)' = Kept(p) /\ Len(completions'[p]) = Len(ackPuts[p])
    BY <1>1, <1>3 DEF Kept
  <2> QED  BY <1>3, <2>1, AnswersPassedOn, AnswersNumbers DEF Answers
<1> QED  BY <1>1, <1>2, <1>3

\* An answer is held back.
LEMMA HeldOfAppend ==
    ASSUME TypeOK, NEW a \in [put : Puts, status : {"ok", "failed"}],
           putsToAck' = Append(putsToAck, a), NEW p \in Puts
    PROVE  /\ HeldOf(p)' = IF p = a.put THEN HeldOf(p) \cup {Len(putsToAck) + 1} ELSE HeldOf(p)
           /\ Len(putsToAck) \in Nat /\ HeldOf(p) \subseteq 1..Len(putsToAck)
           /\ putsToAck'[Len(putsToAck) + 1] = a
           /\ \A k \in 1..Len(putsToAck) : putsToAck'[k] = putsToAck[k]
<1> DEFINE S == [put : Puts, status : {"ok", "failed"}]
           n == Len(putsToAck)
<1>1. putsToAck \in Seq(S)
  BY Zenon DEF TypeOK
<1> HIDE DEF S
<1>2. /\ n \in Nat /\ DOMAIN putsToAck = 1..n /\ DOMAIN putsToAck' = 1..(n + 1)
      /\ putsToAck'[n + 1] = a /\ \A k \in 1..n : putsToAck'[k] = putsToAck[k]
  BY <1>1 DEF S
<1> HIDE DEF n
<1>3. 1..(n + 1) = (1..n) \cup {n + 1} /\ n + 1 \notin 1..n
  BY <1>2
<1>4. HeldOf(p)' = {k \in 1..(n + 1) : putsToAck'[k].put = p}
      /\ HeldOf(p) = {k \in 1..n : putsToAck[k].put = p}
  BY <1>2 DEF HeldOf
<1>5. HeldOf(p)' = IF p = a.put THEN HeldOf(p) \cup {n + 1} ELSE HeldOf(p)
  BY <1>2, <1>3, <1>4
<1> QED  BY <1>2, <1>4, <1>5 DEF n

LEMMA AnswersAfterPut ==
    ASSUME TypeOK, NEW p \in Puts, PutAnswered
    PROVE  Answers(p)' = Answers(p)
<1> DEFINE q == Head(wire).id
           decision == Head(wire).status
<1>1. q \in Puts /\ decision \in {"ok", "failed"}
  BY HeadIsRequest DEF PutAnswered, Answer
<1>2. outstandingPuts' = outstandingPuts \ {q}
  BY DEF PutAnswered
<1>3. \/ q \notin outstandingPuts /\ UNCHANGED <<completions, putsToAck>>
      \/ /\ q \in outstandingPuts /\ UNCHANGED putsToAck
         /\ completions' = [completions EXCEPT ![q] = Append(@, decision)]
      \/ /\ q \in outstandingPuts /\ UNCHANGED completions
         /\ putsToAck' = Append(putsToAck, [put |-> q, status |-> decision])
  BY Zenon DEF PutAnswered
<1> HIDE DEF q, decision
<1>4. CASE q \notin outstandingPuts /\ UNCHANGED <<completions, putsToAck>>
  BY <1>2, <1>4, AnswersSame
<1>5. CASE /\ q \in outstandingPuts /\ UNCHANGED putsToAck
           /\ completions' = [completions EXCEPT ![q] = Append(@, decision)]
  <2>1. CASE p = q
    <3>1. completions'[p] = Append(completions[p], decision) /\ decision \in Completion
      BY <1>1, <1>5, <2>1 DEF TypeOK, Completion
    <3> QED  BY <1>2, <1>5, <2>1, <3>1, AnswersMoved
  <2>2. CASE p # q
    <3>1. completions'[p] = completions[p] /\ Kept(p)' = Kept(p) /\ HeldOf(p)' = HeldOf(p)
      BY <1>2, <1>5, <2>2 DEF TypeOK, Kept, HeldOf
    <3> QED  BY <3>1 DEF Answers
  <2> QED  BY <2>1, <2>2
<1>6. CASE /\ q \in outstandingPuts /\ UNCHANGED completions
           /\ putsToAck' = Append(putsToAck, [put |-> q, status |-> decision])
  <2> DEFINE a == [put |-> q, status |-> decision]
  <2>1. a \in [put : Puts, status : {"ok", "failed"}] /\ a.put = q
        /\ putsToAck' = Append(putsToAck, a)
    BY <1>1, <1>6
  <2> HIDE DEF a
  <2>2. /\ HeldOf(p)' = IF p = q THEN HeldOf(p) \cup {Len(putsToAck) + 1} ELSE HeldOf(p)
        /\ Len(putsToAck) \in Nat /\ HeldOf(p) \subseteq 1..Len(putsToAck)
    <3>1. HeldOf(p)' = IF p = a.put THEN HeldOf(p) \cup {Len(putsToAck) + 1} ELSE HeldOf(p)
      BY <2>1, HeldOfAppend
    <3>2. Len(putsToAck) \in Nat /\ HeldOf(p) \subseteq 1..Len(putsToAck)
      BY <2>1, HeldOfAppend
    <3> QED  BY <2>1, <3>1, <3>2
  <2>3. CASE p = q
    <3>1. Cardinality(HeldOf(p)') = Cardinality(HeldOf(p)) + 1
      <4>1. Len(putsToAck) + 1 \notin HeldOf(p)
        <5>1. \A n \in Nat : n + 1 \notin 1..n
          OBVIOUS
        <5> QED  BY <2>2, <5>1
      <4> QED  BY <2>2, <2>3, <4>1, HeldOfTypes, FS_AddElement
    <3>2. Kept(p) = 1 /\ Kept(p)' = 0 /\ Len(completions'[p]) = Len(completions[p])
      BY <1>2, <1>6, <2>3 DEF Kept
    <3> QED  BY <3>1, <3>2, AnswersNumbers DEF Answers
  <2>4. CASE p # q
    <3>1. completions'[p] = completions[p] /\ Kept(p)' = Kept(p)
      BY <1>2, <1>6, <2>4 DEF Kept
    <3>2. HeldOf(p)' = HeldOf(p)
      BY <2>2, <2>4
    <3> QED  BY <3>1, <3>2 DEF Answers
  <2> QED  BY <2>3, <2>4
<1> QED  BY <1>3, <1>4, <1>5, <1>6

\* Only the call that makes a write adds to what is owed about it.
LEMMA AnswersKept ==
    ASSUME TypeOK, NEW p \in Puts, [Next]_vars, ~putInternal
    PROVE  Answers(p)' = Answers(p) /\ UNCHANGED putCounter
<1>1. ASSUME UNCHANGED putVars PROVE Answers(p)' = Answers(p) /\ UNCHANGED putCounter
  BY <1>1, AnswersSame DEF putVars
<1>2. CASE purgeOutstandingWrites
  BY <1>2, AnswersPurged DEF purgeOutstandingWrites
<1>3. CASE ListenAnswered
  BY <1>3, AnswersAfterListen DEF ListenAnswered
<1>4. CASE PutAnswered
  BY <1>4, AnswersAfterPut DEF PutAnswered
<1>5. CASE goOffline \/ onKill
  <2>1. PICK reason : interruptForReason(reason)
    BY <1>5 DEF goOffline, onKill
  <2>2. CASE realtime # "nil"
    BY <2>1, <2>2, AnswersCancelled DEF interruptForReason, onDisconnect
  <2>3. CASE realtime = "nil"
    BY <1>1, <2>1, <2>3 DEF interruptForReason, putVars
  <2> QED  BY <2>2, <2>3
<1>6. CASE AuthFails \/ onAuthRevoked \/ ConnectionLost
  BY <1>6, AnswersCancelled
     DEF AuthFails, onAuthRevoked, ConnectionLost, TokenTurnedDown, onDisconnect
<1>7. CASE onHandshake \/ AuthSucceeds
  BY <1>7, AnswersSame DEF onHandshake, AuthSucceeds
<1>8. CASE \/ \E q \in Queries : listen(q) \/ unlisten(q)
           \/ \E o \in OnDisconnects : onDisconnectOperation(o)
           \/ \E token \in BOOLEAN : refreshAuthToken(token) \/ FetchReturns(token)
           \/ open \/ goOnline \/ enteringForeground
           \/ RetryFires \/ FetchFails \/ StaleFetchReturns
           \/ \E i \in DOMAIN wire : ServerDecides(i)
           \/ \E q \in late : LateWrite(q)
           \/ OnDisconnectAnswered \/ UNCHANGED vars
  <2>1. UNCHANGED putVars
    BY <1>8 DEF listen, unlisten, onDisconnectOperation, refreshAuthToken, FetchReturns, open,
       goOnline, Resume, enteringForeground, RetryFires, FetchFails, StaleFetchReturns,
       ServerDecides, LateWrite, OnDisconnectAnswered, vars
  <2> QED  BY <1>1, <2>1
<1> QED  BY <1>2, <1>3, <1>4, <1>5, <1>6, <1>7, <1>8 DEF Next, Deliver

LEMMA InitOnceInv == Init => OnceInv
<1> SUFFICES ASSUME Init, NEW p \in Puts PROVE Answers(p) = 0 /\ ~(p < putCounter)
  BY DEF OnceInv
<1>1. completions[p] = << >> /\ outstandingPuts = {} /\ putsToAck = << >> /\ putCounter = 1
  BY DEF Init
<1>2. HeldOf(p) = {} /\ Kept(p) = 0 /\ Len(completions[p]) = 0
  BY <1>1 DEF HeldOf, Kept
<1>3. p \in Nat /\ 1 <= p
  BY ClientAssumption DEF Puts
<1> QED  BY <1>1, <1>2, <1>3, FS_EmptySet DEF Answers

LEMMA NextOnceInv ==
    ASSUME TypeOK, OnceInv, [Next]_vars
    PROVE  OnceInv'
<1> SUFFICES ASSUME NEW p \in Puts PROVE Answers(p)' = IF p < putCounter' THEN 1 ELSE 0
  BY DEF OnceInv, Puts
<1>1. CASE putInternal
  <2>1. /\ putCounter' = putCounter + 1 /\ outstandingPuts' = outstandingPuts \cup {putCounter}
        /\ UNCHANGED <<completions, putsToAck>>
    BY <1>1 DEF putInternal
  <2>2. CASE p = putCounter
    <3>1. HeldOf(p)' = HeldOf(p) /\ Kept(p)' = 1 /\ Kept(p) = 0 /\ completions' = completions
      <4>1. p \notin outstandingPuts
        BY <2>2, AnswersNumbers
      <4> QED  BY <2>1, <2>2, <4>1 DEF HeldOf, Kept
    <3>2. Answers(p) = 0 /\ p < putCounter'
      BY <2>1, <2>2, AnswersNumbers DEF OnceInv
    <3> QED  BY <3>1, <3>2, AnswersNumbers DEF Answers
  <2>3. CASE p # putCounter
    <3>1. Answers(p)' = Answers(p)
      BY <2>1, <2>3, AnswersSame
    <3>2. p < putCounter' <=> p < putCounter
      BY <2>1, <2>3, AnswersNumbers
    <3> QED  BY <3>1, <3>2 DEF OnceInv
  <2> QED  BY <2>2, <2>3
<1>2. CASE ~putInternal
  BY <1>2, AnswersKept DEF OnceInv
<1> QED  BY <1>1, <1>2

LEMMA AlwaysOnceInv == Spec => [](TypeOK /\ OnceInv)
<1>1. TypeOK /\ OnceInv /\ [Next]_vars => OnceInv'
  BY NextOnceInv
<1> QED  BY <1>1, TypeCorrect, InitOnceInv, PTL DEF Spec

\* A write's block is called once at most, and not while the write is kept or its
\* answer held, for any number of writes, losses, withdrawals and restorings.
THEOREM WritesAnsweredOnce == Spec => []AnsweredOnce
<1>1. OnceInv => AnsweredOnce
  <2> SUFFICES ASSUME OnceInv, NEW p \in Puts
               PROVE  Len(completions[p]) + (IF p \in outstandingPuts THEN 1 ELSE 0)
                        + Cardinality({k \in DOMAIN putsToAck : putsToAck[k].put = p}) <= 1
    BY DEF AnsweredOnce
  <2>1. Answers(p) <= 1
    BY DEF OnceInv
  <2> QED  BY <2>1 DEF Answers, Kept, HeldOf
<1> QED  BY <1>1, AlwaysOnceInv, PTL

-----------------------------------------------------------------------------
(* The queue the writes wait in.                                           *)

MapInv == TypeOK /\ IInv /\ WireInv /\ OnceInv

\* What the decision on a write is, in terms of what the wire carries.
DecisionFacts ==
    \A p \in Puts :
        /\ \A s, t : <<p, s>> \in Carried(wire) /\ <<p, t>> \in Carried(wire) => s = t
        /\ <<p, "sent">> \in Carried(wire) => Decision(p) = "pending"
        /\ \A s \in {"ok", "failed"} : <<p, s>> \in Carried(wire) => Decision(p) = s
        /\ (\A s : <<p, s>> \notin Carried(wire)) => Decision(p) = "pending"
        /\ Decision(p) = "pending" =>
                <<p, "ok">> \notin Carried(wire) /\ <<p, "failed">> \notin Carried(wire)

LEMMA DecisionsAreCarried == TypeOK /\ WireInv => DecisionFacts
<1> SUFFICES ASSUME TypeOK, WireInv, NEW p \in Puts
             PROVE
        /\ \A s, t : <<p, s>> \in Carried(wire) /\ <<p, t>> \in Carried(wire) => s = t
        /\ <<p, "sent">> \in Carried(wire) => Decision(p) = "pending"
        /\ \A s \in {"ok", "failed"} : <<p, s>> \in Carried(wire) => Decision(p) = s
        /\ (\A s : <<p, s>> \notin Carried(wire)) => Decision(p) = "pending"
        /\ Decision(p) = "pending" =>
                <<p, "ok">> \notin Carried(wire) /\ <<p, "failed">> \notin Carried(wire)
  BY DEF DecisionFacts
<1>1. wire \in Seq(Request) /\ WritesInOrder(wire) /\ Puts \in SUBSET Nat
  BY TypesSplit, WritesAreNumbered DEF RequestTypesOK, WireInv
<1>2. CASE \E i \in DOMAIN wire : wire[i].what = "put" /\ wire[i].id = p
  <2>1. PICK i \in DOMAIN wire : wire[i].what = "put" /\ wire[i].id = p
    BY <1>2
  <2>2. \A j \in DOMAIN wire : wire[j].what = "put" /\ wire[j].id = p => j = i
    BY <1>1, <2>1, CarriedOnce
  <2>3. (CHOOSE j \in DOMAIN wire : wire[j].what = "put" /\ wire[j].id = p) = i
    BY <2>1, <2>2
  <2>4. wire[i].status \in {"sent", "ok", "failed"}
    <3>1. \A r \in Request : r.status \in {"sent", "ok", "failed"}
      BY DEF Request
    <3> QED  BY <1>1, <3>1
  <2>5. \A s : <<p, s>> \in Carried(wire) <=> s = wire[i].status
    <3>1. ASSUME NEW s, <<p, s>> \in Carried(wire) PROVE s = wire[i].status
      <4>1. PICK j \in DOMAIN wire :
                wire[j].what = "put" /\ <<p, s>> = <<wire[j].id, wire[j].status>>
        BY <3>1 DEF Carried
      <4> QED  BY <2>2, <4>1
    <3>2. <<wire[i].id, wire[i].status>> \in Carried(wire)
      BY <2>1 DEF Carried
    <3> QED  BY <2>1, <3>1, <3>2
  <2>6. Decision(p) = IF wire[i].status # "sent" THEN wire[i].status ELSE "pending"
    <3>1. (\E j \in DOMAIN wire : wire[j].what = "put" /\ wire[j].id = p /\ wire[j].status # "sent")
            <=> wire[i].status # "sent"
      BY <2>1, <2>2
    <3> QED  BY <2>3, <3>1 DEF Decision
  <2> QED  BY <2>4, <2>5, <2>6
<1>3. CASE ~ \E i \in DOMAIN wire : wire[i].what = "put" /\ wire[i].id = p
  <2>1. Decision(p) = "pending"
    BY <1>3 DEF Decision
  <2>2. \A s : <<p, s>> \notin Carried(wire)
    BY <1>3 DEF Carried
  <2> QED  BY <2>1, <2>2
<1> QED  BY <1>2, <1>3

\* The wire carries the same about a write.
LEMMA DecisionSame ==
    ASSUME DecisionFacts, DecisionFacts', TypeOK, NEW p \in Puts,
           \A s : <<p, s>> \in Carried(wire') <=> <<p, s>> \in Carried(wire)
    PROVE  Decision(p)' = Decision(p)
<1>1. wire \in Seq(Request)
  BY TypesSplit DEF RequestTypesOK
<1>2. \A s : <<p, s>> \in Carried(wire) => s \in {"sent", "ok", "failed"}
  BY <1>1, CarriedTypes
<1>3. /\ <<p, "sent">> \in Carried(wire') => Decision(p)' = "pending"
      /\ \A s \in {"ok", "failed"} : <<p, s>> \in Carried(wire') => Decision(p)' = s
      /\ (\A s : <<p, s>> \notin Carried(wire')) => Decision(p)' = "pending"
  BY DEF DecisionFacts
<1>4. /\ <<p, "sent">> \in Carried(wire) => Decision(p) = "pending"
      /\ \A s \in {"ok", "failed"} : <<p, s>> \in Carried(wire) => Decision(p) = s
      /\ (\A s : <<p, s>> \notin Carried(wire)) => Decision(p) = "pending"
  BY DEF DecisionFacts
<1>5. CASE \A s : <<p, s>> \notin Carried(wire)
  BY <1>3, <1>4, <1>5
<1>6. CASE <<p, "sent">> \in Carried(wire)
  BY <1>3, <1>4, <1>6
<1>7. ASSUME NEW s \in {"ok", "failed"}, <<p, s>> \in Carried(wire)
      PROVE  Decision(p)' = Decision(p)
  BY <1>3, <1>4, <1>7
<1> QED  BY <1>2, <1>5, <1>6, <1>7

LEMMA TravellingIsCarried ==
    Travelling = late \cup {p \in Puts \ outstandingPuts : <<p, "sent">> \in Carried(wire)}
<1>1. ASSUME NEW p \in Puts
      PROVE  <<p, "sent">> \in Carried(wire) <=>
                \E i \in DOMAIN wire :
                    wire[i].what = "put" /\ wire[i].id = p /\ wire[i].status = "sent"
  BY DEF Carried
<1> QED  BY <1>1 DEF Travelling

\* What has become of a write, in terms of what is kept, held and answered.
OutcomeFacts ==
    \A p \in Puts :
        /\ p \in outstandingPuts \/ putCounter <= p =>
                completions[p] = << >> /\ HeldOf(p) = {} /\ Outcome(p) = "none"
        /\ \A v : completions[p] = <<v>> => Outcome(p) = v
        /\ \A k : completions[p] = << >> /\ HeldOf(p) = {k} => Outcome(p) = putsToAck[k].status
        /\ p \notin outstandingPuts /\ p < putCounter =>
                \/ /\ \E v \in Completion : completions[p] = <<v>>
                   /\ HeldOf(p) = {}
                \/ completions[p] = << >> /\ \E k \in DOMAIN putsToAck : HeldOf(p) = {k}

LEMMA OutcomesAreKnown == TypeOK /\ OnceInv => OutcomeFacts
<1> SUFFICES ASSUME TypeOK, OnceInv, NEW p \in Puts
             PROVE
        /\ p \in outstandingPuts \/ putCounter <= p =>
                completions[p] = << >> /\ HeldOf(p) = {} /\ Outcome(p) = "none"
        /\ \A v : completions[p] = <<v>> => Outcome(p) = v
        /\ \A k : completions[p] = << >> /\ HeldOf(p) = {k} => Outcome(p) = putsToAck[k].status
        /\ p \notin outstandingPuts /\ p < putCounter =>
                \/ /\ \E v \in Completion : completions[p] = <<v>>
                   /\ HeldOf(p) = {}
                \/ completions[p] = << >> /\ \E k \in DOMAIN putsToAck : HeldOf(p) = {k}
  BY DEF OutcomeFacts
<1>1. /\ Len(completions[p]) \in Nat /\ Kept(p) \in Nat /\ Cardinality(HeldOf(p)) \in Nat
      /\ completions[p] \in Seq(Completion) /\ IsFiniteSet(HeldOf(p))
      /\ putCounter \in Nat /\ p \in Nat
      /\ p \in outstandingPuts => p < putCounter
  BY AnswersNumbers, HeldOfTypes
<1>2. Len(completions[p]) + Kept(p) + Cardinality(HeldOf(p)) = IF p < putCounter THEN 1 ELSE 0
  BY DEF OnceInv, Answers
<1>3. Len(completions[p]) = 0 => completions[p] = << >>
  BY <1>1
<1>4. Len(completions[p]) = 1 => \E v \in Completion : completions[p] = <<v>>
  <2> SUFFICES ASSUME Len(completions[p]) = 1
               PROVE  \E v \in Completion : completions[p] = <<v>>
    OBVIOUS
  <2>1. completions[p][1] \in Completion /\ completions[p] = <<completions[p][1]>>
    BY <1>1
  <2> QED  BY <2>1
<1>5. Cardinality(HeldOf(p)) = 0 => HeldOf(p) = {}
  BY <1>1, FS_EmptySet
<1>6. Cardinality(HeldOf(p)) = 1 => \E k \in DOMAIN putsToAck : HeldOf(p) = {k}
  <2> SUFFICES ASSUME Cardinality(HeldOf(p)) = 1
               PROVE  \E k \in DOMAIN putsToAck : HeldOf(p) = {k}
    OBVIOUS
  <2>1. PICK k : HeldOf(p) = {k}
    BY <1>1, FS_Singleton
  <2>2. k \in DOMAIN putsToAck
    BY <2>1 DEF HeldOf
  <2> QED  BY <2>1, <2>2
<1>7. /\ completions[p] = << >> /\ HeldOf(p) = {} => Outcome(p) = "none"
      /\ \A v : completions[p] = <<v>> => Outcome(p) = v
  <2>1. ASSUME completions[p] = << >>, HeldOf(p) = {} PROVE Outcome(p) = "none"
    <3>1. ~ \E k \in DOMAIN putsToAck : putsToAck[k].put = p
      BY <2>1 DEF HeldOf
    <3> QED  BY <2>1, <3>1 DEF Outcome
  <2>2. ASSUME NEW v, completions[p] = <<v>> PROVE Outcome(p) = v
    <3>1. completions[p] # << >> /\ completions[p][1] = v
      BY <2>2
    <3> QED  BY <3>1 DEF Outcome
  <2> QED  BY <2>1, <2>2
<1>8. ASSUME NEW k, completions[p] = << >>, HeldOf(p) = {k}
      PROVE  Outcome(p) = putsToAck[k].status
  <2>1. k \in DOMAIN putsToAck /\ putsToAck[k].put = p
        /\ \A j \in DOMAIN putsToAck : putsToAck[j].put = p => j = k
    BY <1>8 DEF HeldOf
  <2>2. (CHOOSE j \in DOMAIN putsToAck : putsToAck[j].put = p) = k
    BY <2>1
  <2> QED  BY <1>8, <2>1, <2>2 DEF Outcome
<1>9. ASSUME p \in outstandingPuts \/ putCounter <= p
      PROVE  completions[p] = << >> /\ HeldOf(p) = {} /\ Outcome(p) = "none"
  <2>1. Len(completions[p]) = 0 /\ Cardinality(HeldOf(p)) = 0
    <3>1. CASE p \in outstandingPuts
      <4>1. Kept(p) = 1 /\ Len(completions[p]) + 1 + Cardinality(HeldOf(p)) = 1
        BY <1>1, <1>2, <3>1 DEF Kept
      <4> QED  BY <1>1, <4>1
    <3>2. CASE p \notin outstandingPuts
      <4>1. Kept(p) = 0 /\ Len(completions[p]) + 0 + Cardinality(HeldOf(p)) = 0
        BY <1>1, <1>2, <1>9, <3>2 DEF Kept
      <4> QED  BY <1>1, <4>1
    <3> QED  BY <3>1, <3>2
  <2> QED  BY <1>3, <1>5, <1>7, <2>1
<1>10. ASSUME p \notin outstandingPuts, p < putCounter
       PROVE  \/ /\ \E v \in Completion : completions[p] = <<v>>
                 /\ HeldOf(p) = {}
              \/ completions[p] = << >> /\ \E k \in DOMAIN putsToAck : HeldOf(p) = {k}
  <2>1. \/ Len(completions[p]) = 1 /\ Cardinality(HeldOf(p)) = 0
        \/ Len(completions[p]) = 0 /\ Cardinality(HeldOf(p)) = 1
    <3>1. Kept(p) = 0 /\ Len(completions[p]) + 0 + Cardinality(HeldOf(p)) = 1
      BY <1>1, <1>2, <1>10 DEF Kept
    <3>2. \A a, b \in Nat : a + 0 + b = 1 => (a = 1 /\ b = 0) \/ (a = 0 /\ b = 1)
      OBVIOUS
    <3> QED  BY <1>1, <3>1, <3>2
  <2> QED  BY <1>3, <1>4, <1>5, <1>6, <2>1
<1> QED  BY <1>7, <1>8, <1>9, <1>10

\* Passing held answers on changes no outcome.
LEMMA OutcomePassedOn ==
    ASSUME TypeOK, OutcomeFacts, OutcomeFacts', NEW p \in Puts,
           completions'[p] = ackPuts[p], putsToAck' = << >>
    PROVE  /\ Outcome(p)' = Outcome(p)
           /\ p \in outstandingPuts => ackPuts[p] = << >>
<1> DEFINE n == Cardinality(HeldOf(p))
           t == [i \in 1..n |-> putsToAck[InOrder(HeldOf(p))[i]].status]
<1>1. /\ ackPuts[p] = completions[p] \o t
      /\ t \in Seq({"ok", "failed"}) /\ Len(t) = n
      /\ completions[p] \in Seq(Completion) /\ HeldOf(p)' = {}
      /\ n \in Nat /\ InOrder(HeldOf(p)) \in [1..n -> HeldOf(p)]
  <2>1. ackPuts[p] = completions[p] \o t /\ t \in Seq({"ok", "failed"}) /\ Len(t) = n
    BY AckedPuts
  <2>2. n \in Nat /\ InOrder(HeldOf(p)) \in [1..n -> HeldOf(p)]
    BY HeldOfTypes, InOrderLists
  <2>3. HeldOf(p)' = {}
    BY DEF HeldOf
  <2> QED  BY <2>1, <2>2, <2>3, AnswersNumbers
<1>2. CASE HeldOf(p) = {}
  <2>1. n = 0
    BY <1>2, FS_EmptySet
  <2> HIDE DEF t
  <2>2. t = << >>
    BY <1>1, <2>1
  <2>3. ackPuts[p] = completions[p]
    BY <1>1, <2>2, ConcatEmptySeq
  <2>4. Outcome(p)' = Outcome(p)
    <3>1. completions'[p] = completions[p]
      BY <2>3
    <3>2. \A k \in DOMAIN putsToAck : putsToAck[k].put # p
      BY <1>2 DEF HeldOf
    <3>3. \A k \in DOMAIN putsToAck' : putsToAck'[k].put # p
      BY <1>1 DEF HeldOf
    <3> QED  BY <3>1, <3>2, <3>3 DEF Outcome
  <2>5. p \in outstandingPuts => completions[p] = << >>
    BY DEF OutcomeFacts
  <2> QED  BY <2>3, <2>4, <2>5
<1>3. CASE HeldOf(p) # {}
  <2>1. p \notin outstandingPuts /\ p < putCounter
    BY <1>3, AnswersNumbers DEF OutcomeFacts
  <2>2. PICK k \in DOMAIN putsToAck : HeldOf(p) = {k} /\ completions[p] = << >>
    BY <1>3, <2>1 DEF OutcomeFacts
  <2>3. n = 1
    BY <2>2, FS_Singleton
  <2>4. InOrder(HeldOf(p))[1] = k
    <3>1. 1 \in 1..n
      BY <2>3
    <3>2. InOrder(HeldOf(p))[1] \in HeldOf(p)
      BY <1>1, <3>1
    <3> QED  BY <2>2, <3>2
  <2>5. t[1] = putsToAck[k].status
    BY <2>3, <2>4
  <2> HIDE DEF t
  <2>6. t = <<putsToAck[k].status>>
    BY <1>1, <2>3, <2>5
  <2>7. ackPuts[p] = <<putsToAck[k].status>>
    BY <1>1, <2>2, <2>6, ConcatEmptySeq
  <2>8. Outcome(p)' = putsToAck[k].status
    BY <2>7 DEF OutcomeFacts
  <2>9. Outcome(p) = putsToAck[k].status
    BY <2>2 DEF OutcomeFacts
  <2> QED  BY <2>1, <2>8, <2>9
<1> QED  BY <1>2, <1>3

LEMMA QueueInit == Init => Queue!Init
<1> SUFFICES ASSUME Init PROVE Queue!Init
  OBVIOUS
<1>1. /\ outstandingPuts = {} /\ wire = << >> /\ late = {} /\ stored = 0 /\ putsToAck = << >>
      /\ \A p \in Puts : completions[p] = << >>
  BY DEF Init
<1>2. Undecided = [w \in {} |-> "pending"]
  BY <1>1 DEF Undecided
<1>3. Travelling = {}
  BY <1>1 DEF Travelling
<1>4. \A p \in Puts : Outcome(p) = "none"
  BY <1>1 DEF Outcome
<1>5. Outcomes = [w \in Puts |-> "none"]
  BY <1>4 DEF Outcomes
<1> QED  BY <1>1, <1>2, <1>3, <1>5 DEF Queue!Init

\* What a step knows of the queue before and after it.
LEMMA QueueFacts ==
    MapInv => /\ DecisionFacts /\ OutcomeFacts
              /\ DOMAIN Undecided = outstandingPuts /\ outstandingPuts \subseteq Puts
              /\ \A p \in outstandingPuts : Undecided[p] = Decision(p)
              /\ \A p \in Puts : Outcomes[p] = Outcome(p)
  BY DecisionsAreCarried, OutcomesAreKnown, WritesAreNumbered DEF MapInv, Undecided, Outcomes

LEMMA QueueFactsNext ==
    MapInv' => /\ DecisionFacts' /\ OutcomeFacts'
               /\ outstandingPuts' \subseteq Puts
<1>1. (MapInv => DecisionFacts /\ OutcomeFacts /\ outstandingPuts \subseteq Puts)'
  <2>1. MapInv => DecisionFacts /\ OutcomeFacts /\ outstandingPuts \subseteq Puts
    BY QueueFacts
  <2> QED  BY <2>1, PTL
<1>2. Puts' = Puts
  BY DEF Puts
<1> QED  BY <1>1, <1>2

LEMMA OutcomeSame ==
    ASSUME NEW p, completions'[p] = completions[p], UNCHANGED putsToAck
    PROVE  Outcome(p)' = Outcome(p)
  BY DEF Outcome

LEMMA TravellingNext ==
    Travelling' = late' \cup {p \in Puts \ outstandingPuts' : <<p, "sent">> \in Carried(wire')}
<1>1. (Travelling = late \cup {p \in Puts \ outstandingPuts : <<p, "sent">> \in Carried(wire)})'
  BY TravellingIsCarried, PTL
<1> QED  BY <1>1 DEF Puts

\* Nothing of the queue changes.
LEMMA QueueStutters ==
    ASSUME UNCHANGED <<outstandingPuts, late, stored>>,
           \A p \in outstandingPuts : Decision(p)' = Decision(p),
           \A p \in Puts \ outstandingPuts :
                <<p, "sent">> \in Carried(wire') <=> <<p, "sent">> \in Carried(wire),
           \A p \in Puts : Outcome(p)' = Outcome(p)
    PROVE  UNCHANGED Queue!vars
<1>1. Undecided' = Undecided
  BY DEF Undecided
<1>2. Travelling' = Travelling
  BY TravellingIsCarried, TravellingNext
<1>3. Outcomes' = Outcomes
  BY DEF Outcomes, Puts
<1> QED  BY <1>1, <1>2, <1>3 DEF Queue!vars

\* The requests change in what the writes do not share.
LEMMA CarriedStutters ==
    ASSUME MapInv, MapInv', UNCHANGED <<outstandingPuts, late, stored>>,
           Carried(wire') = Carried(wire), \A p \in Puts : Outcome(p)' = Outcome(p)
    PROVE  UNCHANGED Queue!vars
<1>1. \A p \in outstandingPuts : Decision(p)' = Decision(p)
  BY QueueFacts, QueueFactsNext, DecisionSame DEF MapInv
<1> QED  BY <1>1, QueueStutters

\* Restoring the state sends every write again, and none had been sent.
LEMMA RestoringStutters ==
    ASSUME MapInv, MapInv', UNCHANGED <<outstandingPuts, late, stored, completions, putsToAck>>,
           Carried(wire) = {}, Carried(wire') = {<<p, "sent">> : p \in outstandingPuts}
    PROVE  UNCHANGED Queue!vars
<1>1. \A p \in Puts : Outcome(p)' = Outcome(p)
  BY OutcomeSame
<1>2. ASSUME NEW p \in outstandingPuts PROVE Decision(p)' = Decision(p)
  <2>1. <<p, "sent">> \in Carried(wire') /\ \A s : <<p, s>> \notin Carried(wire)
    BY Zenon
  <2>2. p \in Puts /\ DecisionFacts /\ DecisionFacts'
    BY QueueFacts, QueueFactsNext
  <2>3. Decision(p) = "pending"
    BY <2>1, <2>2 DEF DecisionFacts
  <2>4. Decision(p)' = "pending"
    BY <2>1, <2>2 DEF DecisionFacts
  <2> QED  BY <2>3, <2>4
<1>3. \A p \in Puts \ outstandingPuts :
            <<p, "sent">> \in Carried(wire') <=> <<p, "sent">> \in Carried(wire)
  <2> SUFFICES ASSUME NEW p \in Puts \ outstandingPuts, <<p, "sent">> \in Carried(wire')
               PROVE  FALSE
    BY Zenon
  <2>1. PICK q \in outstandingPuts : <<p, "sent">> = <<q, "sent">>
    BY Zenon
  <2> QED  BY <2>1
<1> QED  BY <1>1, <1>2, <1>3, QueueStutters

\* A write is made.
LEMMA QueueWrites ==
    ASSUME MapInv, MapInv', putInternal
    PROVE  Queue!Write(putCounter)
<1>0. PICK q : q = putCounter
  OBVIOUS
<1>1. /\ q \in Puts /\ q \in Nat /\ outstandingPuts' = outstandingPuts \cup {q}
      /\ UNCHANGED <<completions, putsToAck, late, stored>>
      /\ \A p \in outstandingPuts : p < q
      /\ q \notin outstandingPuts
  <2>1. q \in 1..(MaxPuts + 1) /\ q <= MaxPuts /\ MaxPuts \in Nat
    BY <1>0, WritesAreNumbered DEF MapInv, putInternal
  <2>2. \A p \in outstandingPuts : p < q
    BY <1>0, WritesAreNumbered DEF MapInv
  <2> QED  BY <1>0, <2>1, <2>2 DEF putInternal, worldVars, Puts
<1>2. /\ \A s : <<q, s>> \notin Carried(wire)
      /\ Carried(wire') \in {Carried(wire), Carried(wire) \cup {<<q, "sent">>}}
  <2>1. \A c \in Carried(wire) : c[1] < q
    BY <1>0 DEF MapInv, WireInv
  <2>2. \A s : <<q, s>> \notin Carried(wire)
    <3> SUFFICES ASSUME NEW s, <<q, s>> \in Carried(wire) PROVE FALSE
      OBVIOUS
    <3>1. <<q, s>>[1] < q
      BY <2>1
    <3> QED  BY <1>1, <3>1
  <2>3. CASE connectionState = "Connected"
    <3> DEFINE r == Req("put", putCounter, TRUE)
    <3>1. wire' = Append(wire, r)
      BY <2>3 DEF putInternal, canSendWrites
    <3>2. r \in Request /\ r.what = "put" /\ r.id = q /\ r.status = "sent"
      BY <1>0, <1>1, RequestsMade DEF Req
    <3>3. wire \in Seq(Request) /\ WritesInOrder(wire)
      BY TypesSplit DEF MapInv, RequestTypesOK, WireInv
    <3> HIDE DEF r
    <3>4. Carried(wire') = Carried(wire) \cup {<<q, "sent">>}
      BY <2>1, <3>1, <3>2, <3>3, CarriedAppend
    <3> QED  BY <2>2, <3>4
  <2>4. CASE connectionState # "Connected"
    BY <2>2, <2>4 DEF putInternal, canSendWrites
  <2> QED  BY <2>3, <2>4
<1>3. /\ DecisionFacts /\ DecisionFacts' /\ OutcomeFacts /\ TypeOK
      /\ DOMAIN Undecided = outstandingPuts /\ outstandingPuts \subseteq Puts
      /\ \A p \in outstandingPuts : Undecided[p] = Decision(p)
      /\ \A p \in Puts : Outcomes[p] = Outcome(p)
  BY QueueFacts, QueueFactsNext DEF MapInv
<1>4. ASSUME NEW p \in outstandingPuts PROVE Decision(p)' = Decision(p)
  <2>1. p # q /\ p \in Puts
    BY <1>1, <1>3
  <2>2. \A s : <<p, s>> \in Carried(wire') <=> <<p, s>> \in Carried(wire)
    BY <1>2, <2>1
  <2> QED  BY <1>3, <2>1, <2>2, DecisionSame
<1>5. Decision(q)' = "pending"
  <2>1. CASE <<q, "sent">> \in Carried(wire')
    BY <1>1, <1>3, <2>1 DEF DecisionFacts
  <2>2. CASE \A s : <<q, s>> \notin Carried(wire')
    BY <1>1, <1>3, <2>2 DEF DecisionFacts
  <2> QED  BY <1>2, <2>1, <2>2
<1>6. Undecided' = [v \in outstandingPuts \cup {q} |-> IF v = q THEN "pending" ELSE Undecided[v]]
  <2>1. Undecided' = [v \in outstandingPuts \cup {q} |-> Decision(v)']
    BY <1>1 DEF Undecided
  <2>2. \A v \in outstandingPuts \cup {q} :
            Decision(v)' = IF v = q THEN "pending" ELSE Undecided[v]
    BY <1>3, <1>4, <1>5
  <2> QED  BY <2>1, <2>2
<1>7. Travelling' = Travelling
  <2>1. \A p \in Puts : p \notin outstandingPuts /\ <<p, "sent">> \in Carried(wire)
                <=> p \notin outstandingPuts' /\ <<p, "sent">> \in Carried(wire')
    BY <1>1, <1>2
  <2> QED  BY <1>1, <2>1, TravellingIsCarried, TravellingNext
<1>8. Outcomes' = Outcomes
  BY <1>1, OutcomeSame DEF Outcomes, Puts
<1>9. ASSUME NEW p \in Puts
      PROVE  p < q <=> p \in outstandingPuts \/ Outcomes[p] # "none"
  <2>1. p \in Nat /\ (p \in outstandingPuts => p < q) /\ Outcomes[p] = Outcome(p)
    BY <1>1, <1>3 DEF Puts
  <2>2. CASE ~(p < q)
    <3>1. putCounter <= p
      BY <1>0, <1>1, <2>1, <2>2
    <3> QED  BY <2>1, <2>2, <3>1 , <1>3 DEF OutcomeFacts
  <2>3. CASE p < q /\ p \notin outstandingPuts
    <3>1. \/ /\ \E v \in Completion : completions[p] = <<v>>
             /\ HeldOf(p) = {}
          \/ completions[p] = << >> /\ \E k \in DOMAIN putsToAck : HeldOf(p) = {k}
      BY <1>0, <1>3, <2>3 DEF OutcomeFacts
    <3>2. ASSUME NEW v \in Completion, completions[p] = <<v>> PROVE Outcome(p) # "none"
      <4>1. Outcome(p) = v
        BY <1>3, <3>2 DEF OutcomeFacts
      <4> QED  BY <3>2, <4>1 DEF Completion
    <3>3. ASSUME NEW k \in DOMAIN putsToAck, completions[p] = << >>, HeldOf(p) = {k}
          PROVE  Outcome(p) # "none"
      <4>1. Outcome(p) = putsToAck[k].status
        BY <1>3, <3>3 DEF OutcomeFacts
      <4> QED  BY <1>3, <4>1, HeldStatus
    <3> QED  BY <2>1, <2>3, <3>1, <3>2, <3>3
  <2> QED  BY <2>1, <2>2, <2>3
<1> QED  BY <1>0, <1>1, <1>3, <1>6, <1>7, <1>8, <1>9 DEF Queue!Write, Queue!Queued

LEMMA WaitingWrites ==
    ASSUME MapInv
    PROVE  /\ Queue!Queued = outstandingPuts
           /\ Queue!Pending = {p \in outstandingPuts : Decision(p) = "pending"}
  BY QueueFacts DEF Queue!Queued, Queue!Pending

\* What was sent and not decided either waits or travels.
LEMMA SentWrites ==
    ASSUME MapInv, NEW p \in Puts, <<p, "sent">> \in Carried(wire)
    PROVE  p \in Travelling \cup Queue!Pending
<1>1. Decision(p) = "pending"
  BY QueueFacts DEF DecisionFacts
<1> QED  BY <1>1, WaitingWrites, TravellingIsCarried

LEMMA QueueGivesUp ==
    ASSUME MapInv, NEW C \in SUBSET outstandingPuts, outstandingPuts' = outstandingPuts \ C,
           UNCHANGED stored, Travelling' \subseteq Travelling \cup Queue!Pending,
           \A p \in Puts : Outcome(p)' = IF p \in C THEN "withdrawn" ELSE Outcome(p),
           \/ outstandingPuts' = {}
           \/ \A p \in outstandingPuts \ C : Decision(p)' = "pending"
    PROVE  Queue!GiveUp(C)
<1>1. /\ Queue!Queued = outstandingPuts /\ outstandingPuts \subseteq Puts
      /\ \A p \in outstandingPuts : Undecided[p] = Decision(p)
      /\ \A p \in Puts : Outcomes[p] = Outcome(p)
  BY QueueFacts, WaitingWrites
<1>2. Outcomes' = [w \in Puts |-> IF w \in C THEN "withdrawn" ELSE Outcomes[w]]
  BY <1>1 DEF Outcomes, Puts
<1>3. Undecided' = [p \in outstandingPuts \ C |-> Decision(p)']
  BY DEF Undecided
<1>4. \/ Undecided' = [v \in Queue!Queued \ C |-> Undecided[v]]
      \/ Undecided' = [v \in Queue!Queued \ C |-> "pending"]
  BY <1>1, <1>3
<1> QED  BY <1>1, <1>2, <1>4 DEF Queue!GiveUp

\* Everything outstanding is given up.
LEMMA QueuePurged ==
    ASSUME MapInv, MapInv', purgeOutstandingWrites
    PROVE  Queue!GiveUp(outstandingPuts)
<1>1. /\ outstandingPuts' = {} /\ putsToAck' = << >> /\ UNCHANGED <<wire, late, stored>>
      /\ \A p \in Puts : completions'[p] =
            IF p \in outstandingPuts THEN Append(ackPuts[p], "withdrawn") ELSE ackPuts[p]
  BY DEF purgeOutstandingWrites, worldVars
<1>2. TypeOK /\ OutcomeFacts /\ OutcomeFacts' /\ outstandingPuts \subseteq Puts
  BY QueueFacts, QueueFactsNext DEF MapInv
<1>3. Travelling' \subseteq Travelling \cup Queue!Pending
  <2>1. Travelling' = late \cup {p \in Puts : <<p, "sent">> \in Carried(wire)}
    BY <1>1, TravellingNext
  <2>2. late \subseteq Travelling
    BY TravellingIsCarried
  <2> QED  BY <2>1, <2>2, SentWrites
<1>4. ASSUME NEW p \in Puts
      PROVE  Outcome(p)' = IF p \in outstandingPuts THEN "withdrawn" ELSE Outcome(p)
  <2>1. CASE p \notin outstandingPuts
    BY <1>1, <1>2, <2>1, OutcomePassedOn
  <2>2. CASE p \in outstandingPuts
    <3>1. ackPuts[p] = << >>
      <4>1. completions[p] = << >> /\ HeldOf(p) = {}
        BY <1>2, <2>2 DEF OutcomeFacts
      <4>2. Cardinality(HeldOf(p)) = 0 /\ Len(completions[p]) = 0
        BY <4>1, FS_EmptySet
      <4>3. ackPuts[p] \in Seq(Completion) /\ Len(ackPuts[p]) = 0
        <5>1. ackPuts[p] \in Seq(Completion)
              /\ Len(ackPuts[p]) = Len(completions[p]) + Cardinality(HeldOf(p))
          BY <1>2, AckedPuts
        <5> QED  BY <4>2, <5>1
      <4> QED  BY <4>3
    <3>2. completions'[p] = <<"withdrawn">>
      <4>1. Append(<< >>, "withdrawn") = <<"withdrawn">>
        OBVIOUS
      <4>2. completions'[p] = Append(ackPuts[p], "withdrawn")
        BY <1>1, <2>2
      <4> QED  BY ONLY <3>1, <4>1, <4>2
    <3> QED  BY <1>2, <2>2, <3>2 DEF OutcomeFacts
  <2> QED  BY <2>1, <2>2
<1>5. PICK C : C = outstandingPuts
  OBVIOUS
<1> QED  BY <1>1, <1>3, <1>4, <1>5, QueueGivesUp

\* The connection closes.
LEMMA QueueClosed ==
    ASSUME MapInv, MapInv', wire' = << >>, cancelSentTransactions, Straggle,
           UNCHANGED <<putsToAck, stored>>
    PROVE  Queue!GiveUp(outstandingPuts \cap sent)
<1>1. PICK C : C = outstandingPuts \cap sent
  OBVIOUS
<1>2. /\ C \in SUBSET outstandingPuts /\ outstandingPuts' = outstandingPuts \ C
      /\ \A p \in Puts : completions'[p] =
            IF p \in C THEN Append(completions[p], "withdrawn") ELSE completions[p]
  BY <1>1 DEF cancelSentTransactions
<1>3. OutcomeFacts /\ OutcomeFacts' /\ DecisionFacts' /\ outstandingPuts \subseteq Puts
  BY QueueFacts, QueueFactsNext
<1>4. ASSUME NEW p \in Puts PROVE Outcome(p)' = IF p \in C THEN "withdrawn" ELSE Outcome(p)
  <2>1. CASE p \in C
    <3>1. completions[p] = << >>
      BY <1>2, <1>3, <2>1 DEF OutcomeFacts
    <3>2. completions'[p] = <<"withdrawn">>
      <4>1. Append(<< >>, "withdrawn") = <<"withdrawn">>
        OBVIOUS
      <4>2. completions'[p] = Append(completions[p], "withdrawn")
        BY <1>2, <2>1
      <4> QED  BY ONLY <3>1, <4>1, <4>2
    <3> QED  BY <1>3, <2>1, <3>2 DEF OutcomeFacts
  <2>2. CASE p \notin C
    BY <1>2, <2>2, OutcomeSame
  <2> QED  BY <2>1, <2>2
<1>5. Carried(wire') = {}
  BY CarriedEmpty
<1>6. Travelling' \subseteq Travelling \cup Queue!Pending
  <2>1. Travelling' = late'
    BY <1>5, TravellingNext
  <2>2. PICK S \in SUBSET {wire[i].id : i \in {j \in DOMAIN wire :
                            wire[j].what = "put" /\ wire[j].status = "sent"}} :
            late' = late \cup S
    BY DEF Straggle
  <2>3. \A p \in S : <<p, "sent">> \in Carried(wire)
    BY DEF Carried
  <2>4. \A p \in S : p \in Puts
    <3>1. wire \in Seq(Request)
      BY TypesSplit DEF MapInv, RequestTypesOK
    <3>2. Carried(wire) \subseteq Puts \X {"sent", "ok", "failed"}
      BY <3>1, CarriedTypes
    <3> QED  BY <2>3, <3>2
  <2>5. late \subseteq Travelling
    BY TravellingIsCarried
  <2> QED  BY <2>1, <2>2, <2>3, <2>4, <2>5, SentWrites
<1>7. \A p \in outstandingPuts \ C : Decision(p)' = "pending"
  BY <1>3, <1>5 DEF DecisionFacts
<1> QED  BY <1>1, <1>2, <1>4, <1>6, <1>7, QueueGivesUp

\* The server decides a request.
LEMMA QueueDecides ==
    ASSUME MapInv, MapInv', NEW i \in DOMAIN wire, ServerDecides(i)
    PROVE  (\E p \in Puts : Queue!Decide(p) \/ Queue!Late(p)) \/ UNCHANGED Queue!vars
<1>1. /\ TypeOK /\ WireInv /\ DecisionFacts /\ DecisionFacts' /\ outstandingPuts \subseteq Puts
      /\ \A p \in outstandingPuts : Undecided[p] = Decision(p)
      /\ DOMAIN Undecided = outstandingPuts
      /\ \A p \in Puts : Outcomes[p] = Outcome(p)
  BY QueueFacts, QueueFactsNext DEF MapInv
<1>2. PICK status \in {"ok", "failed"} :
            /\ Decided(wire, wire', i, status)
            /\ stored' = IF wire[i].what = "put" /\ status = "ok" THEN wire[i].id ELSE stored
  BY <1>1, DecisionMade
<1>3. /\ wire[i].status = "sent" /\ \A j \in 1..(i - 1) : wire[j].status # "sent"
      /\ UNCHANGED <<outstandingPuts, completions, putsToAck, late, connectionState>>
  BY DEF ServerDecides, putVars, connectionVars
<1>4. /\ wire \in Seq(Request) /\ WritesInOrder(wire) /\ Puts \in SUBSET Nat
      /\ DOMAIN wire = 1..Len(wire) /\ Len(wire) \in Nat
  BY <1>1, TypesSplit, WritesAreNumbered DEF RequestTypesOK, WireInv
<1>5. Decided(wire, wire', i, status)
  BY <1>2
<1>6. \A p \in Puts : Outcome(p)' = Outcome(p)
  BY <1>3, OutcomeSame
<1>7. CASE wire[i].what # "put"
  <2>1. Carried(wire') = Carried(wire)
    BY <1>4, <1>5, <1>7, DecisionOther
  <2> QED  BY <1>2, <1>3, <1>6, <1>7, <2>1, CarriedStutters
<1>8. CASE wire[i].what = "put"
  <2>1. PICK p : p = wire[i].id
    OBVIOUS
  <2>2. /\ Carried(wire') = (Carried(wire) \ {<<p, "sent">>}) \cup {<<p, status>>}
        /\ <<p, "sent">> \in Carried(wire) /\ p \in Puts
    <3>1. Carried(wire') = (Carried(wire) \ {<<p, "sent">>}) \cup {<<p, status>>}
      BY <1>3, <1>4, <1>5, <1>8, <2>1, CarriedDecision
    <3>2. <<wire[i].id, wire[i].status>> \in Carried(wire)
      BY <1>8 DEF Carried
    <3>3. Carried(wire) \subseteq Puts \X {"sent", "ok", "failed"}
      BY <1>4, CarriedTypes
    <3> QED  BY <1>3, <2>1, <3>1, <3>2, <3>3
  <2>3. Decision(p) = "pending" /\ Decision(p)' = status
    BY <1>1, <2>2 DEF DecisionFacts
  <2>4. ASSUME NEW q \in Puts, q # p
        PROVE  /\ Decision(q)' = Decision(q)
               /\ <<q, "sent">> \in Carried(wire') <=> <<q, "sent">> \in Carried(wire)
    <3>1. \A s : <<q, s>> \in Carried(wire') <=> <<q, s>> \in Carried(wire)
      BY <2>2, <2>4
    <3> QED  BY <1>1, <3>1, DecisionSame
  <2>5. Outcomes' = Outcomes
    BY <1>6 DEF Outcomes, Puts
  <2>6. stored' = IF status = "ok" THEN p ELSE stored
    BY <1>2, <1>8, <2>1
  <2>7. <<p, "sent">> \notin Carried(wire')
    BY <2>2, <1>2
  <2>8. CASE p \in outstandingPuts
    <3>1. Queue!Queued = outstandingPuts
          /\ Queue!Pending = {v \in outstandingPuts : Decision(v) = "pending"}
      BY WaitingWrites
    <3>2. ASSUME NEW v \in Queue!Pending PROVE p <= v
      <4>1. v \in outstandingPuts /\ Decision(v) = "pending" /\ v \in Puts /\ v \in Nat /\ p \in Nat
        BY <1>1, <1>4, <2>2, <3>1, <3>2
      <4>2. \E c \in Carried(wire) : c[1] = v
        BY <1>1, <2>2, <4>1 DEF WireInv, WritesSent
      <4>3. <<v, "sent">> \in Carried(wire)
        <5>1. PICK c \in Carried(wire) : c[1] = v
          BY <4>2
        <5>2. c = <<v, c[2]>> /\ c[2] \in {"sent", "ok", "failed"}
          BY <1>4, <5>1, CarriedTypes
        <5>3. <<v, "ok">> \notin Carried(wire) /\ <<v, "failed">> \notin Carried(wire)
          BY <1>1, <4>1 DEF DecisionFacts
        <5> QED  BY <5>1, <5>2, <5>3
      <4>4. PICK j \in DOMAIN wire :
                wire[j].what = "put" /\ wire[j].id = v /\ wire[j].status = "sent"
        BY <4>3 DEF Carried
      <4>5. ~(j < i)
        BY <1>3, <1>4, <4>4
      <4>6. i < j \/ i = j
        BY <1>4, <4>5
      <4>7. CASE i < j
        <5>1. wire[i].id < wire[j].id
          BY <1>4, <1>8, <4>4, <4>7 DEF WritesInOrder
        <5> QED  BY <2>1, <4>1, <4>4, <5>1
      <4>8. CASE i = j
        BY <2>1, <4>1, <4>4, <4>8
      <4> QED  BY <4>6, <4>7, <4>8
    <3>3. Undecided' = [Undecided EXCEPT ![p] = status]
      <4>1. Undecided' = [v \in outstandingPuts |-> Decision(v)']
        BY <1>3 DEF Undecided
      <4>2. \A v \in outstandingPuts : Decision(v)' = IF v = p THEN status ELSE Undecided[v]
        BY <1>1, <2>3, <2>4
      <4>3. Undecided = [v \in outstandingPuts |-> Decision(v)]
        BY DEF Undecided
      <4> QED  BY <1>1, <4>1, <4>2, <4>3
    <3>4. Travelling' = Travelling
      BY <1>3, <2>4, <2>8, TravellingIsCarried, TravellingNext
    <3>5. p \in Queue!Pending
      BY <2>3, <2>8, <3>1
    <3>6. Queue!Decide(p)
      <4>1. \/ Undecided' = [Undecided EXCEPT ![p] = "ok"] /\ stored' = p
            \/ Undecided' = [Undecided EXCEPT ![p] = "failed"] /\ UNCHANGED stored
        BY <1>2, <2>6, <3>3
      <4> QED  BY <2>5, <3>2, <3>4, <3>5, <4>1 DEF Queue!Decide
    <3> QED  BY <2>2, <3>6
  <2>9. CASE p \notin outstandingPuts
    <3>1. p \in Travelling
      BY <2>2, <2>9, TravellingIsCarried
    <3>2. Undecided' = Undecided
      <4>1. \A v \in outstandingPuts : Decision(v)' = Decision(v)
        BY <1>1, <2>4, <2>9
      <4> QED  BY <1>3, <4>1 DEF Undecided
    <3>3. Travelling' \in {Travelling, Travelling \ {p}}
      <4>1. Travelling' = (Travelling \ {p}) \cup (late \cap {p})
        BY <1>3, <2>2, <2>4, <2>7, <2>9, TravellingIsCarried, TravellingNext
      <4> QED  BY <3>1, <4>1
    <3>4. Queue!Late(p)
      BY <2>5, <2>6, <3>1, <3>2, <3>3 DEF Queue!Late
    <3> QED  BY <2>2, <3>4
  <2> QED  BY <2>8, <2>9
<1> QED  BY <1>7, <1>8

\* A copy arrives late.
LEMMA QueueLate ==
    ASSUME MapInv, MapInv', NEW p \in late, LateWrite(p)
    PROVE  Queue!Late(p)
<1>1. /\ late' = late \ {p} /\ stored' \in {stored, p}
      /\ UNCHANGED <<wire, outstandingPuts, completions, putsToAck>>
  BY DEF LateWrite, putVars
<1>2. Undecided' = Undecided /\ Outcomes' = Outcomes
  BY <1>1 DEF Undecided, Decision, Outcomes, Outcome, Puts
<1>3. p \in Travelling /\ Travelling' \in {Travelling, Travelling \ {p}}
  <2>1. Travelling' = (late \ {p})
            \cup {q \in Puts \ outstandingPuts : <<q, "sent">> \in Carried(wire)}
    BY <1>1, TravellingNext
  <2> QED  BY <2>1, TravellingIsCarried
<1> QED  BY <1>1, <1>2, <1>3 DEF Queue!Late

\* The answer about the oldest request comes back, and it is a write.
LEMMA QueueAnswers ==
    ASSUME MapInv, MapInv', PutAnswered
    PROVE  (\E p \in Puts : Queue!Ack(p)) \/ UNCHANGED Queue!vars
<1>1. PICK p, decision : p = Head(wire).id /\ decision = Head(wire).status
  OBVIOUS
<1>2. /\ TypeOK /\ WireInv /\ DecisionFacts /\ DecisionFacts' /\ outstandingPuts \subseteq Puts
      /\ OutcomeFacts /\ OutcomeFacts'
      /\ \A q \in outstandingPuts : Undecided[q] = Decision(q)
      /\ DOMAIN Undecided = outstandingPuts
      /\ \A q \in Puts : Outcomes[q] = Outcome(q)
  BY QueueFacts, QueueFactsNext DEF MapInv
<1>3. /\ wire # << >> /\ Head(wire).what = "put" /\ decision \in {"ok", "failed"}
      /\ wire' = Tail(wire) /\ outstandingPuts' = outstandingPuts \ {p}
      /\ UNCHANGED <<late, stored, connectionState>>
  BY <1>1 DEF PutAnswered, Answer, worldVars, connectionVars
<1>4. \/ p \notin outstandingPuts /\ UNCHANGED <<completions, putsToAck>>
      \/ /\ p \in outstandingPuts /\ UNCHANGED putsToAck
         /\ completions' = [completions EXCEPT ![p] = Append(@, decision)]
      \/ /\ p \in outstandingPuts /\ UNCHANGED completions
         /\ putsToAck' = Append(putsToAck, [put |-> p, status |-> decision])
  BY <1>1, Zenon DEF PutAnswered
<1>5. /\ wire \in Seq(Request) /\ WritesInOrder(wire) /\ Puts \in SUBSET Nat
      /\ wire[1] = Head(wire) /\ 1 \in DOMAIN wire /\ p \in Puts
  BY <1>1, <1>2, <1>3, HeadIsRequest, WritesAreNumbered DEF WireInv
<1>6. /\ Carried(wire') = Carried(wire) \ {<<p, decision>>}
      /\ \A c \in Carried(wire') : p < c[1]
      /\ <<p, decision>> \in Carried(wire)
  <2>1. <<wire[1].id, wire[1].status>> \in Carried(wire)
    BY <1>3, <1>5 DEF Carried
  <2> QED  BY <1>1, <1>3, <1>5, <2>1, CarriedTail
<1>7. Decision(p) = decision
  BY <1>2, <1>3, <1>5, <1>6 DEF DecisionFacts
<1>8. ASSUME NEW q \in Puts, q # p
      PROVE  /\ Decision(q)' = Decision(q)
             /\ <<q, "sent">> \in Carried(wire') <=> <<q, "sent">> \in Carried(wire)
  <2>1. \A s : <<q, s>> \in Carried(wire') <=> <<q, s>> \in Carried(wire)
    BY <1>6, <1>8
  <2> QED  BY <1>2, <2>1, DecisionSame
<1>9. <<p, "sent">> \in Carried(wire') <=> <<p, "sent">> \in Carried(wire)
  BY <1>3, <1>6
<1>10. CASE p \notin outstandingPuts
  <2>1. UNCHANGED <<outstandingPuts, completions, putsToAck>>
    BY <1>3, <1>4, <1>10
  <2>2. \A q \in outstandingPuts : Decision(q)' = Decision(q)
    BY <1>2, <1>8, <1>10
  <2>3. \A q \in Puts \ outstandingPuts :
            <<q, "sent">> \in Carried(wire') <=> <<q, "sent">> \in Carried(wire)
    BY <1>8, <1>9
  <2>4. \A q \in Puts : Outcome(q)' = Outcome(q)
    BY <2>1, OutcomeSame
  <2> QED  BY <1>3, <2>1, <2>2, <2>3, <2>4, QueueStutters
<1>11. CASE p \in outstandingPuts
  <2>1. completions[p] = << >> /\ HeldOf(p) = {}
    BY <1>2, <1>11 DEF OutcomeFacts
  <2>2. ASSUME NEW q \in Puts PROVE Outcome(q)' = IF q = p THEN decision ELSE Outcome(q)
    <3>1. CASE UNCHANGED putsToAck /\ completions' = [completions EXCEPT ![p] = Append(@, decision)]
      <4>1. \A r \in Puts :
                completions'[r] = IF r = p THEN Append(completions[r], decision) ELSE completions[r]
        BY <1>2, <3>1 DEF TypeOK
      <4>2. CASE q = p
        <5>1. Append(<< >>, decision) = <<decision>>
          OBVIOUS
        <5>2. completions'[q] = Append(completions[q], decision)
          BY <4>1, <4>2
        <5>3. completions'[q] = <<decision>>
          BY ONLY <2>1, <4>2, <5>1, <5>2
        <5> QED  BY <1>2, <4>2, <5>3 DEF OutcomeFacts
      <4>3. CASE q # p
        BY <3>1, <4>1, <4>3, OutcomeSame
      <4> QED  BY <4>2, <4>3
    <3>2. CASE /\ UNCHANGED completions
               /\ putsToAck' = Append(putsToAck, [put |-> p, status |-> decision])
      <4> DEFINE a == [put |-> p, status |-> decision]
                 n == Len(putsToAck)
      <4>1. a \in [put : Puts, status : {"ok", "failed"}] /\ a.put = p /\ a.status = decision
            /\ putsToAck' = Append(putsToAck, a)
        BY <1>3, <1>5, <3>2
      <4> HIDE DEF a
      <4>2. HeldOf(q)' = IF q = a.put THEN HeldOf(q) \cup {n + 1} ELSE HeldOf(q)
        BY <1>2, <4>1, HeldOfAppend
      <4>3. /\ n \in Nat /\ HeldOf(q) \subseteq 1..n /\ putsToAck'[n + 1] = a
            /\ \A k \in 1..n : putsToAck'[k] = putsToAck[k]
        BY <1>2, <4>1, HeldOfAppend
      <4> HIDE DEF n
      <4>4. CASE q = p
        <5>1. HeldOf(q)' = {n + 1} /\ completions'[q] = << >>
          BY <2>1, <3>2, <4>1, <4>2, <4>4
        <5>2. Outcome(q)' = putsToAck'[n + 1].status
          <6>1. PICK k : k = n + 1
            OBVIOUS
          <6>2. Outcome(q)' = putsToAck'[k].status
            BY <1>2, <5>1, <6>1 DEF OutcomeFacts
          <6> QED  BY <6>1, <6>2
        <5> QED  BY <4>1, <4>3, <4>4, <5>2
      <4>5. CASE q # p
        <5>1. HeldOf(q)' = HeldOf(q) /\ completions'[q] = completions[q]
          BY <3>2, <4>1, <4>2, <4>5
        <5>2. CASE \E v : completions[q] = <<v>>
          <6>1. PICK v : completions[q] = <<v>>
            BY <5>2
          <6>2. completions'[q] = <<v>>
            BY <5>1, <6>1
          <6>3. Outcome(q) = v
            BY <1>2, <6>1 DEF OutcomeFacts
          <6>4. Outcome(q)' = v
            BY <1>2, <6>2 DEF OutcomeFacts
          <6> QED  BY <4>5, <6>3, <6>4
        <5>3. CASE completions[q] = << >> /\ \E k : HeldOf(q) = {k}
          <6>1. PICK k : HeldOf(q) = {k}
            BY <5>3
          <6>2. Outcome(q) = putsToAck[k].status /\ Outcome(q)' = putsToAck'[k].status
            BY <1>2, <5>1, <5>3, <6>1 DEF OutcomeFacts
          <6>3. putsToAck'[k] = putsToAck[k]
            BY <4>3, <6>1
          <6> QED  BY <4>5, <6>2, <6>3
        <5>4. CASE q \in outstandingPuts \/ putCounter <= q
          <6>1. q \in outstandingPuts' \/ putCounter' <= q
            BY <1>3, <4>5, <5>4 DEF PutAnswered
          <6>2. Outcome(q)' = "none" /\ Outcome(q) = "none"
            BY <1>2, <5>4, <6>1 DEF OutcomeFacts
          <6> QED  BY <4>5, <6>2
        <5>5. q \in Nat /\ putCounter \in Nat
          BY <1>2, AnswersNumbers
        <5>6. ASSUME q \notin outstandingPuts, q < putCounter
              PROVE  \/ \E v : completions[q] = <<v>>
                     \/ completions[q] = << >> /\ \E k : HeldOf(q) = {k}
          BY <1>2, <5>6 DEF OutcomeFacts
        <5>7. q < putCounter \/ putCounter <= q
          BY <5>5
        <5> QED  BY <5>2, <5>3, <5>4, <5>6, <5>7
      <4> QED  BY <4>4, <4>5
    <3> QED  BY <1>4, <1>11, <3>1, <3>2
  <2>3. Outcomes' = [Outcomes EXCEPT ![p] = Undecided[p]]
    <3>1. Outcomes' = [q \in Puts |-> Outcome(q)'] /\ Outcomes = [q \in Puts |-> Outcome(q)]
      BY DEF Outcomes, Puts
    <3>2. Undecided[p] = decision
      BY <1>2, <1>7, <1>11
    <3> QED  BY <1>2, <1>5, <2>2, <3>1, <3>2
  <2>4. Undecided' = [v \in outstandingPuts \ {p} |-> Undecided[v]]
    <3>1. Undecided' = [v \in outstandingPuts \ {p} |-> Decision(v)']
      BY <1>3 DEF Undecided
    <3>2. \A v \in outstandingPuts \ {p} : Decision(v)' = Undecided[v]
      BY <1>2, <1>8
    <3> QED  BY <3>1, <3>2
  <2>5. Travelling' = Travelling
    <3>1. <<p, "sent">> \notin Carried(wire)
      BY <1>2, <1>3, <1>5, <1>6 DEF DecisionFacts
    <3>2. \A q \in Puts : q \notin outstandingPuts' /\ <<q, "sent">> \in Carried(wire')
                <=> q \notin outstandingPuts /\ <<q, "sent">> \in Carried(wire)
      BY <1>3, <1>8, <1>9, <3>1
    <3> QED  BY <1>3, <3>2, TravellingIsCarried, TravellingNext
  <2>6. p \in Queue!Queued \ Queue!Pending /\ Queue!Queued = outstandingPuts
    BY <1>3, <1>7, <1>11, WaitingWrites
  <2>7. ASSUME NEW v \in outstandingPuts PROVE p <= v
    <3>1. PICK c \in Carried(wire) : c[1] = v
      BY <1>2, <1>6 DEF WireInv, WritesSent
    <3>2. CASE c = <<p, decision>>
      BY <1>5, <3>1, <3>2
    <3>3. CASE c # <<p, decision>>
      <4>1. p < c[1]
        BY <1>6, <3>3
      <4>2. p \in Nat /\ v \in Nat
        BY <1>2, <1>5
      <4> QED  BY <3>1, <4>1, <4>2
    <3> QED  BY <3>2, <3>3
  <2>8. Queue!Ack(p)
    BY <1>3, <2>3, <2>4, <2>5, <2>6, <2>7 DEF Queue!Ack
  <2> QED  BY <1>5, <2>8
<1> QED  BY <1>10, <1>11

\* The answer to another request is taken off the wire.
LEMMA AnswerCarries ==
    ASSUME TypeOK, WireInv, wire # << >>, Head(wire).what # "put",
           wire' = Tail(wire) \/ \E q : wire' = Forget(Tail(wire), q)
    PROVE  Carried(wire') = Carried(wire)
<1>1. /\ wire \in Seq(Request) /\ Tail(wire) \in Seq(Request) /\ Head(wire) = wire[1]
      /\ WritesInOrder(wire) /\ Puts \in SUBSET Nat
  BY HeadIsRequest, WritesAreNumbered DEF WireInv
<1>2. WritesInOrder(Tail(wire)) /\ Carried(Tail(wire)) = Carried(wire)
  BY <1>1, CarriedTail
<1>3. ASSUME NEW q, wire' = Forget(Tail(wire), q) PROVE Carried(wire') = Carried(wire)
  BY <1>1, <1>2, <1>3, CarriedForget
<1> QED  BY <1>2, <1>3

\* The answer of a listen may let held answers through, which the queue has
\* counted as come back.
LEMMA ListenStutters ==
    ASSUME MapInv, MapInv', ListenAnswered
    PROVE  UNCHANGED Queue!vars
<1>1. /\ wire # << >> /\ Head(wire).what = "listen"
      /\ wire' = Tail(wire) \/ \E q : wire' = Forget(Tail(wire), q)
      /\ UNCHANGED <<outstandingPuts, late, stored>>
      /\ \/ UNCHANGED <<completions, putsToAck>>
         \/ completions' = ackPuts /\ putsToAck' = << >>
  BY DEF ListenAnswered, Answer, worldVars
<1>2. TypeOK /\ WireInv /\ OutcomeFacts /\ OutcomeFacts'
  BY QueueFacts, QueueFactsNext DEF MapInv
<1>3. Carried(wire') = Carried(wire)
  BY <1>1, <1>2, AnswerCarries
<1>4. \A p \in Puts : Outcome(p)' = Outcome(p)
  <2>1. CASE UNCHANGED <<completions, putsToAck>>
    BY <2>1, OutcomeSame
  <2>2. CASE completions' = ackPuts /\ putsToAck' = << >>
    BY <1>2, <2>2, OutcomePassedOn
  <2> QED  BY <1>1, <2>1, <2>2
<1> QED  BY <1>1, <1>3, <1>4, CarriedStutters

\* A request is sent that is no write.
LEMMA SendingStutters ==
    ASSUME MapInv, MapInv', NEW r \in Request, r.what # "put",
           wire' \in {wire, Append(wire, r)},
           UNCHANGED <<outstandingPuts, completions, putsToAck, late, stored>>
    PROVE  UNCHANGED Queue!vars
<1>1. wire \in Seq(Request) /\ WritesInOrder(wire)
  BY TypesSplit DEF MapInv, RequestTypesOK, WireInv
<1>2. Carried(wire') = Carried(wire)
  BY <1>1, CarriedAppend
<1> QED  BY <1>2, CarriedStutters, OutcomeSame

\* What the calls of the app and the rest of the SDK do to the queue.
LEMMA CallMaps ==
    ASSUME MapInv, MapInv',
           \/ putInternal \/ purgeOutstandingWrites
           \/ \E q \in Queries : listen(q) \/ unlisten(q)
           \/ \E o \in OnDisconnects : onDisconnectOperation(o)
           \/ \E token \in BOOLEAN : refreshAuthToken(token)
    PROVE  Queue!Next \/ UNCHANGED Queue!vars
<1>1. CASE putInternal
  <2>1. putCounter \in Puts
    BY <1>1, WritesAreNumbered DEF MapInv, putInternal, Puts
  <2> QED  BY <1>1, <2>1, QueueWrites DEF Queue!Next
<1>2. CASE purgeOutstandingWrites
  <2>1. outstandingPuts \in SUBSET Queue!Queued
    BY WaitingWrites
  <2> QED  BY <1>2, <2>1, QueuePurged DEF Queue!Next
<1>3. ASSUME NEW q \in Queries, listen(q) PROVE UNCHANGED Queue!vars
  <2>1. Req("listen", q, TRUE) \in Request /\ Req("listen", q, TRUE).what # "put"
    BY RequestsMade DEF Req
  <2>2. /\ wire' \in {wire, Append(wire, Req("listen", q, TRUE))}
        /\ UNCHANGED <<outstandingPuts, completions, putsToAck, late, stored>>
    BY <1>3 DEF listen, putVars, worldVars
  <2> QED  BY <2>1, <2>2, SendingStutters
<1>4. ASSUME NEW q \in Queries, unlisten(q) PROVE UNCHANGED Queue!vars
  <2>1. /\ wire' = Forget(wire, q)
        /\ UNCHANGED <<outstandingPuts, completions, putsToAck, late, stored>>
    BY <1>4 DEF unlisten, putVars, worldVars
  <2>2. wire \in Seq(Request) /\ WritesInOrder(wire)
    BY TypesSplit DEF MapInv, RequestTypesOK, WireInv
  <2>3. Carried(wire') = Carried(wire)
    BY <2>1, <2>2, CarriedForget
  <2> QED  BY <2>1, <2>3, CarriedStutters, OutcomeSame
<1>5. ASSUME NEW o \in OnDisconnects, onDisconnectOperation(o) PROVE UNCHANGED Queue!vars
  <2>1. Req("onDisconnect", o, TRUE) \in Request /\ Req("onDisconnect", o, TRUE).what # "put"
    BY RequestsMade DEF Req
  <2>2. /\ wire' \in {wire, Append(wire, Req("onDisconnect", o, TRUE))}
        /\ UNCHANGED <<outstandingPuts, completions, putsToAck, late, stored>>
    BY <1>5 DEF onDisconnectOperation, putVars, worldVars
  <2> QED  BY <2>1, <2>2, SendingStutters
<1>6. ASSUME NEW token \in BOOLEAN, refreshAuthToken(token) PROVE UNCHANGED Queue!vars
  <2>1. Req("auth", 0, FALSE) \in Request /\ Req("auth", 0, FALSE).what # "put"
    BY RequestsMade DEF Req
  <2>2. /\ wire' \in {wire, Append(wire, Req("auth", 0, FALSE))}
        /\ UNCHANGED <<outstandingPuts, completions, putsToAck, late, stored>>
    BY <1>6 DEF refreshAuthToken, putVars, worldVars
  <2> QED  BY <2>1, <2>2, SendingStutters
<1> QED  BY <1>1, <1>2, <1>3, <1>4, <1>5, <1>6

\* The state is restored on a connection that has carried no write.
LEMMA RestoreMaps ==
    ASSUME MapInv, MapInv', CountInv, onHandshake \/ AuthSucceeds
    PROVE  UNCHANGED Queue!vars
<1>1. /\ TypeOK /\ IInv /\ WireInv
      /\ wire \in Seq(Request) /\ WritesInOrder(wire) /\ Puts \in SUBSET Nat
  BY TypesSplit, WritesAreNumbered DEF MapInv, RequestTypesOK, WireInv
<1>2. UNCHANGED <<outstandingPuts, completions, putsToAck, late, stored>>
  BY DEF onHandshake, AuthSucceeds, worldVars
<1>3. ASSUME NEW rest \in Seq(Request), Carried(rest) = {}, WritesInOrder(rest),
             Restorers(rest) = {}, restoreState(rest), Carried(wire) = {}
      PROVE  UNCHANGED Queue!vars
  BY <1>1, <1>2, <1>3, CarriedRestored, RestoringStutters
<1>4. CASE onHandshake
  <2>1. wire = << >>
    BY <1>1, <1>4 DEF onHandshake, IInv, WireAgrees
  <2>2. CASE authToken
    <3>1. wire' = Append(wire, Req("auth", 0, TRUE))
      BY <1>4, <2>2 DEF onHandshake
    <3>2. Req("auth", 0, TRUE) \in Request /\ Req("auth", 0, TRUE).what # "put"
      BY RequestsMade DEF Req
    <3> QED  BY <1>2, <3>1, <3>2, SendingStutters
  <2>3. CASE ~authToken
    <3>1. restoreState(wire)
      BY <1>4, <2>3 DEF onHandshake
    <3> QED  BY <1>1, <1>3, <2>1, <3>1, CarriedEmpty
  <2> QED  BY <2>2, <2>3
<1>5. CASE AuthSucceeds
  <2>1. /\ wire # << >> /\ Head(wire).what = "auth" /\ Head(wire) = wire[1]
        /\ Tail(wire) \in Seq(Request) /\ 1 \in DOMAIN wire
    BY <1>1, <1>5, HeadIsRequest DEF AuthSucceeds, Answer
  <2>2. /\ WritesInOrder(Tail(wire)) /\ Carried(Tail(wire)) = Carried(wire)
        /\ Restorers(Tail(wire)) = {}
    <3>1. Restorers(wire) \subseteq {1}
      BY <1>1 DEF WireInv
    <3> QED  BY <1>1, <2>1, <3>1, CarriedTail
  <2>3. CASE ~Head(wire).flag
    <3>1. wire' = Tail(wire)
      BY <1>5, <2>3 DEF AuthSucceeds
    <3> QED  BY <1>2, <2>2, <3>1, CarriedStutters, OutcomeSame
  <2>4. CASE Head(wire).flag
    <3>1. restoreState(Tail(wire))
      BY <1>5, <2>4 DEF AuthSucceeds
    <3>2. 1 \in Restorers(wire)
      BY <2>1, <2>4 DEF Restorers
    <3>3. connectionState = "Authenticating"
      BY <1>1, <3>2 DEF WireInv
    <3>4. Carried(wire) = {}
      BY <1>1, <3>3 DEF WireInv
    <3> QED  BY <1>3, <2>1, <2>2, <3>1, <3>4
  <2> QED  BY <2>3, <2>4
<1> QED  BY <1>4, <1>5

\* What losing the connection does to the queue.
LEMMA LossMaps ==
    ASSUME MapInv, MapInv',
           goOffline \/ onKill \/ AuthFails \/ onAuthRevoked \/ ConnectionLost
    PROVE  Queue!Next \/ UNCHANGED Queue!vars
<1>1. UNCHANGED stored
  BY DEF goOffline, onKill, AuthFails, onAuthRevoked, ConnectionLost, TokenTurnedDown
<1>2. ASSUME wire' = << >>, cancelSentTransactions, Straggle, UNCHANGED putsToAck
      PROVE  Queue!Next
  <2>1. outstandingPuts \cap sent \in SUBSET Queue!Queued
    BY WaitingWrites
  <2> QED  BY <1>1, <1>2, <2>1, QueueClosed DEF Queue!Next
<1>3. CASE goOffline \/ onKill
  <2>1. PICK reason : interruptForReason(reason)
    BY <1>3 DEF goOffline, onKill
  <2>2. CASE realtime # "nil"
    BY <1>2, <2>1, <2>2 DEF interruptForReason, onDisconnect
  <2>3. CASE realtime = "nil"
    <3>1. UNCHANGED <<wire, outstandingPuts, completions, putsToAck, late>>
      BY <2>1, <2>3 DEF interruptForReason
    <3> QED  BY <1>1, <3>1, CarriedStutters, OutcomeSame
  <2> QED  BY <2>2, <2>3
<1>4. CASE AuthFails \/ onAuthRevoked \/ ConnectionLost
  BY <1>2, <1>4 DEF AuthFails, onAuthRevoked, ConnectionLost, TokenTurnedDown, onDisconnect
<1> QED  BY <1>3, <1>4

\* Every step of the connection is a step of the queue or leaves it alone.
LEMMA QueueStep ==
    ASSUME MapInv, MapInv', CountInv, [Next]_vars
    PROVE  [Queue!Next]_(Queue!vars)
<1>1. CASE \/ putInternal \/ purgeOutstandingWrites
           \/ \E q \in Queries : listen(q) \/ unlisten(q)
           \/ \E o \in OnDisconnects : onDisconnectOperation(o)
           \/ \E token \in BOOLEAN : refreshAuthToken(token)
  BY <1>1, CallMaps
<1>2. CASE onHandshake \/ AuthSucceeds
  BY <1>2, RestoreMaps
<1>3. CASE goOffline \/ onKill \/ AuthFails \/ onAuthRevoked \/ ConnectionLost
  BY <1>3, LossMaps
<1>4. CASE \E i \in DOMAIN wire : ServerDecides(i)
  BY <1>4, QueueDecides DEF Queue!Next
<1>5. CASE \E p \in late : LateWrite(p)
  <2>1. late \subseteq Puts
    BY DEF MapInv, TypeOK
  <2> QED  BY <1>5, <2>1, QueueLate DEF Queue!Next
<1>6. CASE PutAnswered
  BY <1>6, QueueAnswers DEF Queue!Next
<1>7. CASE ListenAnswered
  BY <1>7, ListenStutters
<1>8. CASE OnDisconnectAnswered
  <2>1. /\ wire # << >> /\ Head(wire).what = "onDisconnect" /\ wire' = Tail(wire)
        /\ UNCHANGED <<outstandingPuts, completions, putsToAck, late, stored>>
    BY <1>8 DEF OnDisconnectAnswered, Answer, putVars, worldVars
  <2>2. Carried(wire') = Carried(wire)
    BY <2>1, AnswerCarries DEF MapInv
  <2> QED  BY <2>1, <2>2, CarriedStutters, OutcomeSame
<1>9. CASE \/ \E token \in BOOLEAN : FetchReturns(token)
           \/ open \/ goOnline \/ enteringForeground
           \/ RetryFires \/ FetchFails \/ StaleFetchReturns \/ UNCHANGED vars
  <2>1. UNCHANGED <<wire, outstandingPuts, completions, putsToAck, late, stored>>
    BY <1>9 DEF FetchReturns, open, goOnline, Resume, enteringForeground, RetryFires,
       FetchFails, StaleFetchReturns, vars, putVars, worldVars
  <2> QED  BY <2>1, CarriedStutters, OutcomeSame
<1> QED
  BY <1>1, <1>2, <1>3, <1>4, <1>5, <1>6, <1>7, <1>8, <1>9 DEF Next, Deliver

\* Whatever the connection goes through, the writes wait in one queue, are decided
\* and answered in order and once: for any writes, bounds and failures, the
\* connection implements WriteQueue.
THEOREM Refinement == Spec => QueueSpec
<1>1. MapInv /\ MapInv' /\ CountInv /\ [Next]_vars => [Queue!Next]_(Queue!vars)
  BY QueueStep
<1>2. Spec => []MapInv
  BY AlwaysWireInv, AlwaysOnceInv, PTL DEF MapInv
<1>3. Spec => []CountInv
  BY InitCountInv, NextCountInv, PTL DEF Spec
<1> QED  BY <1>1, <1>2, <1>3, QueueInit, PTL DEF Spec, QueueSpec, Queue!Spec
=============================================================================
