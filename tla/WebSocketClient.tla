-------------------------- MODULE WebSocketClient --------------------------
(***************************************************************************)
(* The panel's WebSocketClient class (frontend/src/api/websocket.ts): one  *)
(* object that owns at most one browser socket, reopens it after a loss    *)
(* with a growing delay, and hands the messages to listeners, at most      *)
(* every 100 ms for the busy event types.                                  *)
(*                                                                         *)
(* Browser sockets are numbered in the order they are made.  A socket that *)
(* the object has let go of still produces events, which every listener    *)
(* must ignore (the test this.ws !== socket).                              *)
(***************************************************************************)
EXTENDS Integers, Sequences, FiniteSets

CONSTANTS
    MaxSockets,            \* bound: sockets made in one behaviour
    MaxMessages,           \* bound: messages the server sends
    maxReconnectAttempts   \* reconnects with exponential delay (10 in the code)

NoSocket == 0
Sockets == 1..MaxSockets
ThrottledEvents == {"nodes"}      \* stands for the five throttled types
PlainEvents == {"invalidate"}     \* stands for every other type
Events == ThrottledEvents \cup PlainEvents

VARIABLES
    ws,                \* the socket the object holds, NoSocket for null
    readyState,        \* of every socket made so far
    sent,              \* messages on their way, per socket
    serial,            \* number of messages the server has sent
    shouldReconnect,
    reconnectTimer,    \* base delay of the armed timer in ms, 0 when none
    reconnectAttempts,
    isConnected,
    throttledEmits,    \* per throttled event: timer armed, last arguments (0: none)
    received,          \* per event: the last message handed to #emit
    dispatched,        \* per event: the last message handed to the listeners
    serverUp,
    outages            \* server outages so far

sockVars == <<ws, readyState, sent, shouldReconnect, reconnectTimer, reconnectAttempts, isConnected>>
emitVars == <<throttledEmits, received, dispatched>>
srvVars == <<serial, serverUp, outages>>
wsVars == <<sockVars, emitVars, srvVars>>

Made == {s \in Sockets : readyState[s] # "none"}
Live == {s \in Sockets : readyState[s] \in {"connecting", "open"}}

Init ==
    /\ ws = NoSocket
    /\ readyState = [s \in Sockets |-> "none"]
    /\ sent = [s \in Sockets |-> <<>>]
    /\ serial = 0
    /\ shouldReconnect = TRUE
    /\ reconnectTimer = 0
    /\ reconnectAttempts = 0
    /\ isConnected = FALSE
    /\ throttledEmits = [e \in ThrottledEvents |-> [timer |-> FALSE, lastArgs |-> 0]]
    /\ received = [e \in Events |-> 0]
    /\ dispatched = [e \in Events |-> 0]
    /\ serverUp = TRUE
    /\ outages = 0

-----------------------------------------------------------------------------

\* What doubling from one second comes to under the cap of 30 s, and the slow
\* retry after that; the random factor of the delay is left out.
BaseDelay(attempts) ==
    IF attempts >= maxReconnectAttempts THEN 60000
    ELSE IF attempts >= 5 THEN 30000
    ELSE <<1000, 2000, 4000, 8000, 16000>>[attempts + 1]

\* Mutant: the number of attempts is not capped.
ScheduleReconnectUncapped ==
    /\ reconnectTimer' = BaseDelay(reconnectAttempts)
    /\ reconnectAttempts' = reconnectAttempts + 1

\* #scheduleReconnect, from a state in which shouldReconnect holds
ScheduleReconnect ==
    /\ reconnectTimer' = BaseDelay(reconnectAttempts)
    /\ reconnectAttempts' =
         IF reconnectAttempts < maxReconnectAttempts THEN reconnectAttempts + 1 ELSE reconnectAttempts

\* #openSocket: the constructor makes a connecting socket
OpenSocket ==
    \E s \in Sockets :
        /\ s = Cardinality(Made) + 1
        /\ ws' = s
        /\ readyState' = [readyState EXCEPT ![s] = "connecting"]

\* Mutant: the timer of the next attempt keeps running.
CancelReconnectMissing == reconnectTimer' = reconnectTimer
CancelReconnect == reconnectTimer' = 0

\* connect(), called by every hook that mounts
Connect ==
    /\ ~(ws # NoSocket /\ readyState[ws] \in {"open", "connecting"})
    /\ shouldReconnect' = TRUE
    /\ CancelReconnect
    /\ OpenSocket
    /\ UNCHANGED <<sent, reconnectAttempts, isConnected, emitVars, srvVars>>

\* The WebSocket constructor throws: nothing is held, the next try is scheduled
ConnectThrows ==
    /\ ~(ws # NoSocket /\ readyState[ws] \in {"open", "connecting"})
    /\ shouldReconnect' = TRUE
    /\ ScheduleReconnect
    /\ UNCHANGED <<ws, readyState, sent, isConnected, emitVars, srvVars>>

Disconnect ==
    /\ shouldReconnect' = FALSE
    /\ CancelReconnect
    /\ reconnectAttempts' = 0
    /\ readyState' = IF ws = NoSocket THEN readyState
                     ELSE [readyState EXCEPT ![ws] = "closing"]
    /\ ws' = NoSocket
    /\ isConnected' = FALSE
    /\ throttledEmits' = [e \in ThrottledEvents |-> [timer |-> FALSE, lastArgs |-> 0]]
    /\ received' = dispatched      \* what was pending is dropped on purpose
    /\ UNCHANGED <<sent, dispatched, srvVars>>

ReconnectTimerFires ==
    /\ reconnectTimer # 0
    /\ shouldReconnect
    /\ reconnectTimer' = 0
    /\ OpenSocket
    /\ UNCHANGED <<sent, shouldReconnect, reconnectAttempts, isConnected, emitVars, srvVars>>

ReconnectThrows ==
    /\ reconnectTimer # 0
    /\ shouldReconnect
    /\ ScheduleReconnect
    /\ UNCHANGED <<ws, readyState, sent, shouldReconnect, isConnected, emitVars, srvVars>>

-----------------------------------------------------------------------------
(* Events of a browser socket *)

OnOpen(s) ==
    /\ readyState[s] = "connecting" /\ serverUp
    /\ readyState' = [readyState EXCEPT ![s] = "open"]
    /\ isConnected' = IF ws = s THEN TRUE ELSE isConnected
    /\ reconnectAttempts' = IF ws = s THEN 0 ELSE reconnectAttempts
    /\ UNCHANGED <<ws, sent, shouldReconnect, reconnectTimer, emitVars, srvVars>>

\* The close event, after a loss, a refused connection or a close() of ours
OnClose(s) ==
    /\ \/ readyState[s] = "closing"
       \/ readyState[s] \in {"connecting", "open"} /\ ~serverUp
    /\ readyState' = [readyState EXCEPT ![s] = "closed"]
    /\ sent' = [sent EXCEPT ![s] = <<>>]
    /\ IF ws = s
       THEN /\ isConnected' = FALSE
            /\ ws' = NoSocket
            /\ IF shouldReconnect THEN ScheduleReconnect
               ELSE UNCHANGED <<reconnectTimer, reconnectAttempts>>
       ELSE UNCHANGED <<isConnected, ws, reconnectTimer, reconnectAttempts>>
    /\ UNCHANGED <<shouldReconnect, emitVars, srvVars>>

\* Mutant: throttled events are passed on at once.
EmitUnthrottled(m) ==
    LET e == m.type IN
    /\ received' = [received EXCEPT ![e] = m.serial]
    /\ dispatched' = [dispatched EXCEPT ![e] = m.serial]
    /\ throttledEmits' = IF e \in ThrottledEvents /\ ~throttledEmits[e].timer
                         THEN [throttledEmits EXCEPT ![e] = [timer |-> TRUE, lastArgs |-> m.serial]]
                         ELSE throttledEmits

\* #emit: a throttled event is dispatched at once when no timer runs, and its
\* arguments are kept for the timer in every case
Emit(m) ==
    LET e == m.type IN
    /\ received' = [received EXCEPT ![e] = m.serial]
    /\ IF e \in ThrottledEvents
       THEN /\ throttledEmits' = [throttledEmits EXCEPT ![e] = [timer |-> TRUE, lastArgs |-> m.serial]]
            /\ dispatched' = IF throttledEmits[e].timer THEN dispatched
                             ELSE [dispatched EXCEPT ![e] = m.serial]
       ELSE /\ dispatched' = [dispatched EXCEPT ![e] = m.serial]
            /\ UNCHANGED throttledEmits

\* #onMessage: too large closes the socket, malformed is dropped, else #emit
OnMessage(s) ==
    /\ readyState[s] = "open" /\ sent[s] # <<>>
    /\ sent' = [sent EXCEPT ![s] = Tail(@)]
    /\ LET m == Head(sent[s]) IN
       CASE ws # s \/ m.form = "malformed" -> UNCHANGED <<readyState, emitVars>>
         [] ws = s /\ m.form = "tooLarge" ->
              /\ readyState' = [readyState EXCEPT ![s] = "closing"]
              /\ UNCHANGED emitVars
         [] ws = s /\ m.form = "ok" -> Emit(m) /\ UNCHANGED readyState
    /\ UNCHANGED <<ws, shouldReconnect, reconnectTimer, reconnectAttempts, isConnected, srvVars>>

\* The 100 ms timer of a throttled event dispatches the last arguments again
ThrottleTimerFires(e) ==
    /\ throttledEmits[e].timer
    /\ dispatched' = IF throttledEmits[e].lastArgs # 0
                     THEN [dispatched EXCEPT ![e] = throttledEmits[e].lastArgs] ELSE dispatched
    /\ throttledEmits' = [throttledEmits EXCEPT ![e] = [timer |-> FALSE, lastArgs |-> 0]]
    /\ UNCHANGED <<sockVars, received, srvVars>>

-----------------------------------------------------------------------------
(* The server (external): sends to its open sockets, goes down and comes back *)

ServerSends(e, form) ==
    /\ serial < MaxMessages /\ serverUp
    /\ \E s \in Sockets : readyState[s] = "open"
    /\ serial' = serial + 1
    /\ sent' = [s \in Sockets |->
                  IF readyState[s] = "open"
                  THEN Append(sent[s], [type |-> e, serial |-> serial + 1, form |-> form])
                  ELSE sent[s]]
    /\ UNCHANGED <<ws, readyState, shouldReconnect, reconnectTimer, reconnectAttempts, isConnected,
                   emitVars, serverUp, outages>>

ServerGoesDown ==
    /\ serverUp /\ outages < 1
    /\ serverUp' = FALSE /\ outages' = outages + 1
    /\ UNCHANGED <<sockVars, emitVars, serial>>

ServerComesUp ==
    /\ ~serverUp
    /\ serverUp' = TRUE
    /\ UNCHANGED <<sockVars, emitVars, serial, outages>>

-----------------------------------------------------------------------------
Step ==
    \/ ReconnectTimerFires
    \/ \E s \in Sockets : OnOpen(s) \/ OnClose(s) \/ OnMessage(s)
    \/ \E e \in ThrottledEvents : ThrottleTimerFires(e)
    \/ ServerComesUp

Next ==
    \/ Step
    \/ Connect \/ ConnectThrows \/ ReconnectThrows \/ Disconnect
    \/ \E e \in Events, form \in {"ok", "malformed", "tooLarge"} : ServerSends(e, form)
    \/ ServerGoesDown

Fairness == WF_wsVars(Step)
Spec == Init /\ [][Next]_wsVars /\ Fairness

-----------------------------------------------------------------------------
TypeOK ==
    /\ ws \in Sockets \cup {NoSocket}
    /\ readyState \in [Sockets -> {"none", "connecting", "open", "closing", "closed"}]
    /\ reconnectTimer \in {0, 60000} \cup {BaseDelay(a) : a \in 0..maxReconnectAttempts}
    /\ reconnectAttempts \in 0..maxReconnectAttempts
    /\ throttledEmits \in [ThrottledEvents -> [timer : BOOLEAN, lastArgs : 0..MaxMessages]]
    /\ received \in [Events -> 0..MaxMessages]
    /\ dispatched \in [Events -> 0..MaxMessages]

\* However connect(), the reconnect timer, losses and disconnect() interleave,
\* the object never has two sockets that could both deliver: the live socket,
\* if there is one, is the one it holds.
OneLiveSocket == Live \subseteq {ws}

\* A lost connection is never forgotten: an object that has been connected and
\* not disconnected holds a socket that is not closed or has the timer armed.
NeverStranded ==
    shouldReconnect /\ Made # {} =>
        \/ ws # NoSocket /\ readyState[ws] # "closed"
        \/ reconnectTimer # 0

\* Throttling drops intermediate messages only: when no timer is pending the
\* listeners have seen the newest message of the event.
LatestDispatched ==
    \A e \in ThrottledEvents : ~throttledEmits[e].timer => dispatched[e] = received[e]

\* Across reconnects, repeats and throttling, listeners never see an older
\* message after a newer one of the same event.
DispatchInOrder == [][\A e \in Events : dispatched'[e] >= dispatched[e]]_wsVars

\* Once connected, and unless disconnect() is called or the sockets of the
\* bound are used up, the panel is eventually connected again.
Reconnects ==
    (shouldReconnect /\ Made # {}) ~> (isConnected \/ ~shouldReconnect \/ Cardinality(Made) = MaxSockets)
=============================================================================
