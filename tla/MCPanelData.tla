----------------------------- MODULE MCPanelData ----------------------------
(***************************************************************************)
(* TLC instance of the parts of the panel that bring the server's state to *)
(* the screen: the socket, the query cache it feeds, the requests and the  *)
(* session, and the restore of a backup. The parts share no variable at    *)
(* this level, so each behaviour runs one of them and leaves the others at *)
(* their initial state: the reachable states are the sum, not the product. *)
(***************************************************************************)
EXTENDS Integers, Sequences

CONSTANTS
    MaxSockets, MaxMessages, maxReconnectAttempts,   \* of the socket
    MaxVersion, MaxSignalFaults,                     \* of the live feed
    Requests, MaxToken, MaxCallFaults,               \* of the session
    Imports, Import,                                 \* of a restore: what can be uploaded, and once
    Kinds, Epochs, MaxPolls, MaxFileFaults

\* The bounds are natural numbers; files are of the kinds, and databases of the
\* login epochs, that PanelRestore knows.
ASSUME InstanceBounds ==
    /\ {MaxSockets, MaxMessages, maxReconnectAttempts, MaxVersion, MaxPolls, MaxFileFaults} \subseteq Nat
    /\ Import \in Imports
    /\ Kinds \subseteq {"good", "foreign", "corrupt", "garbage"} /\ Epochs \subseteq {"A", "B"}

VARIABLES
    part,           \* the component that takes this behaviour's steps
    ws, readyState, sent, serial, shouldReconnect, reconnectTimer, reconnectAttempts, isConnected, throttledEmits,
    received, dispatched, serverUp, outages,
    version, channel, online, hubInterval, emitTimer, invalidateTimer, recentLocal, feedPage, cache, mutation,
    lost, feedFaults,
    serverToken, loggedIn, metaToken, served, csrfToken, csrfFetchPromise, sessionExpired, location, req,
    sessionFaults, form,
    upload, path, backup, temp, wal, handle, core, restorePage, overlay, bootKey, cookie, warned, restoreFaults

Socket == INSTANCE WebSocketClient
Feed == INSTANCE LiveFeed WITH MaxFaults <- MaxSignalFaults, page <- feedPage, faults <- feedFaults
Calls == INSTANCE Session WITH MaxFaults <- MaxCallFaults, faults <- sessionFaults
Restore == INSTANCE PanelRestore WITH MaxFaults <- MaxFileFaults, page <- restorePage, faults <- restoreFaults

socketVars == <<ws, readyState, sent, serial, shouldReconnect, reconnectTimer, reconnectAttempts, isConnected, throttledEmits,
                received, dispatched, serverUp, outages>>
feedVars == <<version, channel, online, hubInterval, emitTimer, invalidateTimer, recentLocal, feedPage, cache, mutation,
              lost, feedFaults>>
sessionVars == <<serverToken, loggedIn, metaToken, served, csrfToken, csrfFetchPromise, sessionExpired, location,
                 req, sessionFaults, form>>
restoreVars == <<upload, path, backup, temp, wal, handle, core, restorePage, overlay, bootKey, cookie, warned,
                 restoreFaults>>
vars == <<part, socketVars, feedVars, sessionVars, restoreVars>>

Init ==
    /\ part \in {"socket", "feed", "session", "restore", "retries"}
    /\ IF part = "session" THEN TRUE ELSE location = "login" /\ metaToken = 0
    /\ Socket!Init
    /\ Feed!Init
    /\ Calls!Init
    /\ Restore!Init

SocketNext ==
    /\ part = "socket" /\ Socket!Next
    /\ UNCHANGED <<part, feedVars, sessionVars, restoreVars>>
FeedNext ==
    /\ part = "feed" /\ Feed!Next
    /\ UNCHANGED <<part, socketVars, sessionVars, restoreVars>>
SessionNext ==
    /\ part = "session" /\ Calls!Next
    /\ UNCHANGED <<part, socketVars, feedVars, restoreVars>>
\* One import, of any kind of file and with faults...
RestoreNext ==
    /\ part = "restore" /\ Restore!Next
    /\ \A i \in Imports \ {Import} : upload'[i] = upload[i]
    /\ UNCHANGED <<part, socketVars, feedVars, sessionVars>>
\* ... or all of them, retried while earlier ones are under way, with good files.
RetriesNext ==
    /\ part = "retries" /\ Restore!Next
    /\ restoreFaults' = 0
    /\ \A i \in Imports : upload'[i].kind = "good" /\ upload'[i].epoch = "A"
    /\ UNCHANGED <<part, socketVars, feedVars, sessionVars>>

Next ==
    \/ SocketNext
    \/ FeedNext
    \/ SessionNext
    \/ RestoreNext
    \/ RetriesNext

\* A behaviour is one part's, so the fairness of the parts is one condition.
Progress ==
    \/ SocketNext /\ Socket!Step
    \/ FeedNext /\ Feed!Deliveries
    \/ SessionNext /\ Calls!Progress
    \/ RestoreNext /\ Restore!PageTimers
    \/ RetriesNext /\ Restore!PageTimers

Fairness == WF_vars(Progress)

Spec == Init /\ [][Next]_vars /\ Fairness

-----------------------------------------------------------------------------
\* Each component's variables keep their types.
TypeOK ==
    /\ part = "socket" => Socket!TypeOK
    /\ part = "feed" => Feed!TypeOK
    /\ part = "session" => Calls!TypeOK
    /\ part \in {"restore", "retries"} => Restore!TypeOK

\* However connect(), the reconnect timer, losses and disconnect()
\* interleave, the WebSocket object never has a second live socket; a lost
\* connection is never forgotten: a connected object that was not
\* disconnected holds a socket or has the reconnect timer armed; and
\* throttled emission drops intermediate messages only: with no timer
\* pending the listeners have seen the newest message. A call is given up
\* for its CSRF token only because the session was replaced under its page,
\* once if the page has its token in a meta tag, twice if it fetches it.
ConnectionKept ==
    /\ part = "socket" => Socket!OneLiveSocket /\ Socket!NeverStranded /\ Socket!LatestDispatched
    /\ part = "session" => Calls!OnlyReplacedIsRefused

\* A list on screen is outdated only while its repair is under way or
\* because a signal was discarded where the code discards signals.
StaleHasCause ==
    /\ part = "feed" => Feed!StaleHasCause

\* Whatever step of a restore fails, one of the two files is a database the
\* panel can open, unless the rename of the fallback itself was reported as
\* failed, or a failure that is only logged left another file's commits
\* beside it; the answer tells which database is stored and served; the core
\* runs again if the panel has a database and the core did not refuse to
\* start; and the takeover with its request for the next boot stands
\* exactly while an import is waited for.
RestoreHolds ==
    /\ part = "restore" =>
        /\ Restore!DatabaseKept
        /\ Restore!AnswerTellsTheFile
        /\ Restore!CoreBack
    /\ part \in {"restore", "retries"} => Restore!TakeoverStands

\* Listeners never see an older message after a newer one of the same
\* event, across reconnects and throttling.
DispatchInOrder == Socket!DispatchInOrder

\* The panel recovers from a fault by itself: a connected panel is
\* eventually connected again unless disconnect() is called; unless a
\* signal was discarded, the page on screen eventually shows the server's
\* version; every call of HttpUtil returns a Msg unless the page is being
\* left; the takeover of a restore is lifted.
EventuallyRecovers ==
    /\ Socket!Reconnects
    /\ Feed!EventuallyShown
    /\ Calls!EveryCallReturns
    /\ Restore!TakeoverLifted
=============================================================================
