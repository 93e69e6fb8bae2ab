------------------------------ MODULE LiveFeed ------------------------------
(***************************************************************************)
(* How a change on the server reaches the lists an open tab shows: the     *)
(* controllers and jobs broadcast through the hub (web/websocket/hub.go),  *)
(* the tab's socket delivers in order, the bridge                          *)
(* (api/websocketBridge.ts) turns messages into query-cache operations,    *)
(* and the query cache (TanStack Query, external) refetches over REST.     *)
(*                                                                         *)
(* The content of a list is abstracted to a version number.  lost[l] is    *)
(* history: whether a signal about list l was not given, or not sent to    *)
(* this tab ("unsent"), or dropped on the way or by the tab ("dropped"),   *)
(* since the tab last held the server's version of it.                     *)
(***************************************************************************)
EXTENDS Integers, Sequences

CONSTANTS
    MaxVersion,    \* bound: changes per list
    MaxFaults      \* bound: socket losses, refetches that fail, answers that are lost

Lists == {"inbounds", "clients"}
None == "none"
Unread == -1      \* a request the server has not answered yet
Idle == -2        \* no request, no armed timer

VARIABLES
    version,       \* per list: the server's version
    channel,       \* messages on their way to this tab
    online,        \* the tab's socket is open
    hubInterval,   \* minBroadcastInterval since the last inbounds push has not passed
    emitTimer,     \* WebSocketClient throttle timer of "inbounds": last version or Idle
    invalidateTimer, \* list whose debounced invalidation is pending, or None
    recentLocal,   \* isRecentLocalInvalidate(): within 1500 ms of a local mutation
    page,          \* the page whose query is observed
    cache,         \* per list: version held, isInvalidated flag, fetch in flight
    mutation,      \* client mutation of this tab: "idle", "sent", "applied"
    lost,
    faults

feedVars == <<version, channel, online, hubInterval, emitTimer, invalidateTimer, recentLocal,
              page, cache, mutation, lost, faults>>

Init ==
    /\ version = [l \in Lists |-> 0]
    /\ channel = <<>>
    /\ online = TRUE
    /\ hubInterval = FALSE
    /\ emitTimer = Idle
    /\ invalidateTimer = None
    /\ recentLocal = FALSE
    /\ page = "inbounds"
    /\ cache = [l \in Lists |-> [v |-> 0, invalidated |-> FALSE, fetch |-> Idle]]
    /\ mutation = "idle"
    /\ lost = [l \in Lists |-> None]
    /\ faults = 0

-----------------------------------------------------------------------------
(* The query cache *)

\* setQueryData: the data is replaced and counts as fresh; a fetch goes on
SetQueryData(c, v) == [c EXCEPT !.v = v, !.invalidated = FALSE]

\* invalidateQueries: marks the query; one that is observed is refetched, and
\* a fetch already running for it is cancelled first
Invalidated(c, observed) ==
    [c EXCEPT !.invalidated = TRUE, !.fetch = IF observed THEN Unread ELSE @]

\* What is recorded for l, forgotten once the held version is the server's
First(l, cause) == IF lost[l] = None THEN cause ELSE lost[l]
Note(l, cause, c) == IF c.v = version[l] THEN None ELSE First(l, cause)

-----------------------------------------------------------------------------
(* The server: controllers, jobs and the hub *)

Inv(l) == [kind |-> "invalidate", list |-> l, v |-> 0]
Push(v) == [kind |-> "inbounds", list |-> "inbounds", v |-> v]

\* Changes the lists in touched and broadcasts the messages msgs, of which the
\* hub delivers to this tab only while its socket is open
Broadcast(touched, msgs, cause) ==
    /\ \A l \in touched : version[l] < MaxVersion
    /\ version' = [l \in Lists |-> IF l \in touched THEN version[l] + 1 ELSE version[l]]
    /\ channel' = IF online THEN channel \o msgs ELSE channel
    /\ lost' = [l \in Lists |->
                  IF l \notin touched THEN lost[l]
                  ELSE First(l, IF online THEN cause[l] ELSE "unsent")]

NoCause == [l \in Lists |-> None]
AllUnsent == [l \in Lists |-> "unsent"]

\* Another administrator, the bot or LDAP edits a client: inbound rows change
\* with it, only "clients" is announced
ClientEdit ==
    /\ Broadcast(Lists, <<Inv("clients")>>, [NoCause EXCEPT !["inbounds"] = "unsent"])
    /\ UNCHANGED <<online, hubInterval, emitTimer, invalidateTimer, recentLocal, page, cache, mutation,
                   faults>>

\* An operation of theirs that is refused after part of it was done returns before
\* notifyClientsChanged.
ClientEditPartly ==
    /\ Broadcast(Lists, <<>>, AllUnsent)
    /\ UNCHANGED <<online, hubInterval, emitTimer, invalidateTimer, recentLocal, page, cache, mutation,
                   faults>>

\* An inbound is added, updated or deleted: the list itself is pushed, unless
\* the previous push is less than minBroadcastInterval ago
InboundEdit ==
    /\ IF hubInterval
       THEN Broadcast({"inbounds"}, <<>>, [NoCause EXCEPT !["inbounds"] = "unsent"])
       ELSE Broadcast({"inbounds"}, <<Push(version["inbounds"] + 1)>>, NoCause)
    /\ hubInterval' = (hubInterval \/ online)
    /\ UNCHANGED <<online, emitTimer, invalidateTimer, recentLocal, page, cache, mutation, faults>>

\* setInboundEnable of another session, or the traffic job disabling clients
InboundToggle ==
    /\ Broadcast({"inbounds"}, <<Inv("inbounds")>>, NoCause)
    /\ UNCHANGED <<online, hubInterval, emitTimer, invalidateTimer, recentLocal, page, cache, mutation,
                   faults>>

\* NodeTrafficSyncJob after a structural change on a node announces both lists
StructuralChange ==
    /\ Broadcast(Lists, <<Inv("inbounds"), Inv("clients")>>, NoCause)
    /\ UNCHANGED <<online, hubInterval, emitTimer, invalidateTimer, recentLocal, page, cache, mutation,
                   faults>>

HubIntervalPasses ==
    /\ hubInterval /\ hubInterval' = FALSE
    /\ UNCHANGED <<version, channel, online, emitTimer, invalidateTimer, recentLocal, page, cache, mutation,
                   lost, faults>>

-----------------------------------------------------------------------------
(* The bridge *)

\* onInvalidate: one debounce timer for both lists, so the earlier one's goes
OnInvalidate(l) ==
    /\ invalidateTimer' = l
    /\ lost' = IF invalidateTimer \in {None, l} THEN lost
               ELSE [lost EXCEPT ![invalidateTimer] = Note(invalidateTimer, "dropped", cache[invalidateTimer])]

\* onInbounds, as often as the client dispatches
OnInbounds(v) ==
    LET c == SetQueryData(cache["inbounds"], v) IN
    /\ cache' = [cache EXCEPT !["inbounds"] = c]
    /\ lost' = [lost EXCEPT !["inbounds"] =
                  Note("inbounds", IF v < cache["inbounds"].v \/ cache["inbounds"].invalidated
                                   THEN "dropped" ELSE None, c)]

Deliver ==
    /\ channel # <<>>
    /\ channel' = Tail(channel)
    /\ LET m == Head(channel) IN
       IF m.kind = "invalidate"
       THEN OnInvalidate(m.list) /\ UNCHANGED <<cache, emitTimer>>
       ELSE /\ emitTimer' = m.v
            /\ IF emitTimer = Idle THEN OnInbounds(m.v) ELSE UNCHANGED <<cache, lost>>
            /\ UNCHANGED invalidateTimer
    /\ UNCHANGED <<version, online, hubInterval, recentLocal, page, mutation, faults>>

\* The throttle timer dispatches the last push once more
EmitTimerFires ==
    /\ emitTimer # Idle
    /\ OnInbounds(emitTimer)
    /\ emitTimer' = Idle
    /\ UNCHANGED <<version, channel, online, hubInterval, invalidateTimer, recentLocal, page, mutation,
                   faults>>

InvalidateTimerFires ==
    /\ invalidateTimer # None
    /\ invalidateTimer' = None
    /\ IF recentLocal
       THEN /\ lost' = [lost EXCEPT ![invalidateTimer] =
                          Note(invalidateTimer, "dropped", cache[invalidateTimer])]
            /\ UNCHANGED cache
       ELSE /\ cache' = [cache EXCEPT ![invalidateTimer] = Invalidated(@, page = invalidateTimer)]
            /\ UNCHANGED lost
    /\ UNCHANGED <<version, channel, online, hubInterval, emitTimer, recentLocal, page, mutation, faults>>

\* The socket is lost with what was in it; the client reconnects, and nothing
\* is refetched on 'connected'
SocketLost ==
    /\ online /\ faults < MaxFaults
    /\ online' = FALSE /\ channel' = <<>> /\ faults' = faults + 1
    /\ lost' = [l \in Lists |->
                  IF \E i \in 1..Len(channel) : channel[i].list = l
                  THEN Note(l, "dropped", cache[l]) ELSE lost[l]]
    /\ UNCHANGED <<version, hubInterval, emitTimer, invalidateTimer, recentLocal, page, cache, mutation>>

SocketReconnects ==
    /\ ~online /\ online' = TRUE
    /\ UNCHANGED <<version, channel, hubInterval, emitTimer, invalidateTimer, recentLocal, page, cache, mutation,
                   lost, faults>>

-----------------------------------------------------------------------------
(* Queries and this tab's own mutations *)

ServerAnswers(l) ==
    /\ cache[l].fetch = Unread
    /\ cache' = [cache EXCEPT ![l].fetch = version[l]]
    /\ UNCHANGED <<version, channel, online, hubInterval, emitTimer, invalidateTimer, recentLocal, page, mutation,
                   lost, faults>>

\* The answer replaces the data and the query counts as fresh again, also when
\* it was invalidated or pushed to while the answer was under way
FetchDone(l) ==
    /\ cache[l].fetch \notin {Idle, Unread}
    /\ LET c == [v |-> cache[l].fetch, invalidated |-> FALSE, fetch |-> Idle] IN
       /\ cache' = [cache EXCEPT ![l] = c]
       /\ lost' = [lost EXCEPT ![l] =
                     Note(l, IF c.v < cache[l].v \/ cache[l].invalidated THEN "dropped" ELSE None, c)]
    /\ UNCHANGED <<version, channel, online, hubInterval, emitTimer, invalidateTimer, recentLocal, page, mutation,
                   faults>>

FetchFails(l) ==
    /\ cache[l].fetch # Idle /\ faults < MaxFaults
    /\ faults' = faults + 1
    /\ cache' = [cache EXCEPT ![l].fetch = Idle]
    /\ lost' = [lost EXCEPT ![l] = Note(l, "dropped", cache[l])]
    /\ UNCHANGED <<version, channel, online, hubInterval, emitTimer, invalidateTimer, recentLocal, page, mutation>>

\* Mutant: a page that mounts takes what the cache has.
NavigateKeeps(p) ==
    /\ p # page /\ page' = p
    /\ UNCHANGED <<version, channel, online, hubInterval, emitTimer, invalidateTimer, recentLocal, cache, mutation,
                   lost, faults>>

\* Navigation mounts the other page's query; one that is invalidated refetches
Navigate(p) ==
    /\ p # page /\ page' = p
    /\ cache' = [cache EXCEPT ![p].fetch = IF cache[p].invalidated /\ @ = Idle THEN Unread ELSE @]
    /\ UNCHANGED <<version, channel, online, hubInterval, emitTimer, invalidateTimer, recentLocal, mutation,
                   lost, faults>>

Mutate ==
    /\ mutation = "idle" /\ page = "clients" /\ mutation' = "sent"
    /\ UNCHANGED <<version, channel, online, hubInterval, emitTimer, invalidateTimer, recentLocal, page, cache,
                   lost, faults>>

\* The mutation is refused, and its answer changes nothing here, even if a part
\* of it was done.
MutationRefused ==
    /\ mutation = "sent" /\ mutation' = "idle"
    /\ \/ Broadcast(Lists, <<>>, AllUnsent)
       \/ UNCHANGED <<version, channel, lost>>
    /\ UNCHANGED <<online, hubInterval, emitTimer, invalidateTimer, recentLocal, page, cache, faults>>

MutationApplied ==
    /\ mutation = "sent" /\ mutation' = "applied"
    /\ Broadcast(Lists, <<Inv("clients")>>, NoCause)
    /\ UNCHANGED <<online, hubInterval, emitTimer, invalidateTimer, recentLocal, page, cache, faults>>

\* Mutant: only the first of the two lists is invalidated.
InvalidateClientsOnly ==
    /\ recentLocal' = TRUE
    /\ cache' = [cache EXCEPT !["clients"] = Invalidated(@, page = "clients")]

\* useClients.invalidateAll: both buckets, and the local window starts
InvalidateAll ==
    /\ recentLocal' = TRUE
    /\ cache' = [l \in Lists |-> Invalidated(cache[l], page = l)]

MutationReturns ==
    /\ mutation = "applied" /\ mutation' = "idle"
    /\ InvalidateAll
    /\ UNCHANGED <<version, channel, online, hubInterval, emitTimer, invalidateTimer, page, lost, faults>>

\* The answer is lost: nothing is invalidated.  What the server announced, the
\* list of clients, still comes.
AnswerLost ==
    /\ mutation = "applied" /\ mutation' = "idle"
    /\ faults < MaxFaults /\ faults' = faults + 1
    /\ lost' = [lost EXCEPT !["inbounds"] = Note("inbounds", "dropped", cache["inbounds"])]
    /\ UNCHANGED <<version, channel, online, hubInterval, emitTimer, invalidateTimer, recentLocal, page, cache>>

LocalWindowPasses ==
    /\ recentLocal /\ recentLocal' = FALSE
    /\ UNCHANGED <<version, channel, online, hubInterval, emitTimer, invalidateTimer, page, cache, mutation,
                   lost, faults>>

-----------------------------------------------------------------------------
Deliveries ==
    \/ Deliver \/ EmitTimerFires \/ InvalidateTimerFires \/ SocketReconnects
    \/ HubIntervalPasses \/ LocalWindowPasses
    \/ MutationApplied \/ MutationReturns
    \/ \E l \in Lists : ServerAnswers(l) \/ FetchDone(l)

Next ==
    \/ Deliveries
    \/ ClientEdit \/ ClientEditPartly \/ InboundEdit \/ InboundToggle \/ StructuralChange
    \/ SocketLost \/ Mutate \/ MutationRefused \/ AnswerLost
    \/ \E l \in Lists : FetchFails(l) \/ Navigate(l)

Fairness == WF_feedVars(Deliveries)
Spec == Init /\ [][Next]_feedVars /\ Fairness

-----------------------------------------------------------------------------
TypeOK ==
    /\ version \in [Lists -> 0..MaxVersion]
    /\ emitTimer \in {Idle} \cup 0..MaxVersion
    /\ invalidateTimer \in Lists \cup {None}
    /\ \A l \in Lists : /\ cache[l].v \in 0..version[l]
                        /\ cache[l].fetch \in {Idle, Unread} \cup 0..version[l]
    /\ mutation \in {"idle", "sent", "applied"}

\* Something under way that will bring list l to the server's version
Pending(l) ==
    \/ cache[l].fetch \in {Unread, version[l]}
    \/ cache[l].invalidated
    \/ invalidateTimer = l
    \/ l = "inbounds" /\ mutation = "applied"     \* the clients are announced in any case
    \/ l = "inbounds" /\ emitTimer = version[l]
    \/ \E i \in 1..Len(channel) : /\ channel[i].list = l
                                  /\ channel[i].kind = "invalidate" \/ channel[i].v = version[l]

\* The tab shows an outdated list only while the repair is under way or because
\* a signal was discarded at one of the points the code discards signals, or
\* never given: an operation refused after it had done a part of its work, an
\* answer lost after the work was done, a change of clients that is announced for
\* one of the two lists. No interleaving of pushes, invalidations, refetches,
\* navigation and this tab's own mutations leaves a list stale for any other
\* reason.
StaleHasCause == \A l \in Lists : cache[l].v < version[l] => Pending(l) \/ lost[l] # None

\* Unless a signal was discarded or never given, the page on screen eventually shows the
\* server's version.
EventuallyShown ==
    \A l \in Lists : (page = l /\ cache[l].v < version[l])
                       ~> (cache[l].v = version[l] \/ lost[l] # None \/ page # l)

=============================================================================
