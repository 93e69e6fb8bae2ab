---------------------------- MODULE InboundStats ----------------------------
(***************************************************************************)
(* The rows the inbound list shows (pages/inbounds/useInbounds.ts, with    *)
(* the list itself under pages/inbounds/list).  The rows are objects made  *)
(* from the fetched list and changed in place by the pushes of the traffic *)
(* jobs, by the optimistic enable switch and by a clone; the counts of     *)
(* clients are recomputed only when a handler asks for it.                 *)
(*                                                                         *)
(* One client c may be attached to two local inbounds, vl and ss, and to   *)
(* an inbound hy of a node that reports no activity per inbound.  The      *)
(* query cache keeps the previous data when a refetch answers the same.    *)
(***************************************************************************)
EXTENDS Integers, Sequences

CONSTANTS MaxServerSteps, MaxListSteps    \* bounds: changes of the server, acts of the page

Ids == {"vl", "ss", "hy"}
None == [nothing |-> TRUE]
Asked == [asked |-> TRUE]      \* a fetch the server has not answered yet
NodeOf(i) == IF i = "hy" THEN "node" ELSE "local"
Nodes == {"local", "node"}

\* a row: traffic used, enabled, c attached, c's own traffic has reached its limit, settings and stream
Row == [up: 0..1, enable: BOOLEAN, clients: SUBSET {"c"}, spent: BOOLEAN]
protocolOf == [vl |-> [protocol |-> "vless", network |-> "kcp", security |-> "reality"],
               ss |-> [protocol |-> "shadowsocks", network |-> "tcp", security |-> "tls"],
               hy |-> [protocol |-> "hysteria", network |-> "hysteria", security |-> "tls"]]

VARIABLES
    srv,          \* the server's rows, with the number of the last change
    presence,     \* its last poll: c online per node, active tags per node that reports them
    wire,         \* pushes on the page's socket, in order
    announced,    \* a change whose invalidation or refresh is still to come
    slim,         \* slimQuery: the data held and the fetch under way, if any
    rows,         \* dbInbounds: the objects the list renders
    ownRow,       \* rows whose object no longer shares its parts with slim's data
    counts,       \* clientCount
    seen,         \* onlineByNodeRef and activeByNodeRef
    presenceAsked, \* the page's first questions about presence are unanswered
    hydration,    \* inbound whose full record is being fetched, and what the server read
    toggle,       \* the enable switch's call: inbound, value before, and whether its row still stands
    card,         \* statsRecord: the inbound whose card is open, and the object it holds
    newest,       \* history: number of the newest change applied to the rows
    excuses,      \* history: why the rows may differ from the server
    lateCounts,   \* history: rows changed without the counts being recomputed
    ssteps, lsteps

statVars == <<srv, presence, wire, announced, slim, rows, ownRow, counts, seen, presenceAsked, hydration, toggle,
              card, newest, excuses, lateCounts, ssteps, lsteps>>

-----------------------------------------------------------------------------
(* Helpers *)

\* one entry of the counts: clients attached, enabled, disabled, spent, online
rollupClients(i, row, s) ==
    LET active == ~(NodeOf(i) \in DOMAIN s.active) \/ i \in s.active[NodeOf(i)]
    IN [clients |-> row.clients,
        active |-> IF row.enable THEN row.clients ELSE {},
        deactive |-> IF row.enable THEN {} ELSE row.clients,
        depleted |-> IF row.enable /\ row.spent THEN {"c"} ELSE {},
        online |-> IF row.enable /\ active THEN row.clients \cap s.online[NodeOf(i)] ELSE {}]

rebuildClientCount(r, s) == [i \in Ids |-> rollupClients(i, r[i], s)]

networkL4(network) == IF network \in {"kcp", "quic"} THEN {"UDP"} ELSE {}
streamTags(p) == (IF p.security = "tls" THEN {"TLS"} ELSE {}) \cup (IF p.security = "reality" THEN {"Reality"} ELSE {})

\* the protocol cell of the table
protocolTags(i) ==
    LET p == protocolOf[i]
    IN CASE p.protocol \in {"wireguard", "hysteria"} -> {p.protocol, "UDP"}
         [] p.protocol = "shadowsocks" -> {p.protocol, p.network} \cup (streamTags(p) \ {"Reality"})
         [] OTHER -> {p.protocol, p.network} \cup networkL4(p.network) \cup streamTags(p)

usageTone(used, total) == IF used < total THEN "success" ELSE "danger"

\* what the table renders of inbound i, and what its card renders from the object it holds
tableRow(i) ==
    [tags |-> protocolTags(i), traffic |-> rows[i].up, tone |-> usageTone(rows[i].up, 1),
     node |-> NodeOf(i), count |-> counts[i]]
cardRow(i, row) ==
    [tags |-> protocolTags(i), traffic |-> row.up, tone |-> usageTone(row.up, 1),
     node |-> NodeOf(i), count |-> counts[i]]

fresh == [i \in Ids |-> [up |-> 0, enable |-> TRUE, clients |-> {"c"}, spent |-> FALSE]]
quietPresence == [online |-> [n \in Nodes |-> {}], active |-> [n \in {} |-> {}]]

Init ==
    /\ srv = [rows |-> fresh, n |-> 0] /\ presence = quietPresence
    /\ wire = <<>> /\ announced = FALSE
    /\ slim = [data |-> fresh, fetch |-> None]
    /\ rows = fresh /\ ownRow = {} /\ seen = quietPresence
    /\ counts = rebuildClientCount(fresh, quietPresence)
    /\ presenceAsked = TRUE /\ hydration = None /\ toggle = None /\ card = None
    /\ newest = 0 /\ excuses = {} /\ lateCounts = FALSE /\ ssteps = 0 /\ lsteps = 0

serverVars == <<srv, presence, presenceAsked, ssteps>>
listVars == <<rows, ownRow, counts, seen, newest, excuses, lateCounts>>

PageStep == lsteps < MaxListSteps /\ lsteps' = lsteps + 1
Change(r) == /\ ssteps < MaxServerSteps /\ ssteps' = ssteps + 1
             /\ srv' = [rows |-> r, n |-> srv.n + 1]

-----------------------------------------------------------------------------
(* The server *)

\* A poll of the traffic job: c used inbound i; both pushes carry absolute values
Poll(i) ==
    /\ "c" \in srv.rows[i].clients /\ srv.rows[i].enable
    /\ Change([j \in Ids |-> [srv.rows[j] EXCEPT !.up = IF j = i THEN 1 ELSE @, !.spent = TRUE]])
    /\ presence' = [online |-> [n \in Nodes |-> IF n = NodeOf(i) THEN {"c"} ELSE presence.online[n]],
                    active |-> [n \in {"local"} |-> IF n = NodeOf(i) THEN {i} ELSE {}]]
    /\ wire' = wire \o << [kind |-> "traffic", presence |-> presence'],
                          [kind |-> "client_stats", rows |-> srv'.rows, n |-> srv'.n] >>
    /\ UNCHANGED <<presenceAsked, announced, slim, listVars, hydration, toggle, card, lsteps>>

\* Another poll in which nothing moved: the same totals, nobody online
IdlePoll ==
    /\ ssteps < MaxServerSteps /\ ssteps' = ssteps + 1
    /\ presence' = [online |-> [n \in Nodes |-> {}], active |-> [n \in {"local"} |-> {}]]
    /\ wire' = wire \o << [kind |-> "traffic", presence |-> presence'],
                          [kind |-> "client_stats", rows |-> srv.rows, n |-> srv.n] >>
    /\ UNCHANGED <<srv, presenceAsked, announced, slim, listVars, hydration, toggle, card, lsteps>>

\* A client is attached or detached elsewhere; the hub announces the change
EditClients(i, s) ==
    /\ srv.rows[i].clients # s
    /\ Change([srv.rows EXCEPT ![i].clients = s])
    /\ announced' = TRUE
    /\ UNCHANGED <<presence, presenceAsked, wire, slim, listVars, hydration, toggle, card, lsteps>>

\* This page resets the traffic of every inbound, then refreshes
ResetTraffic ==
    /\ Change([j \in Ids |-> [srv.rows[j] EXCEPT !.up = 0, !.spent = FALSE]])
    /\ announced' = TRUE
    /\ UNCHANGED <<presence, presenceAsked, wire, slim, listVars, hydration, toggle, card, lsteps>>

-----------------------------------------------------------------------------
(* The fetched list *)

\* refresh(), or the bridge's invalidation: the fetch under way is abandoned for a new one
Refresh ==
    /\ announced /\ announced' = FALSE
    /\ slim' = [slim EXCEPT !.fetch = Asked]
    /\ UNCHANGED <<serverVars, wire, listVars, hydration, toggle, card, lsteps>>

ServerReads ==
    /\ slim.fetch = Asked
    /\ slim' = [slim EXCEPT !.fetch = srv]
    /\ UNCHANGED <<serverVars, wire, announced, listVars, hydration, toggle, card, lsteps>>

Applied(n) == newest' = IF n > newest THEN n ELSE newest

\* fetchSlimInbounds answers; the rows are made anew when the data differs from what is held
SlimArrives ==
    /\ slim.fetch \notin {None, Asked}
    /\ LET answer == slim.fetch
       IN /\ IF answer.rows = slim.data
             THEN /\ slim' = [slim EXCEPT !.fetch = None]
                  /\ excuses' = excuses \cup (IF rows # answer.rows THEN {"same"} ELSE {})
                  /\ UNCHANGED <<rows, ownRow, counts, lateCounts, toggle, card>>
             ELSE /\ slim' = [data |-> answer.rows, fetch |-> None]
                  /\ rows' = answer.rows /\ ownRow' = {}
                  /\ counts' = rebuildClientCount(answer.rows, seen)
                  /\ excuses' = IF answer.n < newest THEN excuses \cup {"crossed"} ELSE {}
                  /\ lateCounts' = FALSE
                  /\ toggle' = IF toggle = None THEN None ELSE [toggle EXCEPT !.stands = FALSE]
                  /\ card' = IF card = None THEN None ELSE [card EXCEPT !.stands = FALSE]
          /\ Applied(answer.n) /\ UNCHANGED seen
    /\ UNCHANGED <<serverVars, wire, announced, hydration, lsteps>>

-----------------------------------------------------------------------------
(* The pushes *)

\* Who is online where: the counts are made again
applyTrafficEvent(msg) ==
    /\ seen' = msg.presence
    /\ counts' = rebuildClientCount(rows, seen')
    /\ lateCounts' = FALSE
    /\ UNCHANGED <<rows, ownRow, newest, excuses, slim, card>>

\* In place: the objects the list and the open card hold, and the parts they share with slim's data
applyClientStatsEvent(msg) ==
    /\ rows' = [i \in Ids |-> [rows[i] EXCEPT !.up = msg.rows[i].up, !.enable = msg.rows[i].enable,
                                              !.spent = msg.rows[i].spent]]
    /\ slim' = [slim EXCEPT !.data = [i \in Ids |-> IF i \in ownRow THEN slim.data[i]
                                                    ELSE [slim.data[i] EXCEPT !.spent = msg.rows[i].spent]]]
    /\ card' = IF card # None /\ card.stands THEN [card EXCEPT !.row = rows'[card.id]] ELSE card
    /\ counts' = rebuildClientCount(rows', seen)
    /\ lateCounts' = FALSE
    /\ excuses' = IF msg.n < newest THEN excuses \cup {"crossed"} ELSE IF ownRow = {} THEN excuses \ {"same"} ELSE excuses
    /\ Applied(msg.n)
    /\ UNCHANGED <<ownRow, seen>>

\* onlinesByNode and activeInbounds answer with what the server knew when the page was opened
PresenceArrives ==
    /\ presenceAsked /\ presenceAsked' = FALSE
    /\ seen' = quietPresence
    /\ counts' = rebuildClientCount(rows, seen') /\ lateCounts' = FALSE
    /\ UNCHANGED <<srv, presence, wire, announced, slim, rows, ownRow, newest, excuses, hydration, toggle,
                   card, ssteps, lsteps>>

Deliver ==
    /\ wire # <<>> /\ wire' = Tail(wire)
    /\ IF Head(wire).kind = "traffic" THEN applyTrafficEvent(Head(wire)) ELSE applyClientStatsEvent(Head(wire))
    /\ UNCHANGED <<serverVars, announced, hydration, toggle, lsteps>>

-----------------------------------------------------------------------------
(* The page's own acts on a row *)

\* hydrateInbound: the full record is asked for before an edit, a card, an export or a clone
HydrateAsk(i) ==
    /\ hydration = None /\ PageStep
    /\ hydration' = [id |-> i, read |-> None]
    /\ UNCHANGED <<serverVars, wire, announced, slim, listVars, toggle, card>>

HydrateReads ==
    /\ hydration # None /\ hydration.read = None
    /\ hydration' = [hydration EXCEPT !.read = srv]
    /\ UNCHANGED <<serverVars, wire, announced, slim, listVars, toggle, card, lsteps>>

\* React runs the state updater at once or at the next render: the counts are made from either row
hydrateInbound ==
    /\ hydration # None /\ hydration.read # None
    /\ LET i == hydration.id
           next == [rows EXCEPT ![i] = hydration.read.rows[i]]
       IN /\ rows' = next /\ ownRow' = ownRow \cup {i}
          /\ \E counted \in {rows, next} :
                /\ counts' = rebuildClientCount(counted, seen)
                /\ lateCounts' = (counted # next)
          /\ excuses' = IF hydration.read.n < newest THEN excuses \cup {"crossed"} ELSE excuses
          /\ toggle' = IF toggle # None /\ toggle.id = i THEN [toggle EXCEPT !.stands = FALSE] ELSE toggle
          /\ card' = IF card # None /\ card.id = i THEN [card EXCEPT !.stands = FALSE] ELSE card
    /\ hydration' = None
    /\ UNCHANGED <<serverVars, wire, announced, slim, seen, newest, lsteps>>

\* onSwitchEnable: the row is changed before the call, without a state update
onSwitchEnable(i) ==
    /\ toggle = None /\ PageStep
    /\ toggle' = [id |-> i, before |-> rows[i].enable, stands |-> TRUE, pushed |-> FALSE]
    /\ rows' = [rows EXCEPT ![i].enable = ~@]
    /\ card' = IF card # None /\ card.stands /\ card.id = i THEN [card EXCEPT !.row.enable = ~@] ELSE card
    /\ lateCounts' = TRUE
    /\ UNCHANGED <<serverVars, wire, announced, slim, ownRow, counts, seen, newest, excuses, hydration>>

\* SetInboundEnable stored it; the hub announces the change
toggleStored ==
    /\ toggle # None
    /\ Change([srv.rows EXCEPT ![toggle.id].enable = ~toggle.before])
    /\ announced' = TRUE /\ toggle' = None
    /\ UNCHANGED <<presence, presenceAsked, wire, slim, rows, ownRow, counts, seen, newest, excuses, lateCounts, hydration, card, lsteps>>

\* It was refused: the value before is put back in the object that was changed
toggleRefused ==
    /\ toggle # None
    /\ toggle' = None
    /\ rows' = IF toggle.stands THEN [rows EXCEPT ![toggle.id].enable = toggle.before] ELSE rows
    /\ lateCounts' = (lateCounts \/ rows' # rows)
    /\ card' = IF card # None /\ card.stands /\ card.id = toggle.id /\ toggle.stands
               THEN [card EXCEPT !.row.enable = toggle.before] ELSE card
    /\ UNCHANGED <<serverVars, wire, announced, slim, ownRow, counts, seen, newest, excuses, hydration, lsteps>>

\* confirmClone empties the clients of the very settings object the row holds; the post then fails
cloneFails(i) ==
    /\ PageStep /\ rows[i].clients # {}
    /\ rows' = [rows EXCEPT ![i].clients = {}]
    /\ slim' = IF i \in ownRow THEN slim ELSE [slim EXCEPT !.data[i].clients = {}]
    /\ lateCounts' = TRUE
    /\ excuses' = excuses \cup {"cloned"}
    /\ card' = IF card # None /\ card.stands /\ card.id = i THEN [card EXCEPT !.row.clients = {}] ELSE card
    /\ UNCHANGED <<serverVars, wire, announced, ownRow, counts, seen, newest, hydration, toggle>>

\* InboundStatsModal holds the row it was opened on
openCard(i) ==
    /\ card = None /\ PageStep
    /\ card' = [id |-> i, row |-> rows[i], stands |-> TRUE]
    /\ UNCHANGED <<serverVars, wire, announced, slim, listVars, hydration, toggle>>

Next ==
    \/ \E i \in {"vl", "hy"} : Poll(i)
    \/ IdlePoll
    \/ \E s \in SUBSET {"c"} : EditClients("ss", s)
    \/ ResetTraffic \/ Refresh \/ ServerReads \/ SlimArrives \/ PresenceArrives \/ Deliver
    \/ \E i \in {"vl", "ss"} : HydrateAsk(i) \/ onSwitchEnable(i) \/ cloneFails(i) \/ openCard(i)
    \/ HydrateReads \/ hydrateInbound \/ toggleStored \/ toggleRefused

Spec == Init /\ [][Next]_statVars

-----------------------------------------------------------------------------
(* Properties *)

TypeOK ==
    /\ srv.rows \in [Ids -> Row] /\ rows \in [Ids -> Row] /\ slim.data \in [Ids -> Row]
    /\ announced \in BOOLEAN /\ lateCounts \in BOOLEAN /\ ownRow \subseteq Ids
    /\ excuses \subseteq {"same", "crossed", "cloned"}

Quiet == wire = <<>> /\ ~announced /\ slim.fetch = None /\ hydration = None /\ toggle = None

\* Once the page has taken in everything that was sent to it, the list shows the server's rows, unless
\* an answer and a push crossed, a refetch answered what was held already, or a clone failed
\* (useInbounds.ts, SlimArrives and Deliver).
RowsFollowServer == (Quiet /\ excuses = {}) => rows = srv.rows

\* The counts beside each row are those of that row and of the last presence the page was told, unless
\* the row was changed by an act that does not recompute them.
CountsFollowRows == ~lateCounts => counts = rebuildClientCount(rows, seen)

\* A client is shown online only beside inbounds of a node it is online on, and beside those that moved
\* bytes where the node says which did (useInbounds.ts:211-219).
OnlineWhereUsed ==
    \A i \in Ids : counts[i].online # {} =>
        /\ seen.online[NodeOf(i)] # {}
        /\ NodeOf(i) \in DOMAIN seen.active => i \in seen.active[NodeOf(i)]

\* An open card shows what the table shows, as long as the row it was opened on is the table's.
CardShowsRow == (card # None /\ card.stands) => cardRow(card.id, card.row) = tableRow(card.id)
=============================================================================
