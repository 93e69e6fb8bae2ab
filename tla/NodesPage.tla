----------------------------- MODULE NodesPage -----------------------------
(***************************************************************************)
(* The page of the remote nodes: the list (pages/nodes/NodesPage.tsx,      *)
(* NodeList.tsx, useNodesQuery, useNodeMutations), its confirmation and    *)
(* selection, the node form (NodeFormModal.tsx), and of the server the     *)
(* operations they call and the heartbeat that pushes the list             *)
(* (controller/node.go, service/node.go, job/node_heartbeat_job.go).       *)
(*                                                                         *)
(* Of a node's fields the model keeps the address, how its certificate is  *)
(* checked, the pin and the switch.  A certificate is named by its address;*)
(* the one at "a" is signed by an authority, the one at "b" is not.  tls   *)
(* is "http" when the scheme is http, whatever else the mode is the form's *)
(* own.                                                                    *)
(***************************************************************************)
EXTENDS Integers, FiniteSets

CONSTANTS MaxNodeActs,     \* bound: acts of the user
          MaxWorld         \* bound: other administrators' edits, and nodes that come and go

VARIABLES
    nodes,       \* the server's nodes
    reach,       \* addresses at which a panel answers
    heart,       \* the heartbeat run: the nodes it read and those still to probe, or None
    nodeRows,    \* what the page shows
    listError,   \* fetchError: the page shows it instead of the rows
    refetch,     \* the list's request: None, Asked, or what the server read
    pushed,      \* the broadcast on its way, or None
    unheard,     \* the server's rows changed after they were last read for the page
    pick,        \* selectedIds
    ask,         \* the confirmation: what it will do and to whom, or None
    busy,        \* confirmBusy
    nform,       \* the form: open or not, its opening, node, the values it opened with, and its values
    result,      \* testResult, or None
    ncalls,      \* requests in flight
    overlaid,    \* a save has written over a change it did not show
    nwhy, nsteps, wsteps

server == <<nodes, reach, heart>>
listed == <<nodeRows, listError, refetch, pushed, unheard>>
asking == <<pick, ask, busy>>
formed == <<nform, result>>
bounds == <<nsteps, wsteps>>
nodeVars == <<server, listed, asking, formed, ncalls, overlaid, nwhy, bounds>>

None == [nothing |-> TRUE]
Asked == [asked |-> TRUE]
Ids == 1..3        \* 3 is the node that can be added

Values(a, tls, pin, on) == [addr |-> a, tls |-> tls, pin |-> pin, on |-> on]
defaultValues == Values("", "verify", "", TRUE)

Call(kind, n, ids, v) == [kind |-> kind, n |-> n, ids |-> ids, v |-> v, base |-> nform.base, ans |-> "asked"]

\* The page as it was loaded, or as a form for the first node was just closed with
\* a connection test or the fetch of a fingerprint under way
Init ==
    /\ nodes = [i \in 1..2 |-> [status |-> "online",
                                v |-> IF i = 1 THEN Values("a", "verify", "", TRUE) ELSE Values("b", "pin", "b", TRUE)]]
    /\ reach = {"a", "b"} /\ heart = None
    /\ nodeRows = nodes /\ listError = FALSE /\ refetch = None /\ pushed = None /\ unheard = FALSE
    /\ pick = {} /\ ask = None /\ busy = FALSE
    /\ nform = [open |-> FALSE, n |-> 0, id |-> 0, base |-> defaultValues, v |-> defaultValues] /\ result = None
    /\ ncalls \in {{}} \cup {{Call(k, 0, {}, Values("a", "pin", "", TRUE))} : k \in {"test", "pin"}}
    /\ overlaid = FALSE /\ nwhy = {} /\ nsteps = 0 /\ wsteps = 0

-----------------------------------------------------------------------------
(* The server, its nodes, and other sessions *)

\* Probe: the panel answers, and its certificate passes the check
Probe(v) ==
    /\ v.addr \in reach
    /\ v.tls = "verify" => v.addr = "a"
    /\ v.tls = "pin" => v.pin = v.addr
Measured(v) == IF Probe(v) THEN "online" ELSE "offline"

World == wsteps < MaxWorld /\ wsteps' = wsteps + 1 /\ nsteps' = nsteps
worldKeeps == <<nodeRows, listError, refetch, pushed, asking, formed, ncalls, overlaid>>

reachChanges(a) ==
    /\ World /\ reach' = IF a \in reach THEN reach \ {a} ELSE reach \cup {a}
    /\ UNCHANGED <<nodes, heart, unheard, worldKeeps, nwhy>>

Raced(i, why) == IF nform.open /\ nform.id = i THEN nwhy \cup {why} ELSE nwhy

\* Another session switches a node, or deletes it
otherToggles(i) ==
    /\ World /\ i \in DOMAIN nodes /\ nodes' = [nodes EXCEPT ![i].v.on = ~@]
    /\ unheard' = TRUE /\ nwhy' = Raced(i, "raced") /\ UNCHANGED <<reach, heart, worldKeeps>>
otherDeletes(i) ==
    /\ World /\ i \in DOMAIN nodes /\ nodes' = [j \in DOMAIN nodes \ {i} |-> nodes[j]]
    /\ unheard' = TRUE /\ UNCHANGED <<reach, heart, worldKeeps, nwhy>>

\* NodeHeartbeatJob.Run: a run without nodes ends before its broadcast
heartBegins ==
    /\ heart = None /\ DOMAIN nodes # {} /\ World
    /\ heart' = [of |-> nodes, left |-> {i \in DOMAIN nodes : nodes[i].v.on}]
    /\ UNCHANGED <<nodes, reach, unheard, worldKeeps, nwhy>>

\* The node read before is probed, the row there is now written
probeOne(i) ==
    /\ heart # None /\ i \in heart.left
    /\ heart' = [heart EXCEPT !.left = @ \ {i}]
    /\ nodes' = IF i \in DOMAIN nodes THEN [nodes EXCEPT ![i].status = Measured(heart.of[i].v)] ELSE nodes
    /\ unheard' = (unheard \/ nodes' # nodes)
    /\ UNCHANGED <<reach, worldKeeps, nwhy, bounds>>

\* One of two reads on their way to the page is now the older one
Overtaken(s) == IF s \in {None, Asked} THEN s ELSE [s EXCEPT !.overtaken = TRUE]
Read == [rows |-> nodes, overtaken |-> FALSE]

BroadcastNodes ==
    /\ heart # None /\ heart.left = {} /\ pushed = None
    /\ heart' = None /\ pushed' = Read /\ refetch' = Overtaken(refetch) /\ unheard' = FALSE
    /\ UNCHANGED <<nodes, reach, nodeRows, listError, asking, formed, ncalls, overlaid, nwhy, bounds>>

-----------------------------------------------------------------------------
(* The list: an invalidation fetches it again, a push replaces it *)

nodesRead ==
    /\ refetch = Asked
    /\ refetch' = Read /\ pushed' = Overtaken(pushed) /\ unheard' = FALSE
    /\ UNCHANGED <<server, nodeRows, listError, asking, formed, ncalls, overlaid, nwhy, bounds>>

\* Rows read before those on screen have crossed them; newer ones put that right
Landed(s, other) ==
    /\ nodeRows' = s.rows /\ listError' = FALSE
    /\ nwhy' = IF s.overtaken /\ other \in {None, Asked} THEN nwhy \cup {"crossed"} ELSE nwhy \ {"crossed"}

fetchNodes(ok) ==
    /\ refetch \notin {None, Asked} /\ refetch' = None
    /\ IF ok THEN Landed(refetch, pushed) /\ unheard' = unheard
             ELSE listError' = TRUE /\ unheard' = TRUE /\ UNCHANGED <<nodeRows, nwhy>>
    /\ UNCHANGED <<server, pushed, asking, formed, ncalls, overlaid, bounds>>

onNodes ==
    /\ pushed # None /\ pushed' = None /\ Landed(pushed, refetch)
    /\ UNCHANGED <<server, refetch, unheard, asking, formed, ncalls, overlaid, bounds>>

-----------------------------------------------------------------------------
(* The user's acts *)

Acts == nsteps < MaxNodeActs /\ nsteps' = nsteps + 1 /\ wsteps' = wsteps
PageFree == ~nform.open /\ ask = None /\ ~listError
actKeeps == <<server, nodeRows, listError, pushed, unheard, overlaid>>

Under(kinds) == \E c \in ncalls : c.kind \in kinds

isUpdateEligible(m) == m.v.on /\ m.status = "online"
selectable == {i \in DOMAIN nodeRows : isUpdateEligible(nodeRows[i])}

\* the error card's button
Refresh ==
    /\ Acts /\ listError /\ refetch = None /\ refetch' = Asked
    /\ UNCHANGED <<actKeeps, asking, formed, ncalls, nwhy>>

\* A list of one has no checkboxes
toggleRow(i) ==
    /\ Acts /\ PageFree /\ Cardinality(DOMAIN nodeRows) > 1 /\ i \in selectable
    /\ pick' = IF i \in pick THEN pick \ {i} ELSE pick \cup {i}
    /\ UNCHANGED <<actKeeps, refetch, ask, busy, formed, ncalls, nwhy>>
toggleAll ==
    /\ Acts /\ PageFree /\ Cardinality(DOMAIN nodeRows) > 1
    /\ pick' = IF selectable # {} /\ selectable \subseteq pick THEN {} ELSE selectable
    /\ UNCHANGED <<actKeeps, refetch, ask, busy, formed, ncalls, nwhy>>

Confirm(kind, ids) ==
    /\ Acts /\ PageFree /\ ids # {} /\ ask' = [kind |-> kind, ids |-> ids]
    /\ UNCHANGED <<actKeeps, refetch, pick, busy, formed, ncalls, nwhy>>
onDelete(i) == i \in DOMAIN nodeRows /\ Confirm("delete", {i})
onUpdateNode(i) == i \in selectable /\ Confirm("update", {i})
onUpdateSelected == pick # {} /\ Confirm("update", pick \cap selectable)

\* Its button is loading while an earlier confirmed call is under way
runConfirm ==
    /\ Acts /\ ask # None /\ ~busy /\ busy' = TRUE
    /\ ncalls' = ncalls \cup {Call(ask.kind, nsteps', ask.ids, defaultValues)}
    /\ UNCHANGED <<actKeeps, refetch, pick, ask, formed, nwhy>>
\* It closes while its call is under way, too
closeConfirm ==
    /\ Acts /\ ask # None /\ ask' = None
    /\ UNCHANGED <<actKeeps, refetch, pick, busy, formed, ncalls, nwhy>>

onToggleEnable(i) ==
    /\ Acts /\ PageFree /\ i \in DOMAIN nodeRows
    /\ ncalls' = ncalls \cup {Call("toggle", nsteps', {i}, [nodeRows[i].v EXCEPT !.on = ~@])}
    /\ UNCHANGED <<actKeeps, refetch, asking, formed, nwhy>>
onProbe(i) ==
    /\ Acts /\ PageFree /\ i \in DOMAIN nodeRows
    /\ ncalls' = ncalls \cup {Call("probe", nsteps', {i}, defaultValues)}
    /\ UNCHANGED <<actKeeps, refetch, asking, formed, nwhy>>

openForm(id, v) ==
    /\ Acts /\ PageFree
    /\ nform' = [open |-> TRUE, n |-> nsteps', id |-> id, base |-> v, v |-> v] /\ result' = None
    /\ UNCHANGED <<actKeeps, refetch, asking, ncalls>>
onAdd == 3 \notin DOMAIN nodes /\ openForm(0, defaultValues) /\ UNCHANGED nwhy
onEdit(i) ==
    /\ i \in DOMAIN nodeRows /\ openForm(i, nodeRows[i].v)
    /\ nwhy' = IF i \in DOMAIN nodes /\ nodes[i].v # nodeRows[i].v THEN nwhy \cup {"staleRow"} ELSE nwhy

EditForm(v) ==
    /\ Acts /\ nform.open /\ v # nform.v /\ nform' = [nform EXCEPT !.v = v]
    /\ UNCHANGED <<actKeeps, refetch, asking, result, ncalls, nwhy>>
setAddress(a) == EditForm([nform.v EXCEPT !.addr = a])
setEnable == EditForm([nform.v EXCEPT !.on = ~@])
setTlsVerifyMode(m) == nform.v.tls # "http" /\ EditForm([nform.v EXCEPT !.tls = m])
setPin(p) == nform.v.tls = "pin" /\ EditForm([nform.v EXCEPT !.pin = p])
\* The scheme http sets the mode to skip, and https leaves it so
onSchemeChange == EditForm([nform.v EXCEPT !.tls = IF @ = "http" THEN "skip" ELSE "http"])

submitting == Under({"check", "save"})
closeFormAnyTime ==
    /\ Acts /\ nform.open /\ nform' = [nform EXCEPT !.open = FALSE]
    /\ UNCHANGED <<actKeeps, refetch, asking, result, ncalls, nwhy>>
closeForm ==
    /\ ~submitting /\ closeFormAnyTime

\* buildPayload: the pin goes only with its mode
buildPayload(v) == [v EXCEPT !.pin = IF v.tls = "pin" THEN v.pin ELSE ""]
onTest ==
    /\ Acts /\ nform.open /\ nform.v.addr # "" /\ ~Under({"test"})
    /\ ncalls' = ncalls \cup {Call("test", nform.n, {}, buildPayload(nform.v))} /\ result' = None
    /\ UNCHANGED <<actKeeps, refetch, asking, nform, nwhy>>
onFetchPin ==
    /\ Acts /\ nform.open /\ nform.v.addr # "" /\ nform.v.tls = "pin" /\ ~Under({"pin"})
    /\ ncalls' = ncalls \cup {Call("pin", nform.n, {}, nform.v)}
    /\ UNCHANGED <<actKeeps, refetch, asking, formed, nwhy>>
submit ==
    /\ Acts /\ nform.open /\ nform.v.addr # "" /\ ~submitting
    /\ ncalls' = ncalls \cup {Call("check", nform.n, {nform.id}, buildPayload(nform.v))}
    /\ UNCHANGED <<actKeeps, refetch, asking, formed, nwhy>>

-----------------------------------------------------------------------------
(* What the server does with a call, and what the page does with the answer *)

Served(c, ok) == ncalls' = (ncalls \ {c}) \cup {[c EXCEPT !.ans = IF ok THEN "ok" ELSE "refused"]}
The(S) == CHOOSE x \in S : TRUE
Fields == {"addr", "tls", "pin", "on"}
\* what others changed since the form opened and the save puts back
PutsBack(c, now) == \E f \in Fields : now[f] # c.base[f] /\ c.v[f] = c.base[f] /\ f # "pin"

update(i, c) ==
    /\ nodes' = [nodes EXCEPT ![i].v = c.v]
    /\ overlaid' = (overlaid \/ PutsBack(c, nodes[i].v))
create(c) == nodes' = [i \in DOMAIN nodes \cup {3} |-> IF i = 3 THEN [v |-> c.v, status |-> "unknown"] ELSE nodes[i]]
             /\ UNCHANGED overlaid

\* ensureReachable: add and update probe the node once more
saveServed(c) ==
    LET i == The(c.ids)
        ok == Probe(c.v) /\ (i = 0 \/ i \in DOMAIN nodes)
    IN  /\ Served(c, ok)
        /\ IF ~ok THEN UNCHANGED <<nodes, overlaid>> ELSE IF i = 0 THEN create(c) ELSE update(i, c)

serve(c) ==
    /\ c \in ncalls /\ c.ans = "asked"
    /\ CASE c.kind \in {"test", "check"} -> Served(c, Probe(c.v)) /\ UNCHANGED <<nodes, overlaid>>
         [] c.kind = "pin" -> Served(c, c.v.addr \in reach /\ c.v.tls # "http") /\ UNCHANGED <<nodes, overlaid>>
         [] c.kind = "save" -> saveServed(c)
         [] c.kind = "toggle" ->
              /\ Served(c, TRUE) /\ UNCHANGED overlaid
              /\ nodes' = [i \in DOMAIN nodes |-> IF i \in c.ids THEN [nodes[i] EXCEPT !.v.on = c.v.on] ELSE nodes[i]]
         [] c.kind = "delete" ->
              Served(c, TRUE) /\ UNCHANGED overlaid /\ nodes' = [i \in DOMAIN nodes \ c.ids |-> nodes[i]]
         [] c.kind = "probe" ->
              /\ Served(c, c.ids \subseteq DOMAIN nodes) /\ UNCHANGED overlaid
              /\ nodes' = [i \in DOMAIN nodes |->
                             IF i \in c.ids THEN [nodes[i] EXCEPT !.status = Measured(nodes[i].v)] ELSE nodes[i]]
         [] OTHER -> (\E ok \in BOOLEAN : Served(c, ok)) /\ UNCHANGED <<nodes, overlaid>>
    /\ unheard' = (unheard \/ nodes' # nodes)
    /\ nwhy' = IF c.kind = "toggle" THEN Raced(The(c.ids), "ownLate") ELSE nwhy
    /\ UNCHANGED <<reach, heart, nodeRows, listError, refetch, pushed, asking, formed, bounds>>

Invalidate(c) == refetch' = IF c.ans = "ok" THEN Asked ELSE refetch

\* setTestResult and set("pinnedCertSha256") act on whatever form there is by then
testAnswered(c) ==
    /\ result' = [ok |-> c.ans = "ok", n |-> c.n]
    /\ ncalls' = ncalls \ {c} /\ nwhy' = IF c.n # nform.n THEN nwhy \cup {"late"} ELSE nwhy
    /\ UNCHANGED <<refetch, asking, nform>>
pinAnswered(c) ==
    /\ nform' = IF c.ans = "ok" THEN [nform EXCEPT !.v.pin = c.v.addr] ELSE nform
    /\ ncalls' = ncalls \ {c} /\ UNCHANGED <<refetch, asking, result, nwhy>>
checkAnswered(c) ==
    /\ result' = [ok |-> c.ans = "ok", n |-> c.n]
    /\ ncalls' = (ncalls \ {c}) \cup (IF c.ans = "ok" THEN {[c EXCEPT !.kind = "save", !.ans = "asked"]} ELSE {})
    /\ UNCHANGED <<refetch, asking, nform, nwhy>>
saveAnswered(c) ==
    /\ nform' = IF c.ans = "ok" THEN [nform EXCEPT !.open = FALSE] ELSE nform
    /\ ncalls' = ncalls \ {c} /\ Invalidate(c) /\ UNCHANGED <<asking, result, nwhy>>
rowAnswered(c) == ncalls' = ncalls \ {c} /\ Invalidate(c) /\ UNCHANGED <<asking, formed, nwhy>>
\* runConfirm's finally closes the confirmation that is open by then; an update drops the selection
confirmedAnswered(c) ==
    /\ ncalls' = ncalls \ {c} /\ Invalidate(c) /\ busy' = FALSE /\ ask' = None
    /\ pick' = IF c.kind = "update" /\ c.ans = "ok" THEN {} ELSE pick
    /\ UNCHANGED <<formed, nwhy>>

answer(c) ==
    /\ c \in ncalls /\ c.ans # "asked"
    /\ CASE c.kind = "test" -> testAnswered(c) [] c.kind = "pin" -> pinAnswered(c)
         [] c.kind = "check" -> checkAnswered(c) [] c.kind = "save" -> saveAnswered(c)
         [] c.kind \in {"toggle", "probe"} -> rowAnswered(c)
         [] c.kind \in {"delete", "update"} -> confirmedAnswered(c)
    /\ UNCHANGED <<server, nodeRows, listError, pushed, unheard, overlaid, bounds>>

Next ==
    \/ \E a \in {"a", "b"} : reachChanges(a) \/ setAddress(a) \/ setPin(a)
    \/ \E i \in Ids : otherToggles(i) \/ otherDeletes(i) \/ probeOne(i)
    \/ heartBegins \/ BroadcastNodes \/ nodesRead \/ onNodes \/ (\E ok \in BOOLEAN : fetchNodes(ok))
    \/ Refresh \/ toggleAll \/ onUpdateSelected \/ runConfirm \/ closeConfirm
    \/ \E i \in Ids : toggleRow(i) \/ onDelete(i) \/ onUpdateNode(i) \/ onToggleEnable(i) \/ onProbe(i) \/ onEdit(i)
    \/ onAdd \/ setEnable \/ onSchemeChange \/ (\E m \in {"verify", "pin", "skip"} : setTlsVerifyMode(m))
    \/ closeForm \/ onTest \/ onFetchPin \/ submit
    \/ \E c \in ncalls : serve(c) \/ answer(c)

Spec == Init /\ [][Next]_nodeVars

-----------------------------------------------------------------------------
AllValues == [addr : {"", "a", "b"}, tls : {"verify", "pin", "skip", "http"}, pin : {"", "a", "b"}, on : BOOLEAN]
Rows == [v : AllValues, status : {"unknown", "online", "offline"}]
RowsOk(f) == DOMAIN f \subseteq Ids /\ \A i \in DOMAIN f : f[i] \in Rows
TypeOK ==
    /\ RowsOk(nodes) /\ RowsOk(nodeRows) /\ reach \subseteq {"a", "b"}
    /\ pick \subseteq Ids /\ nform.v \in AllValues /\ nform.id \in {0} \cup Ids
    /\ busy \in BOOLEAN /\ listError \in BOOLEAN /\ unheard \in BOOLEAN /\ overlaid \in BOOLEAN

\* The rows are the server's once what was read has arrived and nothing changed
\* since, unless a push and a refetch arrived in the other order.
NodeRowsFollow ==
    (refetch = None /\ pushed = None /\ ~unheard /\ "crossed" \notin nwhy) => nodeRows = nodes

\* The form stays, on its node, until the two calls of a save have ended.
SubmitHoldsForm == \A c \in ncalls : c.kind \in {"check", "save"} => nform.open /\ nform.n = c.n

\* A result on screen was measured in the form that is open, unless a test
\* outlived its form.
ResultIsOfForm == (nform.open /\ result # None) => (result.n = nform.n \/ "late" \in nwhy)

\* However late a fetched fingerprint lands in a form, a node is stored with the
\* pin of its own address only.
PinIsOfItsAddress == \A i \in DOMAIN nodes : nodes[i].v.tls = "pin" => nodes[i].v.pin = nodes[i].v.addr

\* Closing the confirmation early and opening another never runs two at once.
OneConfirmedCall == Cardinality({c \in ncalls : c.kind \in {"delete", "update"}}) <= 1

\* A save writes over a change made elsewhere only when the row was behind as the
\* form opened or the change came while it was open.
OverlaidHasCause == overlaid => nwhy \cap {"raced", "staleRow", "ownLate"} # {}

=============================================================================
