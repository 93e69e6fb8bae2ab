------------------------------ MODULE NodeTraffic ------------------------------
(***************************************************************************)
(* How the traffic of one client that several nodes serve is added up in   *)
(* its one central client_traffics row (web/service/inbound.go,            *)
(* setRemoteTrafficLocked).  Every node reports a cumulative counter; the  *)
(* central panel remembers the last value it merged from each node (the    *)
(* baseline, node_client_traffics) and adds the difference to the row.     *)
(* Up and down are treated alike, so one counter stands for both.          *)
(*                                                                         *)
(* A merge is one transaction of the traffic writer, so it is one step;    *)
(* the snapshot it merges was fetched earlier, and the node goes on        *)
(* counting meanwhile.  One sync per node is in flight at a time.          *)
(***************************************************************************)
EXTENDS Integers

CONSTANTS
    Nodes,
    MaxCount,   \* bound on a node's counter
    MaxEvents   \* bound on resets, removals and additions of the client

Local == "local"
ASSUME NodeAssumption == Local \notin Nodes
ASSUME BoundAssumption == MaxCount \in Nat /\ MaxEvents \in Nat

VARIABLES
    hasRow, row,   \* the central row of the client and its counter
    owner,         \* the inbound the row names: that of a node, or a local one
    seen, base,    \* seen[n]: is there a baseline for node n; base[n]: its value
    links,         \* nodes whose inbound the client is attached to
    tomb,          \* the client's e-mail is tombstoned
    has, ctr,      \* has[n]: node n serves the client; ctr[n]: its counter
    snap,          \* snap[n]: the snapshot of node n in flight
    credited,      \* history: what merges of node n added to the row
    owed,          \* history: the traffic of node n they may add
    lossy,         \* history: has traffic of node n gone unnoticed
    events

rowVars  == <<hasRow, row, owner>>
baseVars == <<seen, base>>
nodeVars == <<has, ctr>>
histVars == <<credited, owed, lossy>>
vars == <<rowVars, baseVars, links, tomb, nodeVars, snap, histVars, events>>

NoSnap == [on |-> FALSE, has |-> FALSE, v |-> 0]

\* Mutant: a counter that went back is not noticed.
DeltaUnclamped(v, b) == v - b

\* Mutant: a counter that went back is taken for that much traffic.
DeltaAbsolute(v, b) == IF v >= b THEN v - b ELSE b - v

\* A counter that went back is taken for one that started again.
Delta(v, b) == IF v >= b THEN v - b ELSE v

\* What node n has carried and merges have not added yet: the snapshot in
\* flight, then the counter against that snapshot.  Without a row the first
\* merge takes the whole counter over; a row without a baseline takes nothing.
Pending(r, s, b, sn, c) ==
    LET First(v) == IF ~r THEN v ELSE IF s THEN Delta(v, b) ELSE 0
    IN  IF sn.on /\ sn.has THEN First(sn.v) + Delta(c, sn.v) ELSE First(c)

PendingOf(n) == Pending(hasRow, seen[n], base[n], snap[n], ctr[n])

Init ==
    /\ hasRow = FALSE /\ row = 0 /\ owner = Local
    /\ seen = [n \in Nodes |-> FALSE] /\ base = [n \in Nodes |-> 0]
    /\ links = {} /\ tomb = FALSE
    /\ has \in [Nodes -> BOOLEAN] /\ ctr = [n \in Nodes |-> 0]
    /\ snap = [n \in Nodes |-> NoSnap]
    /\ credited = [n \in Nodes |-> 0] /\ owed = [n \in Nodes |-> 0]
    /\ lossy = [n \in Nodes |-> FALSE]
    /\ events = 0

Event == events < MaxEvents /\ events' = events + 1

\* The history of a row that is gone or zeroed starts over.
StartOver(r, s, b, sn) ==
    /\ credited' = [n \in Nodes |-> 0]
    /\ owed' = [n \in Nodes |-> Pending(r, s[n], b[n], sn[n], ctr[n])]

-----------------------------------------------------------------------------
(* The nodes *)

\* Traffic carried while the row has no baseline for the node is not noticed.
Carry(n) ==
    /\ has[n]
    /\ ctr[n] < MaxCount
    /\ ctr' = [ctr EXCEPT ![n] = @ + 1]
    /\ owed' = [owed EXCEPT ![n] = @ + 1]
    /\ lossy' = [lossy EXCEPT ![n] = @ \/ (hasRow /\ ~seen[n])]
    /\ UNCHANGED <<rowVars, baseVars, links, tomb, has, snap, credited, events>>

\* A counter falls back to 0; traffic it counted again up to the baseline will
\* not be noticed.
Drop(S) ==
    /\ ctr' = [n \in Nodes |-> IF n \in S THEN 0 ELSE ctr[n]]
    /\ lossy' = [n \in Nodes |-> lossy[n] \/ (n \in S /\ ctr[n] > 0)]

\* The node's own panel resets the client's traffic.
NodeResets(n) ==
    /\ Event
    /\ Drop({n})
    /\ UNCHANGED <<rowVars, baseVars, links, tomb, has, snap, credited, owed>>

\* The node's own panel adds or removes the client.
NodeEdits(n) ==
    /\ Event
    /\ has' = [has EXCEPT ![n] = ~@]
    /\ Drop({n})
    /\ UNCHANGED <<rowVars, baseVars, links, tomb, snap, credited, owed>>

-----------------------------------------------------------------------------
(* syncOne *)

FetchTrafficSnapshot(n) ==
    /\ ~snap[n].on
    /\ snap' = [snap EXCEPT ![n] = [on |-> TRUE, has |-> has[n], v |-> ctr[n]]]
    /\ UNCHANGED <<rowVars, baseVars, links, tomb, nodeVars, histVars, events>>

\* The traffic writer refuses the merge, or its transaction is rolled back.
MergeFails(n) ==
    /\ snap[n].on
    /\ snap' = [snap EXCEPT ![n] = NoSnap]
    /\ lossy' = [lossy EXCEPT ![n] = @ \/ (hasRow /\ ~seen[n] /\ ctr[n] > 0)]
    /\ UNCHANGED <<rowVars, baseVars, links, tomb, nodeVars, credited, owed, events>>

\* Mutant: the baseline is not brought up to the snapshot.
upsertNodeBaselineOnce(n, v) ==
    /\ seen' = [seen EXCEPT ![n] = TRUE]
    /\ base' = IF seen[n] THEN base ELSE [base EXCEPT ![n] = v]

upsertNodeBaseline(n, v) ==
    /\ seen' = [seen EXCEPT ![n] = TRUE]
    /\ base' = [base EXCEPT ![n] = v]

\* SyncInbound attaches the clients of the snapshot, but no tombstoned one.
Attach(n) == links' = IF tomb THEN links \ {n} ELSE links \cup {n}

Merged(n) == [snap EXCEPT ![n] = NoSnap]

\* Detaching the client from node n leaves it attached nowhere.
LastLink(n) == links = {n}

\* Mutant: the node's counter overwrites the row.
RowTakes(v, d) == v

RowAdds(v, d) == row + d

\* The row exists: the difference to the baseline is added; a node seen for the
\* first time adds nothing.
MergeAdds(n, v) ==
    LET d == IF seen[n] THEN Delta(v, base[n]) ELSE 0 IN
    /\ hasRow
    /\ row' = RowAdds(v, d)
    /\ upsertNodeBaseline(n, v)
    /\ credited' = [credited EXCEPT ![n] = @ + d]
    /\ UNCHANGED <<hasRow, owner, owed, lossy>>

\* There is no row: it is created from the node's counter.
MergeCreates(n, v) ==
    /\ ~hasRow
    /\ hasRow' = TRUE
    /\ row' = v
    /\ owner' = n
    /\ upsertNodeBaseline(n, v)
    /\ credited' = [credited EXCEPT ![n] = v]
    /\ lossy' = [m \in Nodes |-> lossy[m] \/ (m # n /\ PendingOf(m) > 0)]
    /\ UNCHANGED owed

\* A tombstoned client that was created again on this node alone is detached,
\* and what is attached nowhere is deleted with its row and all baselines.
MergeDetaches(n, dirty) ==
    /\ snap[n].has
    /\ ~dirty /\ tomb /\ LastLink(n)
    /\ links' = {}
    /\ seen' = [m \in Nodes |-> FALSE] /\ base' = [m \in Nodes |-> 0]
    /\ hasRow' = FALSE /\ row' = 0 /\ owner' = Local
    /\ StartOver(FALSE, seen', base', Merged(n))
    /\ UNCHANGED lossy

\* The client is in the snapshot.
MergePresent(n, dirty) ==
    /\ snap[n].has
    /\ ~dirty /\ tomb => ~LastLink(n)
    /\ \/ MergeAdds(n, snap[n].v)
       \/ ~dirty /\ MergeCreates(n, snap[n].v)
       \/ dirty /\ ~hasRow /\ UNCHANGED <<rowVars, baseVars, histVars>>
    /\ IF dirty THEN UNCHANGED links ELSE Attach(n)

\* The client is not in the snapshot: the row goes if it belongs to this node's
\* inbound, with this node's baseline; row and baselines all go when the client
\* was attached here and is attached nowhere else.
MergeAbsent(n, dirty) ==
    LET mine   == hasRow /\ owner = n
        orphan == LastLink(n)
        gone   == {m \in Nodes : orphan \/ (mine /\ m = n)}
        kept   == hasRow /\ ~mine /\ ~orphan
        s      == [m \in Nodes |-> seen[m] /\ m \notin gone]
        b      == [m \in Nodes |-> IF m \in gone THEN 0 ELSE base[m]]
    IN
    /\ ~snap[n].has
    /\ ~dirty
    /\ links' = links \ {n}
    /\ seen' = s /\ base' = b
    /\ hasRow' = kept
    /\ row' = IF kept THEN row ELSE 0
    /\ owner' = IF kept THEN owner ELSE Local
    /\ IF hasRow /\ ~kept
       THEN StartOver(FALSE, s, b, Merged(n))
       ELSE UNCHANGED <<credited, owed>>
    /\ UNCHANGED lossy

MergeSkips(n, dirty) ==
    /\ ~snap[n].has
    /\ dirty
    /\ UNCHANGED <<rowVars, baseVars, links, histVars>>

\* The flag is config_dirty, which module NodeSync models.
setRemoteTrafficLocked(n) ==
    /\ snap[n].on
    /\ \E dirty \in BOOLEAN :
        \/ MergePresent(n, dirty) \/ MergeDetaches(n, dirty)
        \/ MergeAbsent(n, dirty) \/ MergeSkips(n, dirty)
    /\ snap' = Merged(n)
    /\ UNCHANGED <<tomb, nodeVars, events>>

-----------------------------------------------------------------------------
(* The central panel *)

\* The row is zeroed; the node of the inbound the reset names is told, which
\* may fail.  Baselines stay, so that only later traffic is added.
resetClientTraffic(n) ==
    /\ hasRow
    /\ Event
    /\ row' = 0
    /\ \/ UNCHANGED <<ctr, lossy>>
       \/ Drop({n})
    /\ StartOver(TRUE, seen, base, snap)
    /\ UNCHANGED <<hasRow, owner, baseVars, links, tomb, has, snap>>

\* The client is created on node n; the node may not have been reached.
AddClientStat(n) ==
    /\ n \notin links
    /\ Event
    /\ links' = links \cup {n}
    /\ hasRow' = TRUE
    /\ IF hasRow
       THEN UNCHANGED <<row, owner, credited, owed>>
       ELSE row' = 0 /\ owner' = n /\ StartOver(TRUE, seen, base, snap)
    /\ \/ UNCHANGED has
       \/ has' = [has EXCEPT ![n] = TRUE]
    /\ UNCHANGED <<baseVars, tomb, ctr, snap, lossy>>

\* The client is deleted: tombstone, row and baselines, and the client on the
\* nodes that could be reached.
DelClientStat ==
    /\ hasRow \/ links # {}
    /\ Event
    /\ tomb' = TRUE
    /\ hasRow' = FALSE /\ row' = 0 /\ owner' = Local
    /\ seen' = [n \in Nodes |-> FALSE] /\ base' = [n \in Nodes |-> 0]
    /\ links' = {}
    /\ \E S \in SUBSET Nodes :
        /\ has' = [n \in Nodes |-> has[n] /\ n \notin S]
        /\ Drop(S)
    /\ StartOver(FALSE, seen', base', snap)
    /\ UNCHANGED snap

TombstoneExpires ==
    /\ tomb
    /\ tomb' = FALSE
    /\ UNCHANGED <<rowVars, baseVars, links, nodeVars, snap, histVars, events>>

Next ==
    \/ \E n \in Nodes :
        \/ Carry(n) \/ NodeResets(n) \/ NodeEdits(n)
        \/ FetchTrafficSnapshot(n) \/ MergeFails(n) \/ setRemoteTrafficLocked(n)
        \/ resetClientTraffic(n) \/ AddClientStat(n)
    \/ DelClientStat \/ TombstoneExpires

Spec == Init /\ [][Next]_vars

-----------------------------------------------------------------------------
(* Properties *)

\* Every variable keeps its type.
TypeOK ==
    /\ hasRow \in BOOLEAN /\ row \in Nat /\ owner \in Nodes \cup {Local}
    /\ seen \in [Nodes -> BOOLEAN] /\ base \in [Nodes -> Nat]
    /\ links \subseteq Nodes /\ tomb \in BOOLEAN
    /\ has \in [Nodes -> BOOLEAN] /\ ctr \in [Nodes -> Nat]
    /\ snap \in [Nodes -> [on : BOOLEAN, has : BOOLEAN, v : Nat]]
    /\ credited \in [Nodes -> Nat] /\ owed \in [Nodes -> Nat]
    /\ lossy \in [Nodes -> BOOLEAN]
    /\ events \in 0..MaxEvents

\* No byte is counted twice: what merges add to the row on behalf of a node
\* never exceeds what the node carried (since the row was created or reset, plus
\* what was pending then), whatever is reset, lost or merged late.
NoDoubleCount == \A n \in Nodes : credited[n] <= owed[n]

\* No byte is lost either, as long as no counter went back and no baseline was
\* missing: what a node carried is in the row or will be with the next merges.
NothingLost == \A n \in Nodes : ~lossy[n] => credited[n] + PendingOf(n) = owed[n]

\* The tombstone keeps a node snapshot that arrives after the deletion from
\* resurrecting the client: its traffic row stays away.
DeletedStaysDeleted ==
    [][(tomb /\ ~hasRow /\ \E n \in Nodes : setRemoteTrafficLocked(n)) => ~hasRow']_vars
=============================================================================
