------------------------------- MODULE NodeSync -------------------------------
(***************************************************************************)
(* The central panel and one remote node.  Edits of the node's inbounds    *)
(* (web/service/inbound.go) change the central rows and are pushed to the  *)
(* node; what could not be pushed marks the node config-dirty.  The        *)
(* traffic sync job (web/job/node_traffic_sync_job.go) replays the central *)
(* rows on a dirty node, then fetches a snapshot of the node's rows and    *)
(* merges it: on a clean node the snapshot overwrites the central rows,    *)
(* creates the missing ones and deletes the ones it does not have.         *)
(*                                                                         *)
(* The merge is one transaction run by the traffic writer and is one step  *)
(* here; so is each database statement and each call to the node.          *)
(***************************************************************************)
EXTENDS Naturals, FiniteSets

CONSTANTS
    Tags,          \* inbounds, one edit in flight per inbound
    Contents,      \* settings an inbound can have
    Clashes,       \* sets of settings that share a port: one panel takes only one
    MaxEdits,      \* bound on the edits made, on either panel
    MaxNodeEdits,  \* bound on those made on the node's own panel
    MaxFails,      \* bound on failed calls, failed database writes and outages
    MaxClock       \* bound on the clock, in milliseconds

NoContent == "absent"
ASSUME ContentAssumption == NoContent \notin Contents
ASSUME BoundAssumption == {MaxEdits, MaxNodeEdits, MaxFails, MaxClock} \subseteq Nat

Absent  == [val |-> NoContent, on |-> FALSE]
Configs == [val : Contents, on : BOOLEAN]
Rows    == Configs \cup {Absent}

\* checkPortConflict: row r collides with a row of another tag.
Clash(r, s) == \E g \in Clashes : {r.val, s.val} \subseteq g
portTaken(rows, t, r) == r # Absent /\ \E u \in Tags \ {t} : rows[u] # Absent /\ Clash(r, rows[u])

VARIABLES
    central,   \* central[t]: the central panel's row
    remote,    \* remote[t]: the node's row
    link,      \* "up": enabled and online, "down": disabled or offline,
               \* "unknown": enabled and not probed yet
    dirty, dirtyAt,   \* config_dirty, config_dirty_at
    clock,
    edit,      \* edit[t]: the edit of inbound t in flight
    sync,      \* the run of syncOne
    intent,    \* history: intent[t]: what the last edit made of inbound t
    touched,   \* history: inbounds edited during this sync that config_dirty
               \* does not protect from it
    why,       \* history: why[t]: what may have undone the last edit of t
    edits, nodeEdits, fails

nodeVars  == <<link, dirty, dirtyAt, clock>>
histVars  == <<intent, touched, why>>
boundVars == <<edits, nodeEdits, fails>>
vars == <<central, remote, nodeVars, edit, sync, histVars, boundVars>>

NoEdit == [op |-> "none", step |-> "idle", to |-> Absent, want |-> FALSE]
NoSync == [step |-> "idle", at |-> 0, rows |-> [t \in Tags |-> Absent],
           todo |-> {}, snap |-> [t \in Tags |-> Absent], dirty |-> FALSE]

Init ==
    /\ central \in [Tags -> Rows]
    /\ \A t \in Tags : ~portTaken(central, t, central[t])
    /\ remote = central
    /\ link = "unknown"
    /\ dirty = FALSE /\ dirtyAt = 0
    /\ clock = 0
    /\ edit = [t \in Tags |-> NoEdit]
    /\ sync = NoSync
    /\ intent = central
    /\ touched = {}
    /\ why = [t \in Tags |-> "none"]
    /\ edits = 0 /\ nodeEdits = 0 /\ fails = 0

Fails == fails < MaxFails /\ fails' = fails + 1

Touch(t) == touched' = IF sync.step = "idle" THEN touched ELSE touched \cup {t}

Blame(S, reason) ==
    why' = [t \in Tags |-> IF t \in S /\ why[t] # "race" THEN reason ELSE why[t]]

-----------------------------------------------------------------------------
(* Edits from the central panel *)

Begin(t, op, to, step) ==
    /\ edit[t].step = "idle"
    /\ edits + nodeEdits < MaxEdits
    /\ edits' = edits + 1
    /\ edit' = [edit EXCEPT ![t] = [op |-> op, step |-> step, to |-> to, want |-> FALSE]]
    /\ Touch(t)
    /\ UNCHANGED <<remote, nodeVars, sync, nodeEdits>>

\* A new inbound that is not enabled is never pushed.
AddInbound(t) ==
    /\ central[t] = Absent
    /\ \E c \in Configs :
        /\ ~portTaken(central, t, c)
        /\ Begin(t, "add", c, IF c.on THEN "plan" ELSE "commit")
    /\ UNCHANGED <<central, intent, why, fails>>

DelInbound(t) ==
    /\ central[t] # Absent
    /\ Begin(t, "del", Absent, "plan")
    /\ UNCHANGED <<central, intent, why, fails>>

\* The row cannot be loaded: no push, no mark, and the row is deleted anyway.
DelInboundUnloaded(t) ==
    /\ central[t] # Absent
    /\ Fails
    /\ Begin(t, "del", Absent, "commit")
    /\ Blame({t}, "race")
    /\ UNCHANGED <<central, intent>>

UpdateInbound(t) ==
    /\ central[t] # Absent
    /\ \E c \in Configs \ {central[t]} :
        ~portTaken(central, t, c) /\ Begin(t, "update", c, "plan")
    /\ UNCHANGED <<central, intent, why, fails>>

\* The enable column is written before the node is told.
SetInboundEnable(t) ==
    /\ central[t] # Absent
    /\ LET c == [central[t] EXCEPT !.on = ~@] IN
        /\ Begin(t, "toggle", c, "plan")
        /\ central' = [central EXCEPT ![t] = c]
        /\ intent' = [intent EXCEPT ![t] = c]
    /\ UNCHANGED <<why, fails>>

\* What follows the push: the commit, or, when the row is written already,
\* MarkNodeDirty, or nothing.
AfterPush(e, want) ==
    CASE e.op # "toggle" -> [e EXCEPT !.step = "commit", !.want = want]
      [] e.op = "toggle" /\ want -> [e EXCEPT !.step = "mark"]
      [] OTHER -> NoEdit

GoesOn(t, want) == edit' = [edit EXCEPT ![t] = AfterPush(@, want)]

editFrame == <<nodeVars, sync, edits, nodeEdits>>

\* nodePushPlan: a node that is disabled or offline is not called.
nodePushPlan(t) ==
    /\ edit[t].step = "plan"
    /\ IF link = "down"
       THEN GoesOn(t, TRUE)
       ELSE edit' = [edit EXCEPT ![t].step = "push"]
    /\ Touch(t)
    /\ UNCHANGED <<editFrame, central, remote, intent, why, fails>>

\* The node's state cannot be read: an add or an update is rolled back, a delete
\* goes on and marks the node, and the enable switch returns with the column
\* written and the node not marked.
nodePushPlanFails(t) ==
    /\ edit[t].step = "plan"
    /\ Fails
    /\ edit' = [edit EXCEPT ![t] = IF @.op = "del" THEN AfterPush(@, TRUE) ELSE NoEdit]
    /\ IF edit[t].op = "toggle" THEN Blame({t}, "race") ELSE UNCHANGED why
    /\ Touch(t)
    /\ UNCHANGED <<editFrame, central, remote, intent>>

\* Disabling through the edit form deletes the node's row.
PushDeletes(e) == e.op = "del" \/ (e.op = "update" /\ ~e.to.on)

Effect(t) == remote' = [remote EXCEPT ![t] = IF PushDeletes(edit[t]) THEN Absent ELSE edit[t].to]

\* The node refuses a port that another of its rows has, and Remote.AddInbound
\* also for a tag the node has.
Refused(t) ==
    \/ edit[t].op = "add" /\ remote[t] # Absent
    \/ ~PushDeletes(edit[t]) /\ portTaken(remote, t, edit[t].to)

\* The call fails; it may have had its effect.
PushFails(t) ==
    /\ Fails
    /\ (~Refused(t) /\ Effect(t)) \/ UNCHANGED remote
    /\ GoesOn(t, TRUE)
    /\ UNCHANGED why

PushRefused(t) ==
    /\ Refused(t)
    /\ GoesOn(t, TRUE)
    /\ UNCHANGED <<remote, why, fails>>

PushSucceeds(t) ==
    /\ ~Refused(t)
    /\ Effect(t)
    /\ GoesOn(t, FALSE)
    /\ IF edit[t].op = "update" /\ ~edit[t].to.on THEN Blame({t}, "disable") ELSE UNCHANGED why
    /\ UNCHANGED fails

\* Remote.DelInbound takes a failure to list the node's inbounds for an unknown
\* tag and reports success.
PushDeleteSkipped(t) ==
    /\ PushDeletes(edit[t])
    /\ Fails
    /\ GoesOn(t, FALSE)
    /\ Blame({t}, "race")
    /\ UNCHANGED remote

Push(t) ==
    /\ edit[t].step = "push"
    /\ PushSucceeds(t) \/ PushRefused(t) \/ PushFails(t) \/ PushDeleteSkipped(t)
    /\ Touch(t)
    /\ UNCHANGED <<editFrame, central, intent>>

Commit(t) ==
    LET e == edit[t] IN
    /\ e.step = "commit"
    /\ central' = [central EXCEPT ![t] = e.to]
    /\ intent' = [intent EXCEPT ![t] = e.to]
    /\ edit' = [edit EXCEPT ![t] = IF e.want THEN [e EXCEPT !.step = "mark"] ELSE NoEdit]
    /\ Touch(t)
    /\ IF e.op = "add" /\ ~e.to.on THEN Blame({t}, "hidden") ELSE UNCHANGED why
    /\ UNCHANGED <<editFrame, remote, fails>>

\* A delete or an update that fails in the database after its push returns the
\* error; the node keeps what was pushed and is not marked.
CommitFails(t) ==
    /\ edit[t].step = "commit"
    /\ edit[t].op \in {"del", "update"}
    /\ Fails
    /\ edit' = [edit EXCEPT ![t] = NoEdit]
    /\ Blame({t}, "race")
    /\ UNCHANGED <<editFrame, central, remote, intent, touched>>

\* AddInbound and UpdateInbound ignore what tx.Commit returns: the edit is
\* reported as done and its row is not written.
CommitIsLost(t) ==
    LET e == edit[t] IN
    /\ e.step = "commit"
    /\ e.op \in {"add", "update"}
    /\ Fails
    /\ intent' = [intent EXCEPT ![t] = e.to]
    /\ edit' = [edit EXCEPT ![t] = IF e.want THEN [e EXCEPT !.step = "mark"] ELSE NoEdit]
    /\ Blame({t}, "race")
    /\ Touch(t)
    /\ UNCHANGED <<editFrame, central, remote>>

\* Mutant: the time stamp is rounded up.
MarkNodeDirtyLate(t) ==
    /\ edit[t].step = "mark"
    /\ dirty' = TRUE
    /\ dirtyAt' = clock + 1
    /\ edit' = [edit EXCEPT ![t] = NoEdit]
    /\ UNCHANGED <<central, remote, link, clock, sync, histVars, boundVars>>

Reconciling == sync.step \in {"read", "list", "replay"}

\* A mark made before the sync reads the flag protects the edit, unless the
\* compare-and-swap of ClearNodeDirty cannot tell it from an older mark.
MarkNodeDirty(t) ==
    /\ edit[t].step = "mark"
    /\ dirty' = TRUE
    /\ dirtyAt' = clock
    /\ edit' = [edit EXCEPT ![t] = NoEdit]
    /\ touched' = IF sync.step = "merge" THEN touched ELSE touched \ {t}
    /\ IF Reconciling /\ sync.at = clock THEN Blame({t}, "race") ELSE UNCHANGED why
    /\ UNCHANGED <<central, remote, link, clock, sync, intent, boundVars>>

\* The error is logged, and the edit stays unprotected.
MarkNodeDirtyFails(t) ==
    /\ edit[t].step = "mark"
    /\ Fails
    /\ edit' = [edit EXCEPT ![t] = NoEdit]
    /\ Blame({t}, "race")
    /\ UNCHANGED <<editFrame, central, remote, intent, touched>>

EditBegins(t) ==
    \/ AddInbound(t) \/ DelInbound(t) \/ DelInboundUnloaded(t)
    \/ UpdateInbound(t) \/ SetInboundEnable(t)

EditProceeds(t) ==
    \/ nodePushPlan(t) \/ nodePushPlanFails(t) \/ Push(t)
    \/ Commit(t) \/ CommitFails(t) \/ CommitIsLost(t)
    \/ MarkNodeDirty(t) \/ MarkNodeDirtyFails(t)

-----------------------------------------------------------------------------
(* syncOne *)

syncFrame == <<nodeVars, edit, intent, edits, nodeEdits>>

\* Run loads the node row; only an enabled, online node is synced.
SyncBegins ==
    /\ sync.step = "idle"
    /\ link = "up"
    /\ sync' = [NoSync EXCEPT !.step = IF dirty THEN "read" ELSE "fetch",
                              !.at = IF dirty THEN dirtyAt ELSE 0]
    /\ touched' = {t \in Tags : edit[t].step # "idle"}
    /\ UNCHANGED <<syncFrame, central, remote, why, fails>>

ReconcileReads ==
    /\ sync.step = "read"
    /\ sync' = [sync EXCEPT !.step = "list", !.rows = central]
    /\ UNCHANGED <<syncFrame, central, remote, touched, why, fails>>

\* ListRemoteTags; every central row is pushed before a leftover is deleted.
ReconcileLists ==
    /\ sync.step = "list"
    /\ sync' = [sync EXCEPT !.step = "replay",
                            !.todo = {t \in Tags : sync.rows[t] # Absent \/ remote[t] # Absent}]
    /\ UNCHANGED <<syncFrame, central, remote, touched, why, fails>>

IsNext(t) ==
    /\ sync.step = "replay"
    /\ t \in sync.todo
    /\ sync.rows[t] = Absent => \A u \in sync.todo : sync.rows[u] = Absent

ReplayOf(t) ==
    /\ IsNext(t)
    /\ ~portTaken(remote, t, sync.rows[t])
    /\ remote' = [remote EXCEPT ![t] = sync.rows[t]]
    /\ IF t \in touched THEN Blame({t}, "race") ELSE UNCHANGED why

ReconcileReplays(t) ==
    /\ ReplayOf(t)
    /\ sync' = [sync EXCEPT !.todo = @ \ {t}]
    /\ UNCHANGED <<syncFrame, central, touched, fails>>

\* The node still has the port under another tag, one that is to be pushed later
\* or deleted last: the run ends, and the next one starts over.
ReconcileRefused(t) ==
    /\ IsNext(t)
    /\ portTaken(remote, t, sync.rows[t])
    /\ sync' = NoSync
    /\ touched' = {}
    /\ UNCHANGED <<syncFrame, central, remote, why, fails>>

\* Mutant: ClearNodeDirty does not compare the time stamp.
ClearNodeDirtyAlways ==
    /\ sync.step = "replay" /\ sync.todo = {}
    /\ dirty' = FALSE
    /\ sync' = [NoSync EXCEPT !.step = "fetch"]
    /\ UNCHANGED <<central, remote, link, dirtyAt, clock, edit, histVars, boundVars>>

\* The compare-and-swap on config_dirty_at.  If it fails the run goes on.
ClearNodeDirty ==
    /\ sync.step = "replay" /\ sync.todo = {}
    /\ \/ dirty' = (dirty /\ dirtyAt # sync.at) /\ UNCHANGED fails
       \/ Fails /\ UNCHANGED dirty
    /\ sync' = [NoSync EXCEPT !.step = "fetch"]
    /\ UNCHANGED <<central, remote, link, dirtyAt, clock, edit, histVars, edits, nodeEdits>>

FetchTrafficSnapshot ==
    /\ sync.step = "fetch"
    /\ sync' = [sync EXCEPT !.step = "flag", !.snap = remote]
    /\ UNCHANGED <<syncFrame, central, remote, touched, why, fails>>

\* The error is dropped, and a flag that could not be read counts as clean.
NodeSyncState ==
    /\ sync.step = "flag"
    /\ \/ /\ sync' = [sync EXCEPT !.step = "merge", !.dirty = dirty]
          /\ UNCHANGED <<touched, fails>>
       \/ /\ Fails
          /\ sync' = [sync EXCEPT !.step = "merge", !.dirty = FALSE]
          /\ touched' = Tags
    /\ UNCHANGED <<syncFrame, central, remote, why>>

\* Mutant: central rows the snapshot does not have are kept.
MergedKeepsOrphans ==
    IF sync.dirty THEN central
    ELSE [t \in Tags |-> IF sync.snap[t] = Absent THEN central[t] ELSE sync.snap[t]]

\* Mutant: the merge does not look at the flag.
MergedIgnoresDirty == sync.snap

\* A clean merge takes over the snapshot: changed columns, unknown tags, and
\* the removal of rows the node does not have.
Merged == IF sync.dirty THEN central ELSE sync.snap

setRemoteTrafficLocked ==
    /\ sync.step = "merge"
    /\ central' = Merged
    /\ Blame({t \in touched : Merged[t] # central[t]}, "race")
    /\ sync' = NoSync
    /\ touched' = {}
    /\ UNCHANGED <<syncFrame, remote, fails>>

\* A failed call ends the run; a failed replay may have had its effect.
SyncFails ==
    /\ sync.step \in {"read", "list", "replay", "fetch", "merge"}
    /\ Fails
    /\ \/ UNCHANGED <<remote, why>>
       \/ \E t \in Tags : ReplayOf(t)
    /\ sync.step = "replay" => sync.todo # {}
    /\ sync' = NoSync
    /\ touched' = {}
    /\ UNCHANGED <<syncFrame, central>>

SyncProceeds ==
    \/ ReconcileReads \/ ReconcileLists
    \/ \E t \in Tags : ReconcileReplays(t) \/ ReconcileRefused(t)
    \/ ClearNodeDirty \/ FetchTrafficSnapshot \/ NodeSyncState
    \/ setRemoteTrafficLocked

-----------------------------------------------------------------------------
(* The node and its heartbeat *)

envFrame == <<central, dirty, dirtyAt, edit, sync, intent, touched, edits>>

\* A probe succeeds, or the administrator enables the node again.
LinkUp ==
    /\ link # "up"
    /\ link' = "up"
    /\ UNCHANGED <<envFrame, remote, clock, why, nodeEdits, fails>>

LinkDown ==
    /\ link # "down"
    /\ Fails
    /\ link' = "down"
    /\ UNCHANGED <<envFrame, remote, clock, why, nodeEdits>>

\* An edit on the node's own panel; the central panel adopts it by a merge.
NodeEdits(t) ==
    /\ nodeEdits < MaxNodeEdits /\ edits + nodeEdits < MaxEdits
    /\ nodeEdits' = nodeEdits + 1
    /\ \E r \in Rows \ {remote[t]} :
        ~portTaken(remote, t, r) /\ remote' = [remote EXCEPT ![t] = r]
    /\ Blame({t}, "race")
    /\ UNCHANGED <<envFrame, link, clock, fails>>

Tick ==
    /\ clock < MaxClock
    /\ clock' = clock + 1
    /\ UNCHANGED <<envFrame, remote, link, why, nodeEdits, fails>>

Next ==
    \/ \E t \in Tags : EditBegins(t) \/ EditProceeds(t) \/ NodeEdits(t)
    \/ SyncBegins \/ SyncProceeds \/ SyncFails
    \/ LinkUp \/ LinkDown \/ Tick

Spec == Init /\ [][Next]_vars

\* Cron runs the sync job for ever, its goroutine and the edits' requests go on,
\* and a node that is down is some day reachable and enabled again.
FairSpec ==
    /\ Spec
    /\ WF_vars(SyncBegins) /\ WF_vars(SyncProceeds) /\ WF_vars(LinkUp)
    /\ \A t \in Tags : WF_vars(EditProceeds(t))

-----------------------------------------------------------------------------
(* Properties *)

\* Every variable keeps its type and no mark lies in the future.
TypeOK ==
    /\ central \in [Tags -> Rows] /\ remote \in [Tags -> Rows]
    /\ link \in {"up", "down", "unknown"}
    /\ dirty \in BOOLEAN /\ dirtyAt \in 0..clock
    /\ clock \in 0..MaxClock
    /\ edit \in [Tags -> [op : {"none", "add", "del", "update", "toggle"},
                          step : {"idle", "plan", "push", "commit", "mark"},
                          to : Rows, want : BOOLEAN]]
    /\ sync \in [step : {"idle", "read", "list", "replay", "fetch", "flag", "merge"},
                 at : 0..MaxClock, rows : [Tags -> Rows],
                 todo : SUBSET Tags, snap : [Tags -> Rows], dirty : BOOLEAN]
    /\ intent \in [Tags -> Rows]
    /\ touched \subseteq Tags
    /\ why \in [Tags -> {"none", "race", "disable", "hidden"}]
    /\ edits \in 0..MaxEdits /\ nodeEdits \in 0..MaxNodeEdits /\ fails \in 0..MaxFails

Settled(t) == edit[t].step = "idle"

\* The central row keeps what the last edit made of it, whatever calls fail and
\* however the edit interleaves with a reconcile, unless the edit met one of the
\* recorded cases: it ran unprotected during a sync, a lost delete, a delete whose
\* row could not be loaded, a commit that failed (seen or not) or a mark that failed
\* after the push, a flag the sync could not read, an edit on the node, or an
\* inbound saved disabled.
EditSurvives ==
    \A t \in Tags : (Settled(t) /\ why[t] = "none") => central[t] = intent[t]

\* A node that is not marked dirty has the central rows (outside those cases):
\* whatever could not be pushed is still marked until a reconcile has replayed it.
CleanMeansMirrored ==
    \A t \in Tags :
        (Settled(t) /\ why[t] = "none" /\ ~dirty) => remote[t] = central[t]

\* While the node is config-dirty the traffic pull does not overwrite the central
\* rows from the node's snapshot.
DirtyNodeKeepsRows ==
    [][(setRemoteTrafficLocked /\ dirty) => central' = central]_vars

\* An inbound disabled through the edit form keeps its central row.
DisabledInboundKept ==
    \A t \in Tags :
        (Settled(t) /\ why[t] \in {"none", "disable"} /\ intent[t] # Absent)
            => central[t] # Absent

\* A reconcile pushes every central row before it deletes what the node has more,
\* so the node refuses a row whose port another tag there still holds.
PortBlocked == \E t \in Tags : portTaken(remote, t, central[t])

\* Once edits and failures stop, the two panels agree for ever, unless the node
\* keeps refusing a central row for its port.
NodeConverges == <>[](central = remote \/ PortBlocked)
=============================================================================
