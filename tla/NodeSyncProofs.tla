---------------------------- MODULE NodeSyncProofs ----------------------------
(***************************************************************************)
(* Safety of the node configuration sync for any inbounds, any settings,   *)
(* any number of edits on either panel, and any bounds on the failures and *)
(* the clock.                                                              *)
(***************************************************************************)
EXTENDS NodeSync, TLAPS

\* A dirty flag is only taken down by the run that replayed the rows; a run
\* knows a mark that is not later than the clock; while it lasts, every inbound
\* with an edit in flight counts as touched.
SyncInv ==
    /\ sync.at <= clock
    /\ Reconciling => dirty
    /\ sync.step # "idle" => \A t \in Tags : edit[t].step # "idle" => t \in touched

\* A toggle has written its row already; an edit about to commit has pushed its
\* row, or remembers that it has not, or is an inbound the node never sees.
EditOk(t) ==
    /\ edit[t].op = "toggle" => edit[t].step \notin {"idle", "commit"}
    /\ edit[t].op = "del" => edit[t].to = Absent
    /\ edit[t].op = "toggle" /\ why[t] = "none" => central[t] = edit[t].to
    /\ edit[t].step = "commit" /\ why[t] = "none" =>
        \/ edit[t].want
        \/ edit[t].op = "add" /\ ~edit[t].to.on
        \/ remote[t] = edit[t].to

\* The node differs from the central row and no edit in flight is going to tell.
Owed(t) ==
    /\ edit[t].step \in {"idle", "plan", "push"}
    /\ edit[t].op # "toggle"
    /\ remote[t] # central[t]

\* The node was marked after this run read the flag, so ClearNodeDirty will not
\* clear it.
Late == dirty /\ dirtyAt > sync.at

\* What a row that nothing recorded has happened to can rely on in each step of
\* a run: the rows read are the central ones, what is replayed is settled, and a
\* snapshot taken of a clean node is the central rows.
RowInv(t) ==
    /\ Owed(t) => dirty
    /\ sync.step \in {"list", "replay"} /\ t \notin touched =>
        sync.rows[t] = central[t] \/ Late
    /\ sync.step = "list" /\ sync.rows[t] = Absent /\ remote[t] = Absent =>
        ~Owed(t) \/ Late
    /\ sync.step = "replay" /\ t \notin sync.todo => ~Owed(t) \/ Late
    /\ sync.step = "flag" /\ ~dirty /\ t \notin touched => sync.snap[t] = central[t]
    /\ sync.step = "merge" /\ ~sync.dirty /\ t \notin touched => sync.snap[t] = central[t]
    /\ central[t] = intent[t]

IInv == TypeOK /\ SyncInv /\ \A t \in Tags : EditOk(t) /\ (why[t] = "none" => RowInv(t))

EditType == [op : {"none", "add", "del", "update", "toggle"},
             step : {"idle", "plan", "push", "commit", "mark"},
             to : Rows, want : BOOLEAN]
SyncType == [step : {"idle", "read", "list", "replay", "fetch", "flag", "merge"},
             at : 0..MaxClock, rows : [Tags -> Rows],
             todo : SUBSET Tags, snap : [Tags -> Rows], dirty : BOOLEAN]
WhyType == {"none", "race", "disable", "hidden"}

-----------------------------------------------------------------------------
(* What the shared operators do *)

LEMMA Bounds == MaxEdits \in Nat /\ MaxNodeEdits \in Nat /\ MaxFails \in Nat /\ MaxClock \in Nat
    BY BoundAssumption

\* Blaming some inbounds keeps the types, and an inbound that is still clear of
\* blame was so before and is not one of them.
LEMMA BlameSays ==
    ASSUME NEW S, NEW reason \in WhyType \ {"none"}, why \in [Tags -> WhyType], Blame(S, reason)
    PROVE  /\ why' \in [Tags -> WhyType]
           /\ \A t \in Tags : why'[t] = "none" => why[t] = "none" /\ t \notin S
           /\ \A t \in Tags : t \notin S => why'[t] = why[t]
    BY DEF Blame, WhyType

\* One failure more, within the bound.
LEMMA FailsSays == TypeOK /\ Fails => fails' \in 0..MaxFails
    BY Bounds DEF TypeOK, Fails

LEMMA AfterPushType ==
    ASSUME NEW e \in EditType, NEW want \in BOOLEAN
    PROVE  AfterPush(e, want) \in EditType
<1>1. CASE e.op # "toggle"
    <2>1. AfterPush(e, want) = [e EXCEPT !.step = "commit", !.want = want]
        BY <1>1, Zenon DEF AfterPush
    <2> QED
        BY <2>1 DEF EditType
<1>2. CASE e.op = "toggle" /\ want
    <2>1. AfterPush(e, want) = [e EXCEPT !.step = "mark"]
        BY <1>2, Zenon DEF AfterPush
    <2> QED
        BY <2>1 DEF EditType
<1>3. CASE e.op = "toggle" /\ ~want
    <2>1. AfterPush(e, want) = NoEdit
        BY <1>3, Zenon DEF AfterPush
    <2> QED
        BY <2>1 DEF EditType, NoEdit, Rows
<1> QED
    BY <1>1, <1>2, <1>3

\* After a push that did not work an edit commits and remembers, or, when its row
\* is written already, marks the node; after one that did, it commits or is over.
LEMMA AfterPushOwes ==
    ASSUME NEW e \in EditType, NEW f, f = AfterPush(e, TRUE)
    PROVE  /\ f.op = e.op /\ f.to = e.to
           /\ e.op # "toggle" => f.step = "commit" /\ f.want
           /\ e.op = "toggle" => f.step = "mark"
<1>1. CASE e.op # "toggle"
    <2>1. AfterPush(e, TRUE) = [e EXCEPT !.step = "commit", !.want = TRUE]
        BY <1>1, Zenon DEF AfterPush
    <2> QED
        BY <1>1, <2>1 DEF EditType
<1>2. CASE e.op = "toggle"
    <2>1. AfterPush(e, TRUE) = [e EXCEPT !.step = "mark"]
        BY <1>2, Zenon DEF AfterPush
    <2> QED
        BY <1>2, <2>1 DEF EditType
<1> QED
    BY <1>1, <1>2

LEMMA AfterPushDone ==
    ASSUME NEW e \in EditType, NEW f, f = AfterPush(e, FALSE)
    PROVE  /\ e.op # "toggle" => f.op = e.op /\ f.to = e.to /\ f.step = "commit"
           /\ e.op = "toggle" => f = NoEdit
<1>1. CASE e.op # "toggle"
    <2>1. AfterPush(e, FALSE) = [e EXCEPT !.step = "commit", !.want = FALSE]
        BY <1>1, Zenon DEF AfterPush
    <2> QED
        BY <1>1, <2>1 DEF EditType
<1>2. CASE e.op = "toggle"
    <2>1. AfterPush(e, FALSE) = NoEdit
        BY <1>2, Zenon DEF AfterPush
    <2> QED
        BY <1>2, <2>1
<1> QED
    BY <1>1, <1>2

LEMMA Idles == /\ NoEdit \in EditType /\ NoEdit.step = "idle" /\ NoEdit.op = "none"
               /\ NoSync \in SyncType /\ NoSync.step = "idle" /\ NoSync.at = 0
<1>1. NoEdit \in EditType /\ NoEdit.step = "idle" /\ NoEdit.op = "none"
    BY DEF NoEdit, EditType, Rows
<1>2. [t \in Tags |-> Absent] \in [Tags -> Rows] /\ 0 \in 0..MaxClock
    BY Bounds DEF Rows
<1> QED
    BY <1>1, <1>2 DEF NoSync, SyncType

-----------------------------------------------------------------------------
(* What an edit of one inbound changes *)

EditStepOf(t) == EditBegins(t) \/ EditProceeds(t)

\* An edit changes the rows, the edit and the history of its own inbound; it
\* may mark the node, never clear it.
EditChanges(t) ==
    /\ \E c \in Rows : central' = [central EXCEPT ![t] = c]
    /\ \E c \in Rows : remote' = [remote EXCEPT ![t] = c]
    /\ \E c \in Rows : intent' = [intent EXCEPT ![t] = c]
    /\ \E f \in EditType : edit' = [edit EXCEPT ![t] = f]
    /\ why' \in [Tags -> WhyType]
    /\ \A s \in Tags : why'[s] = "none" => why[s] = "none"
    /\ \A s \in Tags \ {t} : why'[s] = why[s]
    /\ touched' \subseteq Tags
    /\ \A s \in Tags \ {t} : s \in touched <=> s \in touched'
    /\ UNCHANGED <<sync, clock, link, nodeEdits>>
    /\ \/ UNCHANGED <<dirty, dirtyAt>>
       \/ dirty' = TRUE /\ dirtyAt' = clock
    /\ fails' \in 0..MaxFails /\ edits' \in 0..MaxEdits

LEMMA EditChange ==
    ASSUME TypeOK, NEW t \in Tags, EditStepOf(t)
    PROVE  EditChanges(t)
<1> DEFINE e == edit[t]
<1>1. /\ central \in [Tags -> Rows] /\ remote \in [Tags -> Rows] /\ intent \in [Tags -> Rows]
      /\ edit \in [Tags -> EditType] /\ why \in [Tags -> WhyType] /\ touched \subseteq Tags
      /\ fails \in 0..MaxFails /\ edits \in 0..MaxEdits
    BY DEF TypeOK, EditType, WhyType
<1>2. /\ central[t] \in Rows /\ remote[t] \in Rows /\ intent[t] \in Rows /\ e \in EditType
      /\ central = [central EXCEPT ![t] = central[t]]
      /\ remote = [remote EXCEPT ![t] = remote[t]]
      /\ intent = [intent EXCEPT ![t] = intent[t]]
    BY <1>1
<1>3. e.to \in Rows /\ e.want \in BOOLEAN /\ Absent \in Rows
    BY <1>2 DEF EditType, Rows
<1>4. ASSUME Touch(t)
      PROVE  touched' \subseteq Tags /\ \A s \in Tags \ {t} : s \in touched <=> s \in touched'
    BY <1>1, <1>4 DEF Touch
<1>5. ASSUME NEW reason \in WhyType \ {"none"}, Blame({t}, reason) \/ UNCHANGED why
      PROVE  /\ why' \in [Tags -> WhyType]
             /\ \A s \in Tags : why'[s] = "none" => why[s] = "none"
             /\ \A s \in Tags \ {t} : why'[s] = why[s]
    BY <1>1, <1>5, BlameSays
<1>6. "race" \in WhyType \ {"none"} /\ "disable" \in WhyType \ {"none"} /\ "hidden" \in WhyType \ {"none"}
    BY DEF WhyType
<1> USE DEF EditChanges
<1>7. ASSUME NEW op \in {"add", "del", "update", "toggle"}, NEW to \in Rows,
             NEW step \in {"plan", "commit"}, Begin(t, op, to, step),
             UNCHANGED <<why, fails>> \/ (Fails /\ Blame({t}, "race")),
             \/ UNCHANGED <<central, intent>>
             \/ central' = [central EXCEPT ![t] = to] /\ intent' = [intent EXCEPT ![t] = to]
      PROVE  EditChanges(t)
    <2>1. [op |-> op, step |-> step, to |-> to, want |-> FALSE] \in EditType
        BY DEF EditType
    <2>2. edits' \in 0..MaxEdits
        <3>1. nodeEdits \in Nat /\ edits \in Nat /\ edits + nodeEdits < MaxEdits /\ edits' = edits + 1
            BY <1>7 DEF Begin, TypeOK
        <3> QED
            BY <3>1, Bounds
    <2>5. fails' \in 0..MaxFails
        BY <1>1, <1>7, FailsSays
    <2>3. /\ Touch(t) /\ UNCHANGED <<remote, sync, clock, link, dirty, dirtyAt, nodeEdits>>
          /\ \E f \in EditType : edit' = [edit EXCEPT ![t] = f]
        BY <1>7, <2>1 DEF Begin, nodeVars
    <2>4. /\ \E c \in Rows : central' = [central EXCEPT ![t] = c]
          /\ \E c \in Rows : intent' = [intent EXCEPT ![t] = c]
          /\ \E c \in Rows : remote' = [remote EXCEPT ![t] = c]
        BY <1>2, <1>7, <2>3
    <2> QED
        BY <1>1, <1>4, <1>5, <1>6, <1>7, <2>2, <2>3, <2>4, <2>5
<1>8. Configs \subseteq Rows
    BY DEF Rows
<1>9. CASE AddInbound(t) \/ UpdateInbound(t)
    <2>1. PICK c \in Configs, op \in {"add", "update"}, step \in {"plan", "commit"} : Begin(t, op, c, step)
        BY <1>9 DEF AddInbound, UpdateInbound
    <2>2. UNCHANGED <<central, intent, why, fails>>
        BY <1>9 DEF AddInbound, UpdateInbound
    <2> QED
        BY <1>7, <1>8, <2>1, <2>2
<1>10. CASE DelInbound(t) \/ DelInboundUnloaded(t)
    BY <1>3, <1>7, <1>10 DEF DelInbound, DelInboundUnloaded
<1>11. CASE SetInboundEnable(t)
    <2> DEFINE c == [central[t] EXCEPT !.on = ~@]
    <2>1. c \in Rows
        BY <1>2, <1>11 DEF SetInboundEnable, Rows, Configs
    <2>2. /\ Begin(t, "toggle", c, "plan") /\ central' = [central EXCEPT ![t] = c]
          /\ intent' = [intent EXCEPT ![t] = c] /\ UNCHANGED <<why, fails>>
        BY <1>11 DEF SetInboundEnable
    <2> HIDE DEF c
    <2> QED
        BY <1>7, <2>1, <2>2
<1>12. ASSUME NEW f \in EditType, edit' = [edit EXCEPT ![t] = f], UNCHANGED editFrame,
              fails' \in 0..MaxFails, Touch(t) \/ UNCHANGED touched,
              NEW reason \in WhyType \ {"none"}, Blame({t}, reason) \/ UNCHANGED why,
              NEW r \in Rows, remote' = [remote EXCEPT ![t] = r],
              NEW c \in Rows, central' = [central EXCEPT ![t] = c],
              NEW i \in Rows, intent' = [intent EXCEPT ![t] = i]
       PROVE  EditChanges(t)
    <2>1. touched' \subseteq Tags /\ \A s \in Tags \ {t} : s \in touched <=> s \in touched'
        BY <1>1, <1>4, <1>12
    <2>2. UNCHANGED <<sync, clock, link, dirty, dirtyAt, nodeEdits, edits>>
        BY <1>12 DEF editFrame, nodeVars
    <2> QED
        BY <1>1, <1>5, <1>12, <2>1, <2>2
<1>13. ASSUME NEW want \in BOOLEAN
       PROVE  AfterPush(e, want) \in EditType
    BY <1>2, AfterPushType
<1>14. CASE nodePushPlan(t)
    <2>1. \E f \in EditType : edit' = [edit EXCEPT ![t] = f]
        <3>1. CASE GoesOn(t, TRUE)
            BY <1>13, <3>1 DEF GoesOn
        <3>2. CASE edit' = [edit EXCEPT ![t].step = "push"]
            <4>1. edit' = [edit EXCEPT ![t] = [e EXCEPT !.step = "push"]]
                BY <3>2
            <4>2. [e EXCEPT !.step = "push"] \in EditType
                BY <1>2 DEF EditType
            <4> QED
                BY <4>1, <4>2
        <3> QED
            BY <1>14, <3>1, <3>2 DEF nodePushPlan
    <2> QED
        BY <1>2, <1>6, <1>12, <1>14, <2>1, FailsSays DEF nodePushPlan, TypeOK
<1>15. CASE nodePushPlanFails(t)
    <2>1. \E f \in EditType : edit' = [edit EXCEPT ![t] = f]
        BY <1>13, <1>15, Idles DEF nodePushPlanFails
    <2> QED
        BY <1>2, <1>6, <1>12, <1>15, <2>1, FailsSays DEF nodePushPlanFails
<1>16. CASE Push(t)
    <2>1. \E f \in EditType : edit' = [edit EXCEPT ![t] = f]
        BY <1>13, <1>16 DEF Push, PushSucceeds, PushRefused, PushFails, PushDeleteSkipped, GoesOn
    <2>2. \E r \in Rows : remote' = [remote EXCEPT ![t] = r]
        <3>1. Effect(t) => \E r \in Rows : remote' = [remote EXCEPT ![t] = r]
            BY <1>3 DEF Effect
        <3> QED
            BY <1>2, <1>16, <3>1 DEF Push, PushSucceeds, PushRefused, PushFails, PushDeleteSkipped
    <2>3. fails' \in 0..MaxFails
        BY <1>1, <1>16, FailsSays DEF Push, PushSucceeds, PushRefused, PushFails, PushDeleteSkipped
    <2>4. \E reason \in WhyType \ {"none"} : Blame({t}, reason) \/ UNCHANGED why
        BY <1>6, <1>16 DEF Push, PushSucceeds, PushRefused, PushFails, PushDeleteSkipped
    <2>5. UNCHANGED <<central, intent>> /\ UNCHANGED editFrame /\ Touch(t)
        BY <1>16 DEF Push
    <2> QED
        BY <1>2, <1>12, <2>1, <2>2, <2>3, <2>4, <2>5
<1>17. CASE Commit(t)
    <2>1. \E f \in EditType : edit' = [edit EXCEPT ![t] = f]
        <3>1. [e EXCEPT !.step = "mark"] \in EditType
            BY <1>2 DEF EditType
        <3> QED
            BY <1>17, <3>1, Idles DEF Commit
    <2>2. \E reason \in WhyType \ {"none"} : Blame({t}, reason) \/ UNCHANGED why
        BY <1>6, <1>17 DEF Commit
    <2> QED
        BY <1>1, <1>2, <1>3, <1>12, <1>17, <2>1, <2>2 DEF Commit
<1>20. CASE CommitIsLost(t)
    <2>1. \E f \in EditType : edit' = [edit EXCEPT ![t] = f]
        <3>1. [e EXCEPT !.step = "mark"] \in EditType
            BY <1>2 DEF EditType
        <3> QED
            BY <1>20, <3>1, Idles DEF CommitIsLost
    <2> QED
        BY <1>1, <1>2, <1>3, <1>6, <1>12, <1>20, <2>1, FailsSays DEF CommitIsLost
<1>18. CASE CommitFails(t) \/ MarkNodeDirtyFails(t)
    BY <1>2, <1>6, <1>12, <1>18, Idles, FailsSays DEF CommitFails, MarkNodeDirtyFails
<1>19. CASE MarkNodeDirty(t)
    <2>1. touched' \subseteq Tags /\ \A s \in Tags \ {t} : s \in touched <=> s \in touched'
        BY <1>1, <1>19 DEF MarkNodeDirty
    <2>2. UNCHANGED <<sync, clock, link, central, remote, intent, edits, nodeEdits, fails>>
        BY <1>19 DEF MarkNodeDirty, boundVars
    <2>3. Blame({t}, "race") \/ UNCHANGED why
        BY <1>19 DEF MarkNodeDirty
    <2>4. /\ edit' = [edit EXCEPT ![t] = NoEdit] /\ dirty' = TRUE /\ dirtyAt' = clock
        BY <1>19 DEF MarkNodeDirty
    <2> QED
        BY <1>1, <1>2, <1>5, <1>6, <2>1, <2>2, <2>3, <2>4, Idles
<1> QED
    BY <1>9, <1>10, <1>11, <1>14, <1>15, <1>16, <1>17, <1>18, <1>19, <1>20
    DEF EditStepOf, EditBegins, EditProceeds

-----------------------------------------------------------------------------
(* Types *)

LEMMA InitIInv == Init => IInv
<1> SUFFICES ASSUME Init PROVE IInv
    OBVIOUS
<1>1. TypeOK
    <2>1. edit \in [Tags -> EditType] /\ sync \in SyncType
        BY Idles DEF Init
    <2>2. dirtyAt \in 0..clock /\ clock \in 0..MaxClock
        BY Bounds DEF Init
    <2>3. edits \in 0..MaxEdits /\ nodeEdits \in 0..MaxNodeEdits /\ fails \in 0..MaxFails
        BY Bounds DEF Init
    <2> QED
        BY <2>1, <2>2, <2>3 DEF Init, TypeOK, EditType, SyncType
<1>2. /\ sync.step = "idle" /\ sync.at = 0 /\ clock = 0
      /\ \A t \in Tags : edit[t].step = "idle" /\ edit[t].op = "none"
    BY Idles DEF Init
<1>3. SyncInv
    BY <1>2 DEF SyncInv, Reconciling
<1>4. \A t \in Tags : EditOk(t)
    BY <1>2 DEF EditOk
<1>5. \A t \in Tags : RowInv(t)
    BY <1>2 DEF Init, RowInv, Owed
<1> QED
    BY <1>1, <1>3, <1>4, <1>5 DEF IInv

\* The steps of a run keep the types; what they leave of the run is typed too.
LEMMA SyncTypes ==
    ASSUME TypeOK, SyncBegins \/ SyncProceeds \/ SyncFails
    PROVE  TypeOK'
<1>1. /\ central \in [Tags -> Rows] /\ remote \in [Tags -> Rows] /\ why \in [Tags -> WhyType]
      /\ touched \subseteq Tags /\ sync \in SyncType /\ fails \in 0..MaxFails
      /\ dirty \in BOOLEAN /\ dirtyAt \in 0..MaxClock
    <2>1. dirtyAt \in 0..clock /\ clock \in 0..MaxClock
        BY DEF TypeOK
    <2>2. dirtyAt \in 0..MaxClock
        BY <2>1, Bounds
    <2> QED
        BY <2>2 DEF TypeOK, WhyType, SyncType
<1>2. /\ sync.rows \in [Tags -> Rows] /\ sync.snap \in [Tags -> Rows] /\ sync.todo \subseteq Tags
      /\ sync.dirty \in BOOLEAN
    BY <1>1 DEF SyncType
<1>3. ASSUME central' \in [Tags -> Rows], remote' \in [Tags -> Rows], why' \in [Tags -> WhyType],
             touched' \subseteq Tags, sync' \in SyncType, fails' \in 0..MaxFails, dirty' \in BOOLEAN,
             UNCHANGED <<link, dirtyAt, clock, edit, intent, edits, nodeEdits>>
      PROVE TypeOK'
    BY <1>3 DEF TypeOK, WhyType, SyncType
<1>4. UNCHANGED syncFrame => UNCHANGED <<link, dirty, dirtyAt, clock, edit, intent, edits, nodeEdits>>
    BY DEF syncFrame, nodeVars
<1>5. ASSUME NEW t \in Tags, ReplayOf(t)
      PROVE  remote' \in [Tags -> Rows] /\ why' \in [Tags -> WhyType]
    <2>1. remote' \in [Tags -> Rows]
        BY <1>1, <1>2, <1>5 DEF ReplayOf
    <2>2. "race" \in WhyType \ {"none"} /\ (Blame({t}, "race") \/ UNCHANGED why)
        BY <1>5 DEF ReplayOf, WhyType
    <2>3. why' \in [Tags -> WhyType]
        BY <1>1, <2>2, BlameSays
    <2> QED
        BY <2>1, <2>3
<1>6. CASE SyncBegins
    <2>1. sync' \in SyncType
        BY <1>1, <1>6, Idles DEF SyncBegins, SyncType
    <2> QED
        BY <1>1, <1>3, <1>4, <1>6, <2>1 DEF SyncBegins
<1>7. CASE ReconcileReads \/ ReconcileLists \/ FetchTrafficSnapshot
    <2>1. sync' \in SyncType
        <3>1. CASE ReconcileReads
            BY <1>1, <3>1 DEF ReconcileReads, SyncType
        <3>2. CASE ReconcileLists
            BY <1>1, <3>2 DEF ReconcileLists, SyncType
        <3>3. CASE FetchTrafficSnapshot
            BY <1>1, <3>3 DEF FetchTrafficSnapshot, SyncType
        <3> QED
            BY <1>7, <3>1, <3>2, <3>3
    <2> QED
        BY <1>1, <1>3, <1>4, <1>7, <2>1 DEF ReconcileReads, ReconcileLists, FetchTrafficSnapshot
<1>8. ASSUME NEW t \in Tags, ReconcileReplays(t)
      PROVE  TypeOK'
    <2>1. sync' \in SyncType
        BY <1>1, <1>8 DEF ReconcileReplays, SyncType
    <2> QED
        BY <1>1, <1>3, <1>4, <1>5, <1>8, <2>1 DEF ReconcileReplays
<1>9. CASE ClearNodeDirty
    <2>1. sync' \in SyncType
        BY <1>1, <1>9, Idles DEF ClearNodeDirty, SyncType
    <2>2. dirty' \in BOOLEAN /\ fails' \in 0..MaxFails
        BY <1>1, <1>9, FailsSays DEF ClearNodeDirty
    <2> QED
        BY <1>1, <1>3, <1>9, <2>1, <2>2 DEF ClearNodeDirty, histVars
<1>10. CASE NodeSyncState
    <2>1. sync' \in SyncType
        BY <1>1, <1>10 DEF NodeSyncState, SyncType
    <2>2. touched' \subseteq Tags /\ fails' \in 0..MaxFails
        BY <1>1, <1>10, FailsSays DEF NodeSyncState
    <2> QED
        BY <1>1, <1>3, <1>4, <1>10, <2>1, <2>2 DEF NodeSyncState
<1>11. CASE setRemoteTrafficLocked
    <2>1. central' \in [Tags -> Rows]
        BY <1>1, <1>2, <1>11 DEF setRemoteTrafficLocked, Merged
    <2>2. why' \in [Tags -> WhyType]
        <3>1. "race" \in WhyType \ {"none"}
            BY DEF WhyType
        <3> QED
            BY <1>1, <1>11, <3>1, BlameSays DEF setRemoteTrafficLocked
    <2> QED
        BY <1>1, <1>3, <1>4, <1>11, <2>1, <2>2, Idles DEF setRemoteTrafficLocked
<1>12. CASE SyncFails
    <2>1. remote' \in [Tags -> Rows] /\ why' \in [Tags -> WhyType]
        BY <1>1, <1>5, <1>12 DEF SyncFails
    <2> QED
        BY <1>1, <1>3, <1>4, <1>12, <2>1, Idles, FailsSays DEF SyncFails
<1>13. ASSUME NEW t \in Tags, ReconcileRefused(t)
       PROVE  TypeOK'
    BY <1>1, <1>3, <1>4, <1>13, Idles DEF ReconcileRefused
<1> QED
    BY <1>6, <1>7, <1>8, <1>9, <1>10, <1>11, <1>12, <1>13 DEF SyncProceeds

LEMMA TypeStep == TypeOK /\ [Next]_vars => TypeOK'
<1> SUFFICES ASSUME TypeOK, [Next]_vars PROVE TypeOK'
    OBVIOUS
<1>1. ASSUME NEW t \in Tags, EditStepOf(t)
      PROVE  TypeOK'
    <2>1. EditChanges(t)
        BY <1>1, EditChange
    <2>2. central' \in [Tags -> Rows] /\ remote' \in [Tags -> Rows] /\ intent' \in [Tags -> Rows]
        BY <2>1 DEF EditChanges, TypeOK
    <2>3. edit' \in [Tags -> EditType]
        <3>1. edit \in [Tags -> EditType] /\ \E f \in EditType : edit' = [edit EXCEPT ![t] = f]
            BY <2>1 DEF EditChanges, TypeOK, EditType
        <3> QED
            BY <3>1
    <2>4. dirty' \in BOOLEAN /\ dirtyAt' \in 0..clock'
        <3>1. dirtyAt \in 0..clock /\ clock \in 0..MaxClock /\ dirty \in BOOLEAN
            BY DEF TypeOK
        <3>2. clock' = clock /\ (UNCHANGED <<dirty, dirtyAt>> \/ (dirty' = TRUE /\ dirtyAt' = clock))
            BY <2>1 DEF EditChanges
        <3>3. CASE UNCHANGED <<dirty, dirtyAt>>
            BY <3>1, <3>2, <3>3
        <3>4. CASE dirty' = TRUE /\ dirtyAt' = clock
            <4>1. dirtyAt' \in 0..clock'
                BY <3>1, <3>2, <3>4, Bounds
            <4> QED
                BY <3>4, <4>1
        <3> QED
            BY <3>2, <3>3, <3>4
    <2> QED
        BY <2>1, <2>2, <2>3, <2>4 DEF EditChanges, TypeOK, EditType, WhyType
<1>2. CASE SyncBegins \/ SyncProceeds \/ SyncFails
    BY <1>2, SyncTypes
<1>3. ASSUME NEW t \in Tags, NodeEdits(t)
      PROVE  TypeOK'
    <2>1. remote' \in [Tags -> Rows] /\ nodeEdits' \in 0..MaxNodeEdits
        BY <1>3, Bounds DEF NodeEdits, TypeOK
    <2>2. why' \in [Tags -> WhyType]
        <3>1. "race" \in WhyType \ {"none"} /\ why \in [Tags -> WhyType] /\ Blame({t}, "race")
            BY <1>3 DEF WhyType, NodeEdits, TypeOK
        <3> QED
            BY <3>1, BlameSays
    <2> QED
        BY <1>3, <2>1, <2>2 DEF NodeEdits, envFrame, TypeOK, WhyType
<1>4. CASE LinkUp \/ LinkDown
    BY <1>4, FailsSays DEF LinkUp, LinkDown, envFrame, TypeOK
<1>5. CASE Tick
    <2>1. dirtyAt' \in 0..clock' /\ clock' \in 0..MaxClock
        BY <1>5, Bounds DEF Tick, envFrame, TypeOK
    <2> QED
        BY <1>5, <2>1 DEF Tick, envFrame, TypeOK
<1>6. CASE UNCHANGED vars
    BY <1>6 DEF vars, nodeVars, histVars, boundVars, TypeOK
<1> QED
    BY <1>1, <1>2, <1>3, <1>4, <1>5, <1>6 DEF Next, EditStepOf

-----------------------------------------------------------------------------
(* The invariant, one inbound at a time *)

\* What the invariant says of one inbound.
Ok(t) == EditOk(t) /\ (why[t] = "none" => RowInv(t))

\* An edit that goes on during a run is touched.
LEMMA EditTouches ==
    ASSUME TypeOK, NEW t \in Tags, EditStepOf(t), sync.step # "idle"
    PROVE  edit'[t].step = "idle" \/ t \in touched'
<1>1. \/ Touch(t)
      \/ edit' = [edit EXCEPT ![t] = NoEdit]
    BY DEF EditStepOf, EditBegins, EditProceeds, AddInbound, DelInbound, DelInboundUnloaded, UpdateInbound,
           SetInboundEnable, Begin, nodePushPlan, nodePushPlanFails, Push, Commit, CommitFails,
           CommitIsLost, MarkNodeDirty, MarkNodeDirtyFails
<1>2. Touch(t) => t \in touched'
    BY DEF Touch
<1>3. edit' = [edit EXCEPT ![t] = NoEdit] => edit'[t].step = "idle"
    BY Idles DEF TypeOK
<1> QED
    BY <1>1, <1>2, <1>3

LEMMA EditSyncInv ==
    ASSUME TypeOK, SyncInv, NEW t \in Tags, EditStepOf(t)
    PROVE  SyncInv'
<1>1. EditChanges(t)
    BY EditChange
<1>2. sync' = sync /\ clock' = clock /\ (dirty => dirty')
    BY <1>1 DEF EditChanges
<1>3. ASSUME sync.step # "idle", NEW s \in Tags, edit'[s].step # "idle"
      PROVE  s \in touched'
    <2>1. CASE s = t
        BY <1>3, <2>1, EditTouches
    <2>2. CASE s # t
        <3>1. edit'[s] = edit[s]
            BY <1>1, <2>2 DEF EditChanges, TypeOK
        <3>2. s \in touched
            BY <1>3, <3>1 DEF SyncInv
        <3> QED
            BY <1>1, <2>2, <3>2 DEF EditChanges
    <2> QED
        BY <2>1, <2>2
<1> QED
    BY <1>2, <1>3 DEF SyncInv, Reconciling

\* An edit leaves the other inbounds alone: it can only mark the node later.
LEMMA OtherOk ==
    ASSUME TypeOK, NEW t \in Tags, EditStepOf(t), NEW s \in Tags \ {t}, Ok(s)
    PROVE  Ok(s)'
<1>1. EditChanges(t)
    BY EditChange
<1>2. /\ central'[s] = central[s] /\ remote'[s] = remote[s] /\ intent'[s] = intent[s]
      /\ edit'[s] = edit[s] /\ why'[s] = why[s] /\ (s \in touched <=> s \in touched')
      /\ sync' = sync
    BY <1>1 DEF EditChanges, TypeOK
<1>3. (dirty => dirty') /\ (Late => Late')
    <2>1. dirtyAt \in 0..clock /\ clock \in 0..MaxClock /\ sync.at \in 0..MaxClock
        BY DEF TypeOK
    <2>2. UNCHANGED <<dirty, dirtyAt>> \/ (dirty' = TRUE /\ dirtyAt' = clock)
        BY <1>1 DEF EditChanges
    <2> QED
        BY <1>2, <2>1, <2>2, Bounds DEF Late
<1>4. EditOk(s)'
    BY <1>2 DEF Ok, EditOk
<1>5. Owed(s)' = Owed(s)
    BY <1>2 DEF Owed
<1>6. why'[s] = "none" => RowInv(s)'
    BY <1>2, <1>3, <1>5 DEF Ok, RowInv
<1> QED
    BY <1>4, <1>6 DEF Ok

\* A step of the edit itself, other than the mark, that is clear of blame: the
\* inbound is touched, so it relies on no read of a run in progress.
LEMMA TouchedOk ==
    ASSUME NEW t \in Tags, RowInv(t), UNCHANGED <<sync, dirty, dirtyAt>>,
           sync.step # "idle" => t \in touched',
           central'[t] = intent'[t],
           Owed(t)' => Owed(t) /\ remote'[t] = remote[t]
    PROVE  RowInv(t)'
    BY DEF RowInv, Late

LEMMA OwnOk ==
    ASSUME TypeOK, TypeOK', SyncInv, NEW t \in Tags, Ok(t), EditStepOf(t), why[t] = "none", why'[t] = "none"
    PROVE  EditOk(t)' /\ RowInv(t)'
<1> DEFINE e == edit[t]
<1>1. /\ central \in [Tags -> Rows] /\ remote \in [Tags -> Rows] /\ intent \in [Tags -> Rows]
      /\ edit \in [Tags -> EditType] /\ why \in [Tags -> WhyType] /\ touched \subseteq Tags
    BY DEF TypeOK, EditType, WhyType
<1>2. /\ e \in EditType /\ e.want \in BOOLEAN
      /\ e.step \in {"idle", "plan", "push", "commit", "mark"}
      /\ e.op \in {"none", "add", "del", "update", "toggle"}
    BY <1>1 DEF EditType
<1>3. EditOk(t) /\ RowInv(t)
    BY DEF Ok
<1>4. EditChanges(t) /\ sync' = sync
    BY EditChange DEF EditChanges
<1>5. "race" \in WhyType \ {"none"} /\ "disable" \in WhyType \ {"none"} /\ "hidden" \in WhyType \ {"none"}
    BY DEF WhyType
<1>6. \A reason \in WhyType \ {"none"} : ~Blame({t}, reason)
    BY <1>1, BlameSays
<1>7. ASSUME NEW f, edit' = [edit EXCEPT ![t] = f]
      PROVE  edit'[t] = f
    BY <1>1, <1>7
<1>8. CASE AddInbound(t) \/ UpdateInbound(t) \/ DelInbound(t)
    <2>1. ASSUME NEW op \in {"add", "update", "del"}, NEW to, NEW step \in {"plan", "commit"},
                 Begin(t, op, to, step), op = "del" => to = Absent,
                 step = "commit" => op = "add" /\ ~to.on
          PROVE  EditOk(t)' /\ RowInv(t)'
        <3>1. UNCHANGED <<central, intent, remote, dirty, dirtyAt>>
            BY <1>8, <2>1 DEF AddInbound, UpdateInbound, DelInbound, Begin, nodeVars
        <3>2. edit'[t] = [op |-> op, step |-> step, to |-> to, want |-> FALSE]
            BY <1>7, <2>1 DEF Begin
        <3>3. e.step = "idle" /\ e.op # "toggle" /\ Touch(t)
            BY <1>3, <2>1 DEF Begin, EditOk
        <3>4. EditOk(t)'
            BY <2>1, <3>2 DEF EditOk
        <3>5. Owed(t)' => Owed(t)
            BY <3>1, <3>3 DEF Owed
        <3>6. sync.step # "idle" => t \in touched'
            BY <3>3 DEF Touch
        <3>7. central'[t] = intent'[t]
            BY <1>3, <3>1 DEF RowInv
        <3> QED
            BY <1>3, <1>4, <3>1, <3>4, <3>5, <3>6, <3>7, TouchedOk
    <2>2. CASE AddInbound(t)
        <3>1. PICK c \in Configs : Begin(t, "add", c, IF c.on THEN "plan" ELSE "commit")
            BY <2>2 DEF AddInbound
        <3>2. CASE c.on
            BY <2>1, <3>1, <3>2
        <3>3. CASE ~c.on
            BY <2>1, <3>1, <3>3
        <3> QED
            BY <3>2, <3>3
    <2>3. CASE DelInbound(t)
        BY <2>1, <2>3 DEF DelInbound
    <2>4. CASE UpdateInbound(t)
        BY <2>1, <2>4 DEF UpdateInbound
    <2> QED
        BY <1>8, <2>2, <2>3, <2>4
<1>9. CASE SetInboundEnable(t)
    <2> DEFINE c == [central[t] EXCEPT !.on = ~@]
    <2>1. /\ Begin(t, "toggle", c, "plan") /\ central' = [central EXCEPT ![t] = c]
          /\ intent' = [intent EXCEPT ![t] = c]
        BY <1>9 DEF SetInboundEnable
    <2> HIDE DEF c
    <2>2. edit'[t] = [op |-> "toggle", step |-> "plan", to |-> c, want |-> FALSE]
        BY <1>7, <2>1 DEF Begin
    <2>3. central'[t] = c /\ intent'[t] = c
        BY <1>1, <2>1
    <2>4. UNCHANGED <<dirty, dirtyAt>> /\ Touch(t)
        BY <2>1 DEF Begin, nodeVars
    <2>5. EditOk(t)'
        BY <2>2, <2>3 DEF EditOk
    <2>6. ~Owed(t)' /\ (sync.step # "idle" => t \in touched')
        BY <2>2, <2>4 DEF Owed, Touch
    <2> QED
        BY <1>3, <1>4, <2>3, <2>4, <2>5, <2>6, TouchedOk
<1>10. editFrame' = editFrame => UNCHANGED <<dirty, dirtyAt>>
    BY DEF editFrame, nodeVars
<1>11. CASE nodePushPlan(t)
    <2>1. UNCHANGED <<central, remote, intent, dirty, dirtyAt>> /\ Touch(t) /\ e.step = "plan"
        BY <1>10, <1>11 DEF nodePushPlan
    <2>2. EditOk(t)' /\ (Owed(t)' => Owed(t))
        <3>1. CASE GoesOn(t, TRUE)
            <4>1. edit'[t] = AfterPush(e, TRUE)
                BY <1>7, <3>1 DEF GoesOn
            <4>2. \/ /\ e.op # "toggle" /\ edit'[t].step = "commit"
                     /\ edit'[t].op = e.op /\ edit'[t].to = e.to /\ edit'[t].want
                  \/ /\ e.op = "toggle" /\ edit'[t].step = "mark"
                     /\ edit'[t].op = e.op /\ edit'[t].to = e.to
                BY <1>2, <4>1, AfterPushOwes
            <4> QED
                BY <1>3, <2>1, <4>2 DEF EditOk, Owed
        <3>2. CASE edit' = [edit EXCEPT ![t].step = "push"]
            <4>1. edit'[t] = [e EXCEPT !.step = "push"]
                BY <1>1, <3>2
            <4>2. edit'[t].step = "push" /\ edit'[t].op = e.op /\ edit'[t].to = e.to
                BY <1>2, <4>1 DEF EditType
            <4> QED
                BY <1>3, <2>1, <4>2 DEF EditOk, Owed
        <3> QED
            BY <1>11, <3>1, <3>2 DEF nodePushPlan
    <2>3. sync.step # "idle" => t \in touched'
        BY <2>1 DEF Touch
    <2>4. central'[t] = intent'[t]
        BY <1>3, <2>1 DEF RowInv
    <2> QED
        BY <1>3, <1>4, <2>1, <2>2, <2>3, <2>4, TouchedOk
<1>12. CASE nodePushPlanFails(t)
    <2>1. /\ UNCHANGED <<central, remote, intent, dirty, dirtyAt>> /\ Touch(t) /\ e.step = "plan"
          /\ e.op # "toggle"
        BY <1>5, <1>6, <1>10, <1>12 DEF nodePushPlanFails
    <2>2. EditOk(t)' /\ (Owed(t)' => Owed(t))
        <3>1. CASE e.op = "del"
            <4>1. edit'[t] = AfterPush(e, TRUE)
                BY <1>7, <1>12, <3>1 DEF nodePushPlanFails
            <4>2. /\ edit'[t].step = "commit"
                  /\ edit'[t].op = e.op /\ edit'[t].to = e.to /\ edit'[t].want
                BY <1>2, <3>1, <4>1, AfterPushOwes
            <4> QED
                BY <1>3, <2>1, <4>2 DEF EditOk, Owed
        <3>2. CASE e.op # "del"
            <4>1. edit'[t] = NoEdit
                BY <1>7, <1>12, <3>2 DEF nodePushPlanFails
            <4> QED
                BY <1>3, <2>1, <4>1, Idles DEF EditOk, Owed
        <3> QED
            BY <3>1, <3>2
    <2>3. sync.step # "idle" => t \in touched'
        BY <2>1 DEF Touch
    <2>4. central'[t] = intent'[t]
        BY <1>3, <2>1 DEF RowInv
    <2> QED
        BY <1>3, <1>4, <2>1, <2>2, <2>3, <2>4, TouchedOk
<1>13. CASE Push(t)
    <2>1. UNCHANGED <<central, intent, dirty, dirtyAt>> /\ Touch(t) /\ e.step = "push"
        BY <1>10, <1>13 DEF Push
    <2>2. \/ GoesOn(t, TRUE)
          \/ /\ GoesOn(t, FALSE) /\ Effect(t)
             /\ ~(e.op = "update" /\ ~e.to.on)
        BY <1>5, <1>6, <1>13 DEF Push, PushSucceeds, PushRefused, PushFails, PushDeleteSkipped
    <2>3. Effect(t) => remote'[t] = IF PushDeletes(e) THEN Absent ELSE e.to
        BY <1>1 DEF Effect
    <2>4. EditOk(t)' /\ ~Owed(t)'
        <3>1. CASE GoesOn(t, TRUE)
            <4>1. edit'[t] = AfterPush(e, TRUE)
                BY <1>7, <3>1 DEF GoesOn
            <4>2. \/ /\ e.op # "toggle" /\ edit'[t].step = "commit"
                     /\ edit'[t].op = e.op /\ edit'[t].to = e.to /\ edit'[t].want
                  \/ /\ e.op = "toggle" /\ edit'[t].step = "mark"
                     /\ edit'[t].op = e.op /\ edit'[t].to = e.to
                BY <1>2, <4>1, AfterPushOwes
            <4> QED
                BY <1>3, <2>1, <4>2 DEF EditOk, Owed
        <3>2. CASE GoesOn(t, FALSE) /\ Effect(t) /\ ~(e.op = "update" /\ ~e.to.on)
            <4>1. edit'[t] = AfterPush(e, FALSE)
                BY <1>7, <3>2 DEF GoesOn
            <4>2. \/ /\ e.op # "toggle" /\ edit'[t].step = "commit"
                     /\ edit'[t].op = e.op /\ edit'[t].to = e.to
                  \/ /\ e.op = "toggle" /\ edit'[t] = NoEdit
                BY <1>2, <4>1, AfterPushDone
            <4>3. remote'[t] = e.to
                BY <1>3, <2>3, <3>2 DEF PushDeletes, EditOk
            <4>4. e.op = "toggle" => central'[t] = e.to
                BY <1>3, <2>1 DEF EditOk
            <4> QED
                BY <1>3, <4>2, <4>3, <4>4, Idles DEF EditOk, Owed
        <3> QED
            BY <2>2, <3>1, <3>2
    <2>5. sync.step # "idle" => t \in touched'
        BY <2>1 DEF Touch
    <2>6. central'[t] = intent'[t]
        BY <1>3, <2>1 DEF RowInv
    <2> QED
        BY <1>3, <1>4, <2>1, <2>4, <2>5, <2>6, TouchedOk
<1>14. CASE Commit(t)
    <2>1. /\ UNCHANGED <<remote, dirty, dirtyAt>> /\ Touch(t) /\ e.step = "commit"
          /\ central' = [central EXCEPT ![t] = e.to] /\ intent' = [intent EXCEPT ![t] = e.to]
          /\ ~(e.op = "add" /\ ~e.to.on)
        BY <1>5, <1>6, <1>10, <1>14 DEF Commit
    <2>2. central'[t] = e.to /\ intent'[t] = e.to
        BY <1>1, <2>1
    <2>3. EditOk(t)' /\ ~Owed(t)'
        <3>1. CASE e.want
            <4>1. edit'[t] = [e EXCEPT !.step = "mark"]
                BY <1>7, <1>14, <3>1 DEF Commit
            <4>2. edit'[t].step = "mark" /\ edit'[t].op = e.op /\ edit'[t].to = e.to
                BY <1>2, <4>1 DEF EditType
            <4> QED
                BY <1>3, <2>1, <4>2 DEF EditOk, Owed
        <3>2. CASE ~e.want
            <4>1. edit'[t] = NoEdit
                BY <1>7, <1>14, <3>2 DEF Commit
            <4>2. remote'[t] = e.to
                BY <1>3, <2>1, <3>2 DEF EditOk
            <4> QED
                BY <2>2, <4>1, <4>2, Idles DEF EditOk, Owed
        <3> QED
            BY <3>1, <3>2
    <2>4. sync.step # "idle" => t \in touched'
        BY <2>1 DEF Touch
    <2> QED
        BY <1>3, <1>4, <2>1, <2>2, <2>3, <2>4, TouchedOk
<1>15. CASE CommitFails(t) \/ MarkNodeDirtyFails(t)
    BY <1>5, <1>6, <1>15 DEF CommitFails, MarkNodeDirtyFails
<1>16. CASE MarkNodeDirty(t)
    <2>1. /\ UNCHANGED <<central, remote, intent, clock>> /\ e.step = "mark"
          /\ dirty' = TRUE /\ dirtyAt' = clock
          /\ touched' = IF sync.step = "merge" THEN touched ELSE touched \ {t}
          /\ ~(Reconciling /\ sync.at = clock)
        BY <1>5, <1>6, <1>16 DEF MarkNodeDirty
    <2>2. edit'[t] = NoEdit
        BY <1>7, <1>16 DEF MarkNodeDirty
    <2>3. EditOk(t)'
        BY <2>2, Idles DEF EditOk
    <2>4. sync.step \in {"list", "replay"} => Late'
        <3>1. sync.at <= clock /\ sync.at \in 0..MaxClock /\ clock \in 0..MaxClock
            BY DEF SyncInv, TypeOK
        <3> QED
            BY <1>4, <2>1, <3>1, Bounds DEF Reconciling, Late
    <2>5. sync.step = "merge" => t \in touched /\ touched' = touched
        BY <2>1 DEF SyncInv
    <2>6. central'[t] = intent'[t]
        BY <1>3, <2>1 DEF RowInv
    <2> QED
        BY <1>3, <1>4, <2>1, <2>3, <2>4, <2>5, <2>6 DEF RowInv
<1>17. ~DelInboundUnloaded(t) /\ ~CommitIsLost(t)
    BY <1>5, <1>6 DEF DelInboundUnloaded, CommitIsLost
<1> QED
    BY <1>8, <1>9, <1>11, <1>12, <1>13, <1>14, <1>15, <1>16, <1>17 DEF EditStepOf, EditBegins, EditProceeds

\* What an edit is does not depend on the rows.
LEMMA BlamedOk ==
    ASSUME TypeOK, TypeOK', NEW t \in Tags, EditOk(t), EditStepOf(t), why'[t] # "none"
    PROVE  EditOk(t)'
<1> DEFINE e == edit[t]
<1>1. edit \in [Tags -> EditType] /\ e \in EditType
    BY DEF TypeOK, EditType
<1>2. ASSUME NEW f, edit' = [edit EXCEPT ![t] = f]
      PROVE  edit'[t] = f
    BY <1>1, <1>2
<1>3. ASSUME NEW f, edit' = [edit EXCEPT ![t] = f],
             f.op = "toggle" => f.step \notin {"idle", "commit"},
             f.op = "del" => f.to = Absent
      PROVE  EditOk(t)'
    <2>1. edit'[t] = f
        BY <1>2, <1>3
    <2> QED
        BY <1>3, <2>1 DEF EditOk
<1>4. CASE EditBegins(t)
    <2>1. ASSUME NEW op \in {"add", "update"}, NEW to, NEW step, Begin(t, op, to, step)
          PROVE  EditOk(t)'
        BY <1>3, <2>1 DEF Begin
    <2>2. CASE AddInbound(t) \/ UpdateInbound(t)
        BY <2>1, <2>2 DEF AddInbound, UpdateInbound
    <2>3. CASE DelInbound(t) \/ DelInboundUnloaded(t)
        BY <1>3, <2>3 DEF DelInbound, DelInboundUnloaded, Begin
    <2>4. CASE SetInboundEnable(t)
        <3> DEFINE c == [central[t] EXCEPT !.on = ~@]
        <3>1. edit' = [edit EXCEPT ![t] = [op |-> "toggle", step |-> "plan", to |-> c, want |-> FALSE]]
            BY <2>4 DEF SetInboundEnable, Begin
        <3> HIDE DEF c
        <3> QED
            BY <1>3, <3>1
    <2> QED
        BY <1>4, <2>2, <2>3, <2>4 DEF EditBegins
<1>5. ASSUME NEW want \in BOOLEAN, edit' = [edit EXCEPT ![t] = AfterPush(e, want)]
      PROVE  EditOk(t)'
    <2>1. CASE want
        <3>1. edit' = [edit EXCEPT ![t] = AfterPush(e, TRUE)]
            BY <1>5, <2>1
        <3>2. edit'[t] = AfterPush(e, TRUE)
            BY <1>2, <3>1
        <3> QED
            BY <1>1, <3>2, AfterPushOwes DEF EditOk
    <2>2. CASE ~want
        <3>1. edit' = [edit EXCEPT ![t] = AfterPush(e, FALSE)]
            BY <1>5, <2>2
        <3>2. edit'[t] = AfterPush(e, FALSE)
            BY <1>2, <3>1
        <3> QED
            BY <1>1, <3>2, AfterPushDone, Idles DEF EditOk
    <2> QED
        BY <2>1, <2>2
<1>6. CASE edit' = [edit EXCEPT ![t] = NoEdit]
    BY <1>3, <1>6, Idles
<1>7. CASE nodePushPlan(t)
    <2>1. CASE GoesOn(t, TRUE)
        BY <1>5, <2>1 DEF GoesOn
    <2>2. CASE edit' = [edit EXCEPT ![t].step = "push"]
        <3>1. edit'[t] = [e EXCEPT !.step = "push"]
            BY <1>1, <2>2
        <3>2. edit'[t].step = "push" /\ edit'[t].op = e.op /\ edit'[t].to = e.to
            BY <1>1, <3>1 DEF EditType
        <3> QED
            BY <3>2 DEF EditOk
    <2> QED
        BY <1>7, <2>1, <2>2 DEF nodePushPlan
<1>8. CASE nodePushPlanFails(t)
    BY <1>5, <1>6, <1>8 DEF nodePushPlanFails
<1>9. CASE Push(t)
    BY <1>5, <1>9 DEF Push, PushSucceeds, PushRefused, PushFails, PushDeleteSkipped, GoesOn
<1>10. CASE Commit(t) \/ CommitIsLost(t)
    <2>1. CASE edit' = [edit EXCEPT ![t] = [e EXCEPT !.step = "mark"]]
        <3>1. edit'[t] = [e EXCEPT !.step = "mark"]
            BY <1>2, <2>1
        <3>2. edit'[t].step = "mark" /\ edit'[t].op = e.op /\ edit'[t].to = e.to
            BY <1>1, <3>1 DEF EditType
        <3> QED
            BY <3>2 DEF EditOk
    <2> QED
        BY <1>6, <1>10, <2>1 DEF Commit, CommitIsLost
<1>11. CASE CommitFails(t) \/ MarkNodeDirty(t) \/ MarkNodeDirtyFails(t)
    BY <1>6, <1>11 DEF CommitFails, MarkNodeDirty, MarkNodeDirtyFails
<1> QED
    BY <1>4, <1>7, <1>8, <1>9, <1>10, <1>11 DEF EditStepOf, EditProceeds

\* A run: what it reads it reads of inbounds nobody is editing, or of inbounds
\* that are touched; it clears the flag only when nothing is owed.
LEMMA SyncKeepsInv ==
    ASSUME TypeOK, SyncInv, SyncBegins \/ SyncProceeds \/ SyncFails
    PROVE  SyncInv'
<1>1. /\ sync \in SyncType /\ dirty \in BOOLEAN /\ dirtyAt <= clock
      /\ clock \in Nat /\ touched \subseteq Tags
    <2>1. clock \in 0..MaxClock /\ dirtyAt \in 0..clock /\ sync \in SyncType
        BY DEF TypeOK, SyncType
    <2> QED
        BY <2>1, Bounds DEF TypeOK
<1>2. /\ \A t \in Tags : sync.step # "idle" /\ edit[t].step # "idle" => t \in touched
      /\ Reconciling => dirty
      /\ sync.at <= clock
    BY DEF SyncInv
<1> USE DEF SyncInv, Reconciling, syncFrame, nodeVars
<1>3. CASE SyncBegins
    <2>1. /\ sync'.at = IF dirty THEN dirtyAt ELSE 0
          /\ sync'.step = IF dirty THEN "read" ELSE "fetch"
        BY <1>3, Idles DEF SyncBegins, SyncType
    <2>2. sync'.at <= clock
        BY <1>1, <2>1
    <2> QED
        BY <1>1, <1>3, <2>1, <2>2 DEF SyncBegins
<1>4. CASE ReconcileReads \/ ReconcileLists \/ FetchTrafficSnapshot
    <2>1. sync'.at = sync.at /\ sync'.step # "idle" /\ sync.step # "idle"
        BY <1>1, <1>4 DEF ReconcileReads, ReconcileLists, FetchTrafficSnapshot, SyncType
    <2>2. UNCHANGED <<clock, touched, edit, dirty>> /\ (sync'.step \in {"read", "list", "replay"} => dirty)
        BY <1>1, <1>2, <1>4 DEF ReconcileReads, ReconcileLists, FetchTrafficSnapshot, SyncType
    <2> QED
        BY <1>2, <2>1, <2>2
<1>5. ASSUME NEW t \in Tags, ReconcileReplays(t)
      PROVE  SyncInv'
    <2>1. sync'.at = sync.at /\ sync'.step = "replay" /\ sync.step = "replay"
        BY <1>1, <1>5 DEF ReconcileReplays, ReplayOf, IsNext, SyncType
    <2> QED
        BY <1>2, <1>5, <2>1 DEF ReconcileReplays
<1>6. CASE ClearNodeDirty
    <2>1. sync'.at = 0 /\ sync'.step = "fetch" /\ sync.step = "replay"
        BY <1>1, <1>6, Idles DEF ClearNodeDirty, SyncType
    <2> QED
        BY <1>1, <1>2, <1>6, <2>1 DEF ClearNodeDirty, histVars
<1>7. CASE NodeSyncState
    <2>1. sync'.at = sync.at /\ sync'.step = "merge" /\ sync.step = "flag"
        BY <1>1, <1>7 DEF NodeSyncState, SyncType
    <2>2. touched' = touched \/ touched' = Tags
        BY <1>7 DEF NodeSyncState
    <2> QED
        BY <1>2, <1>7, <2>1, <2>2 DEF NodeSyncState
<1>8. CASE setRemoteTrafficLocked \/ SyncFails \/ \E t \in Tags : ReconcileRefused(t)
    <2>1. sync' = NoSync /\ clock' = clock
        BY <1>8 DEF setRemoteTrafficLocked, SyncFails, ReconcileRefused
    <2> QED
        BY <1>1, <2>1, Idles
<1> QED
    BY <1>3, <1>4, <1>5, <1>6, <1>7, <1>8 DEF SyncProceeds

\* A step of a run that leaves both rows of an inbound alone.
LEMMA SyncOk ==
    ASSUME TypeOK, SyncInv, NEW t \in Tags, Ok(t), SyncBegins \/ SyncProceeds \/ SyncFails
    PROVE  Ok(t)'
<1>1. /\ sync \in SyncType /\ why \in [Tags -> WhyType] /\ dirty \in BOOLEAN
      /\ remote \in [Tags -> Rows] /\ central \in [Tags -> Rows]
    BY DEF TypeOK, SyncType, WhyType
<1>2. "race" \in WhyType \ {"none"}
    BY DEF WhyType
<1>3. sync.step # "idle" /\ edit[t].step # "idle" => t \in touched
    BY DEF SyncInv
<1>4. EditOk(t) /\ (why[t] = "none" => RowInv(t))
    BY DEF Ok
    \* What the steps have in common.
<1>5. ASSUME UNCHANGED <<central, remote, edit, intent, why>>
      PROVE  /\ EditOk(t)' /\ (Owed(t)' <=> Owed(t))
             /\ (why'[t] = "none" => RowInv(t) /\ central'[t] = intent'[t])
    BY <1>4, <1>5 DEF EditOk, Owed, RowInv
<1>6. UNCHANGED syncFrame => UNCHANGED <<dirty, dirtyAt, edit, intent>>
    BY DEF syncFrame, nodeVars
<1>7. ASSUME NEW s \in Tags, ReplayOf(s), UNCHANGED <<central, edit, intent, dirty, dirtyAt>>, why'[t] = "none"
      PROVE  /\ EditOk(t)' /\ RowInv(t) /\ central'[t] = intent'[t] /\ dirty
             /\ s # t => remote'[t] = remote[t]
             /\ s = t => t \notin touched /\ (Owed(t)' => Late)
    <2>1. why[t] = "none" /\ (s \in touched => s # t)
        <3>1. CASE s \in touched
            <4>1. Blame({s}, "race")
                BY <1>7, <3>1 DEF ReplayOf
            <4> QED
                BY <1>1, <1>2, <1>7, <4>1, BlameSays
        <3>2. CASE s \notin touched
            BY <1>7, <3>2 DEF ReplayOf
        <3> QED
            BY <3>1, <3>2
    <2>2. RowInv(t) /\ central'[t] = intent'[t]
        BY <1>4, <1>7, <2>1 DEF RowInv
    <2>3. dirty /\ sync.step = "replay"
        BY <1>7 DEF ReplayOf, IsNext, SyncInv, Reconciling
    <2>4. CASE s # t
        <3>1. remote'[t] = remote[t]
            BY <1>1, <1>7, <2>4 DEF ReplayOf
        <3>2. EditOk(t)'
            BY <1>4, <1>7, <2>1, <3>1 DEF EditOk
        <3> QED
            BY <2>2, <2>3, <2>4, <3>1, <3>2
    <2>5. CASE s = t
        <3>1. t \notin touched /\ edit[t].step = "idle"
            BY <1>3, <2>1, <2>3, <2>5
        <3>2. EditOk(t)'
            BY <1>4, <1>7, <3>1 DEF EditOk
        <3>3. remote'[t] = sync.rows[t]
            BY <1>1, <1>7, <2>5 DEF ReplayOf
        <3>4. sync.rows[t] = central[t] \/ Late
            BY <2>2, <2>3, <3>1 DEF RowInv
        <3> QED
            BY <1>7, <2>2, <2>3, <2>5, <3>1, <3>2, <3>3, <3>4 DEF Owed
    <2> QED
        BY <2>4, <2>5
<1>8. CASE SyncBegins
    <2>1. sync'.step \in {"read", "fetch"}
        BY <1>8, Idles DEF SyncBegins, SyncType
    <2>2. UNCHANGED <<central, remote, edit, intent, why, dirty>>
        BY <1>6, <1>8 DEF SyncBegins
    <2> QED
        BY <1>5, <2>1, <2>2 DEF Ok, RowInv
<1>9. CASE ReconcileReads
    <2>1. sync'.step = "list" /\ sync'.rows = central
        BY <1>1, <1>9 DEF ReconcileReads, SyncType
    <2>2. UNCHANGED <<central, remote, edit, intent, why, dirty>>
        BY <1>6, <1>9 DEF ReconcileReads
    <2>3. Owed(t) => remote[t] # central[t]
        BY DEF Owed
    <2> QED
        BY <1>5, <2>1, <2>2, <2>3 DEF Ok, RowInv
<1>10. CASE ReconcileLists
    <2>1. /\ sync'.step = "replay" /\ sync'.rows = sync.rows /\ sync.step = "list" /\ sync'.at = sync.at
          /\ sync'.todo = {s \in Tags : sync.rows[s] # Absent \/ remote[s] # Absent}
        BY <1>1, <1>10 DEF ReconcileLists, SyncType
    <2>2. UNCHANGED <<central, remote, edit, intent, why, dirty, dirtyAt, touched>>
        BY <1>6, <1>10 DEF ReconcileLists
    <2>3. Late' = Late
        BY <2>1, <2>2 DEF Late
    <2>4. t \notin sync'.todo => sync.rows[t] = Absent /\ remote[t] = Absent
        BY <2>1
    <2> QED
        BY <1>5, <2>1, <2>2, <2>3, <2>4 DEF Ok, RowInv
<1>11. ASSUME NEW s \in Tags, ReconcileReplays(s)
       PROVE  Ok(t)'
    <2>1. /\ sync'.step = "replay" /\ sync'.rows = sync.rows /\ sync.step = "replay" /\ sync'.at = sync.at
          /\ sync'.todo = sync.todo \ {s}
        BY <1>1, <1>11 DEF ReconcileReplays, ReplayOf, IsNext, SyncType
    <2>2. UNCHANGED <<central, edit, intent, dirty, dirtyAt, touched>> /\ ReplayOf(s)
        BY <1>6, <1>11 DEF ReconcileReplays
    <2>3. Late' = Late
        BY <2>1, <2>2 DEF Late
    <2>4. CASE why'[t] = "none"
        <3>1. /\ EditOk(t)' /\ RowInv(t) /\ central'[t] = intent'[t] /\ dirty
              /\ s # t => remote'[t] = remote[t]
              /\ s = t => t \notin touched /\ (Owed(t)' => Late)
            BY <1>7, <2>2, <2>4
        <3>2. CASE s = t
            BY <2>1, <2>2, <2>3, <3>1, <3>2 DEF Ok, RowInv
        <3>3. CASE s # t
            <4>1. Owed(t)' <=> Owed(t)
                BY <2>2, <3>1, <3>3 DEF Owed
            <4> QED
                BY <2>1, <2>2, <2>3, <3>1, <3>3, <4>1 DEF Ok, RowInv
        <3> QED
            BY <3>2, <3>3
    <2>5. CASE why'[t] # "none"
        BY <1>4, <2>2, <2>5 DEF Ok, EditOk
    <2> QED
        BY <2>4, <2>5
<1>12. CASE ClearNodeDirty
    <2>1. sync'.step = "fetch" /\ sync.step = "replay" /\ sync.todo = {}
        BY <1>1, <1>12, Idles DEF ClearNodeDirty, SyncType
    <2>2. UNCHANGED <<central, remote, edit, intent, why>>
        BY <1>12 DEF ClearNodeDirty, histVars
    <2>3. Late => dirty'
        <3>1. Late => dirty /\ dirtyAt # sync.at
            <4>1. dirtyAt \in 0..clock /\ clock \in 0..MaxClock /\ sync.at \in 0..MaxClock
                BY DEF TypeOK
            <4> QED
                BY <4>1, Bounds DEF Late
        <3>2. dirty' = (dirty /\ dirtyAt # sync.at) \/ dirty' = dirty
            BY <1>12 DEF ClearNodeDirty
        <3> QED
            BY <3>1, <3>2
    <2> QED
        BY <1>5, <2>1, <2>2, <2>3 DEF Ok, RowInv
<1>13. CASE FetchTrafficSnapshot
    <2>1. sync'.step = "flag" /\ sync'.snap = remote /\ sync.step = "fetch"
        BY <1>1, <1>13 DEF FetchTrafficSnapshot, SyncType
    <2>2. UNCHANGED <<central, remote, edit, intent, why, dirty, touched>>
        BY <1>6, <1>13 DEF FetchTrafficSnapshot
    <2>3. t \notin touched /\ ~Owed(t) => remote[t] = central[t]
        BY <1>3, <1>4, <2>1 DEF Owed, EditOk
    <2> QED
        BY <1>5, <2>1, <2>2, <2>3 DEF Ok, RowInv
<1>14. CASE NodeSyncState
    <2>1. sync'.step = "merge" /\ sync'.snap = sync.snap /\ sync.step = "flag"
        BY <1>1, <1>14 DEF NodeSyncState, SyncType
    <2>2. UNCHANGED <<central, remote, edit, intent, why, dirty>>
        BY <1>6, <1>14 DEF NodeSyncState
    <2>3. (sync'.dirty = dirty /\ touched' = touched) \/ touched' = Tags
        BY <1>1, <1>14 DEF NodeSyncState, SyncType
    <2> QED
        BY <1>5, <2>1, <2>2, <2>3 DEF Ok, RowInv
<1>15. CASE setRemoteTrafficLocked
    <2>1. sync'.step = "idle" /\ sync.step = "merge"
        BY <1>15, Idles DEF setRemoteTrafficLocked
    <2>2. UNCHANGED <<remote, edit, intent, dirty>> /\ central' = Merged
        BY <1>6, <1>15 DEF setRemoteTrafficLocked
    <2>3. CASE why'[t] = "none"
        <3>1. why[t] = "none" /\ t \notin {s \in touched : Merged[s] # central[s]}
            BY <1>1, <1>2, <1>15, <2>3, BlameSays DEF setRemoteTrafficLocked
        <3>2. central'[t] = central[t]
            <4>1. CASE sync.dirty
                BY <2>2, <4>1 DEF Merged
            <4>2. CASE ~sync.dirty /\ t \in touched
                BY <2>2, <3>1, <4>2
            <4>3. CASE ~sync.dirty /\ t \notin touched
                BY <1>4, <2>1, <2>2, <3>1, <4>3 DEF Merged, RowInv
            <4> QED
                BY <4>1, <4>2, <4>3
        <3>3. EditOk(t)'
            BY <1>4, <2>2, <3>1, <3>2 DEF EditOk
        <3> QED
            BY <1>4, <2>1, <2>2, <3>1, <3>2, <3>3 DEF Ok, RowInv, Owed
    <2>4. CASE why'[t] # "none"
        BY <1>4, <2>2, <2>4 DEF Ok, EditOk
    <2> QED
        BY <2>3, <2>4
<1>16. CASE SyncFails
    <2>1. sync'.step = "idle"
        BY <1>16, Idles DEF SyncFails
    <2>2. UNCHANGED <<central, edit, intent, dirty, dirtyAt>>
        BY <1>6, <1>16 DEF SyncFails
    <2>3. CASE UNCHANGED <<remote, why>>
        BY <1>5, <2>1, <2>2, <2>3 DEF Ok, RowInv
    <2>4. ASSUME NEW s \in Tags, ReplayOf(s)
          PROVE  Ok(t)'
        <3>1. CASE why'[t] = "none"
            <4>1. EditOk(t)' /\ central'[t] = intent'[t] /\ dirty
                BY <1>7, <2>2, <2>4, <3>1
            <4> QED
                BY <2>1, <2>2, <4>1 DEF Ok, RowInv
        <3>2. CASE why'[t] # "none"
            BY <1>4, <2>2, <3>2 DEF Ok, EditOk
        <3> QED
            BY <3>1, <3>2
    <2> QED
        BY <1>16, <2>3, <2>4 DEF SyncFails
<1>17. ASSUME NEW s \in Tags, ReconcileRefused(s)
       PROVE  Ok(t)'
    <2>1. sync'.step = "idle"
        BY <1>17, Idles DEF ReconcileRefused
    <2>2. UNCHANGED <<central, remote, edit, intent, why, dirty, dirtyAt>>
        BY <1>6, <1>17 DEF ReconcileRefused
    <2> QED
        BY <1>5, <2>1, <2>2 DEF Ok, RowInv
<1> QED
    BY <1>8, <1>9, <1>10, <1>11, <1>12, <1>13, <1>14, <1>15, <1>16, <1>17 DEF SyncProceeds

\* The node's own panel, its heartbeat and the clock.
LEMMA EnvOk ==
    ASSUME TypeOK, SyncInv, \A t \in Tags : Ok(t),
           (\E t \in Tags : NodeEdits(t)) \/ LinkUp \/ LinkDown \/ Tick
    PROVE  SyncInv' /\ \A t \in Tags : Ok(t)'
<1>1. /\ UNCHANGED <<central, dirty, dirtyAt, edit, sync, intent, touched>>
      /\ clock' = clock \/ clock' = clock + 1
    BY DEF NodeEdits, LinkUp, LinkDown, Tick, envFrame
<1>2. SyncInv'
    <2>1. sync.at <= clock'
        <3>1. sync.at \in 0..MaxClock /\ clock \in 0..MaxClock /\ sync.at <= clock
            BY DEF TypeOK, SyncInv
        <3> QED
            BY <1>1, <3>1, Bounds
    <2> QED
        BY <1>1, <2>1 DEF SyncInv, Reconciling
<1>3. ASSUME NEW t \in Tags
      PROVE  Ok(t)'
    <2>1. CASE remote'[t] = remote[t] /\ why'[t] = why[t]
        <3>1. Late' = Late /\ Owed(t)' = Owed(t)
            BY <1>1, <2>1 DEF Late, Owed
        <3>2. Ok(t)
            OBVIOUS
        <3> QED
            BY <1>1, <2>1, <3>1, <3>2 DEF Ok, EditOk, RowInv
    <2>2. ASSUME NEW s \in Tags, NodeEdits(s)
          PROVE  Ok(t)'
        <3>1. "race" \in WhyType \ {"none"} /\ why \in [Tags -> WhyType] /\ Blame({s}, "race")
            BY <2>2 DEF WhyType, TypeOK, NodeEdits
        <3>2. CASE s = t
            <4>1. why'[t] # "none"
                BY <3>1, <3>2, BlameSays
            <4> QED
                BY <1>1, <4>1 DEF Ok, EditOk
        <3>3. CASE s # t
            <4>1. why'[t] = why[t]
                BY <3>1, <3>3, BlameSays
            <4>2. remote'[t] = remote[t]
                BY <2>2, <3>3 DEF NodeEdits, TypeOK
            <4> QED
                BY <2>1, <4>1, <4>2
        <3> QED
            BY <3>2, <3>3
    <2>3. CASE LinkUp \/ LinkDown \/ Tick
        BY <2>1, <2>3 DEF LinkUp, LinkDown, Tick
    <2> QED
        BY <2>2, <2>3
<1> QED
    BY <1>2, <1>3

-----------------------------------------------------------------------------
(* Theorems *)

\* The invariant is inductive: every step of every edit, every step of a run of
\* the sync job, and whatever the node, its heartbeat and the clock do preserve it.
THEOREM Invariance == Spec => []IInv
<1>1. IInv <=> TypeOK /\ SyncInv /\ \A t \in Tags : Ok(t)
    BY DEF IInv, Ok
<1>2. IInv /\ [Next]_vars => IInv'
    <2> SUFFICES ASSUME TypeOK, SyncInv, \A t \in Tags : Ok(t), [Next]_vars
                 PROVE  TypeOK' /\ SyncInv' /\ \A t \in Tags : Ok(t)'
        BY <1>1 DEF IInv, Ok
    <2>1. TypeOK'
        BY TypeStep
    <2>2. ASSUME NEW t \in Tags, EditStepOf(t)
          PROVE  SyncInv' /\ \A s \in Tags : Ok(s)'
        <3>1. SyncInv'
            BY <2>2, EditSyncInv
        <3>2. ASSUME NEW s \in Tags, s # t
              PROVE  Ok(s)'
            BY <2>2, <3>2, OtherOk
        <3>3. Ok(t)'
            <4>1. CASE why'[t] = "none"
                <5>1. why[t] = "none"
                    BY <2>2, <4>1, EditChange DEF EditChanges
                <5> QED
                    BY <2>1, <2>2, <4>1, <5>1, OwnOk DEF Ok
            <4>2. CASE why'[t] # "none"
                BY <2>1, <2>2, <4>2, BlamedOk DEF Ok
            <4> QED
                BY <4>1, <4>2
        <3> QED
            BY <3>1, <3>2, <3>3
    <2>3. CASE SyncBegins \/ SyncProceeds \/ SyncFails
        <3>1. SyncInv'
            BY <2>3, SyncKeepsInv
        <3>2. ASSUME NEW t \in Tags
              PROVE  Ok(t)'
            <4>1. Ok(t)
                OBVIOUS
            <4> QED
                BY <2>3, <4>1, SyncOk
        <3> QED
            BY <2>1, <3>1, <3>2
    <2>4. CASE (\E t \in Tags : NodeEdits(t)) \/ LinkUp \/ LinkDown \/ Tick
        <3>1. SyncInv' /\ \A t \in Tags : Ok(t)'
            BY <2>4, EnvOk
        <3> QED
            BY <2>1, <3>1
    <2>5. CASE UNCHANGED vars
        <3>1. ASSUME NEW t \in Tags
              PROVE  Ok(t)'
            <4>1. Ok(t)
                OBVIOUS
            <4> QED
                BY <2>5, <4>1 DEF vars, nodeVars, histVars, Ok, EditOk, RowInv, Owed, Late
        <3>2. SyncInv'
            BY <2>5 DEF vars, nodeVars, histVars, SyncInv, Reconciling
        <3> QED
            BY <2>1, <3>1, <3>2
    <2> QED
        BY <2>1, <2>2, <2>3, <2>4, <2>5 DEF Next, EditStepOf
<1> QED
    BY <1>2, InitIInv, PTL DEF Spec

\* Every variable keeps its type, and no mark lies in the future.
THEOREM TypeCorrect == Spec => []TypeOK
<1>1. IInv => TypeOK
    BY DEF IInv
<1> QED
    BY <1>1, Invariance, PTL

\* No interleaving of edits, pushes that fail, reconciles and merges undoes an
\* edit, outside the recorded cases.
THEOREM EditsSurvive == Spec => []EditSurvives
<1>1. IInv => EditSurvives
    BY DEF IInv, RowInv, EditSurvives
<1> QED
    BY <1>1, Invariance, PTL

\* A clean node has the central rows, outside the recorded cases: the flag is
\* cleared only by the run that has replayed everything it stood for.
THEOREM CleanNodesMirror == Spec => []CleanMeansMirrored
<1>1. IInv => CleanMeansMirrored
    BY DEF IInv, RowInv, EditOk, Owed, Settled, CleanMeansMirrored
<1> QED
    BY <1>1, Invariance, PTL
=============================================================================
