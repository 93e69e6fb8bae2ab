------------------------- MODULE XrayLifecycleProofs -------------------------
(***************************************************************************)
(* Safety of the local core's life cycle for any inbounds, settings,       *)
(* number of overlapping watchdog runs, failures and crashes.              *)
(***************************************************************************)
EXTENDS XrayLifecycle, TLAPS

\* The lock is held exactly by the actor inside RestartXray, so only one actor
\* replaces the handle; the handle is the only process that can be alive but for
\* those given up, and none else is when a new one is started.
CoreInv ==
    /\ cores \subseteq stuck \cup {p}
    /\ \A a \in Actors : at[a] = "start" => cores \subseteq stuck
    /\ p \in stuck => \E a \in Actors : at[a] = "start"

EditOps == {"none", "add", "del", "update", "moveFrom", "moveTo", "toggle"}
EditSteps == {"idle", "apiDel", "apiAdd", "commit", "flag"}
Edits == [op : EditOps, step : EditSteps, on : BOOLEAN, to : Contents \cup {None},
          peer : Tags \cup {None}, want : BOOLEAN]

\* An idle inbound has no request pending; only what is to be enabled is added
\* to the core; a toggle has written its column already and commits nothing; the
\* edit of a tag that is given up enables nothing and asks for nothing.
Proper(e) ==
    /\ e.step = "idle" => ~e.want
    /\ e.step = "apiAdd" => e.on
    /\ e.op = "toggle" => e.step \in {"apiDel", "apiAdd"}
    /\ e.op = "moveFrom" => ~e.on /\ ~e.want
    /\ e.step \in {"idle", "flag"} => e.op = "none"
    /\ e.op = "none" => e.step \in {"idle", "flag"}

Toggled(t) == edit[t].op = "toggle" => enabled[t] = edit[t].on /\ content[t] = edit[t].to

\* The two edits of a rename name each other; every other edit names itself.
Paired(t) ==
    LET q == edit[t].peer IN
    /\ edit[t].op = "moveTo" => q \in Tags \ {t} /\ edit[q].op = "moveFrom" /\ edit[q].peer = t
    /\ edit[t].op = "moveFrom" => q \in Tags \ {t} /\ edit[q].op = "moveTo" /\ edit[q].peer = t
    /\ edit[t].op \notin {"none", "moveTo", "moveFrom"} => q = t

EditInv ==
    /\ edit \in [Tags -> Edits]
    /\ \A t \in Tags : Proper(edit[t]) /\ Toggled(t) /\ Paired(t)

\* A request for a restart that has not been answered: the flag, or the cron
\* function that has taken it out of the flag.
Asked == need \/ at[Cron] # "idle"

\* What the core has to serve for inbound t where the edit in flight stands:
\* the database's before and after it, what is to be committed before the commit.
\* While the core is being called nothing is asked.
Matches(t) ==
    /\ edit[t].step \in {"idle", "flag"} => live[p][t] = GetXrayConfig[t]
    /\ edit[t].step = "commit" => live[p][t] = IF edit[t].on THEN edit[t].to ELSE None

\* Every difference between a running core and the database is either about to
\* be reported by the edit that made it, or reported, or has a recorded cause.
SyncInv ==
    (Running /\ cause = "none") => Asked \/ \A t \in Tags : edit[t].want \/ Matches(t)

IInv == TypeOK /\ CoreInv /\ EditInv /\ SyncInv

-----------------------------------------------------------------------------
(* The invariant holds at the start *)

\* A free lock is not held by an actor.
LEMMA ActorsAreNotNone == \A a \in Actors : a # None
    BY ActorAssumption, ForcedAssumption DEF Actors, None, Cron, User, Traffic

\* startTask's forced restart leaves one core, serving the database, or none.
LEMMA InitIInv == Init => IInv
<1> SUFFICES ASSUME Init PROVE IInv
    OBVIOUS
<1> USE ActorAssumption, ContentAssumption, BoundAssumption
<1>1. GetXrayConfig \in [Tags -> Contents \cup {None}] /\ Nothing \in [Tags -> Contents \cup {None}]
    BY DEF Init, GetXrayConfig, Nothing
<1>2. config \in [Ids -> [Tags -> Contents \cup {None}]] /\ live[p] = GetXrayConfig
    BY <1>1 DEF Init, Ids
<1>3. TypeOK
    <2>1. at \in [Actors -> {"idle", "enter", "read", "decide", "start"}]
        BY DEF Init
    <2>2. \A a \in Actors : at[a] \in {"read", "decide", "start"} <=> lock = a
        BY ActorsAreNotNone DEF Init
    <2>3. content \in [Tags -> Contents \cup {None}] /\ live \in [Ids -> [Tags -> Contents \cup {None}]]
        BY <1>2 DEF Init
    <2>4. p \in Ids /\ cores \subseteq Ids /\ stuck \subseteq cores /\ checkTime \in 0..2
        BY DEF Init, Ids
    <2>5. fails \in 0..MaxFails /\ crashes \in 0..MaxCrashes
        BY DEF Init
    <2>6. /\ enabled \in [Tags -> BOOLEAN] /\ need \in BOOLEAN /\ manual \in BOOLEAN
          /\ lock \in Actors \cup {None} /\ cause \in {"none", "skipped", "other"}
          /\ read \in [Tags -> Contents \cup {None}]
        BY <1>1 DEF Init
    <2> QED
        BY <1>2, <2>1, <2>2, <2>3, <2>4, <2>5, <2>6 DEF TypeOK
<1>4. CoreInv
    BY DEF Init, CoreInv
<1>5. EditInv
    BY DEF Init, EditInv, Edits, EditOps, EditSteps, NoEdit, Proper, Toggled, Paired
<1>6. SyncInv
    BY <1>2 DEF Init, SyncInv, Matches, NoEdit
<1> QED
    BY <1>3, <1>4, <1>5, <1>6 DEF IInv

-----------------------------------------------------------------------------
(* Types, the lock and the one core *)

\* The handle that a restart creates is none of the old one's.
LEMMA FreshHandle ==
    ASSUME FreeIds # {}
    PROVE  LET i == CHOOSE j \in FreeIds : TRUE
           IN  i \in Ids /\ i # p /\ i \notin cores
BY DEF FreeIds

LEMMA RestartCore ==
    ASSUME TypeOK, CoreInv, NEW a \in Actors, RestartXray(a)
    PROVE  TypeOK' /\ CoreInv'
<1> USE ActorAssumption, ContentAssumption, BoundAssumption
<1>1. GetXrayConfig \in [Tags -> Contents \cup {None}] /\ Nothing \in [Tags -> Contents \cup {None}]
    BY DEF TypeOK, GetXrayConfig, Nothing
<1> USE DEF vars, editVars, procVars, boundVars
<1>2. ASSUME NEW failed \in BOOLEAN, Return(a, failed), at[a] \in {"read", "decide", "start"}
      PROVE  /\ lock' = None /\ lock' \in Actors \cup {None}
             /\ at' \in [Actors -> {"idle", "enter", "read", "decide", "start"}]
             /\ \A b \in Actors : at'[b] \notin {"read", "decide", "start"}
             /\ \A b \in Actors : at'[b] \in {"read", "decide", "start"} <=> lock' = b
             /\ need' \in BOOLEAN /\ checkTime' \in 0..2
             /\ read' \in [Tags -> Contents \cup {None}]
             /\ content' = content /\ enabled' = enabled /\ manual' = manual
             /\ crashes' = crashes
    <2>1. need' \in BOOLEAN
        BY <1>2 DEF Return
    <2>2. checkTime' \in 0..2
        BY <1>2 DEF Return, TypeOK
    <2>3. at' = [at EXCEPT ![a] = "idle"] /\ lock' = None /\ read' = Nothing
        BY <1>2 DEF Return
    <2>4. at' \in [Actors -> {"idle", "enter", "read", "decide", "start"}]
        BY <2>3 DEF TypeOK
    <2>5. lock = a
        BY <1>2 DEF TypeOK
    <2>6. \A b \in Actors : at'[b] \notin {"read", "decide", "start"}
        BY <2>3, <2>5 DEF TypeOK
    <2>7. \A b \in Actors : lock' # b
        BY <2>3, ActorsAreNotNone
    <2> QED
        BY <1>1, <1>2, <2>1, <2>2, <2>3, <2>4, <2>6, <2>7 DEF Return
<1>3. CASE RestartEnters(a)
    <2>1. \A b \in Actors : at[b] \notin {"read", "decide", "start"}
        BY <1>3, ActorsAreNotNone DEF RestartEnters, TypeOK
    <2>2. /\ at' \in [Actors -> {"idle", "enter", "read", "decide", "start"}]
          /\ \A b \in Actors : at'[b] \in {"read", "decide", "start"} <=> lock' = b
          /\ \A b \in Actors : at'[b] = "start" => cores \subseteq stuck
        BY <2>1, <1>3 DEF RestartEnters, TypeOK
    <2> QED
        BY <2>2, <1>3 DEF RestartEnters, TypeOK, CoreInv
<1>4. CASE RestartReads(a)
    BY <1>1, <1>4 DEF RestartReads, TypeOK, CoreInv
<1>5. CASE RestartCannotRead(a)
    <2>1. Return(a, TRUE) /\ at[a] = "read" /\ UNCHANGED procVars
        BY <1>5 DEF RestartCannotRead
    <2>2. fails' \in 0..MaxFails /\ cause' \in {"none", "skipped", "other"}
        BY <1>5 DEF RestartCannotRead, Excuse, TypeOK
    <2> QED
        BY <1>2, <2>1, <2>2 DEF TypeOK, CoreInv
<1>6. CASE RestartSkips(a)
    <2>1. Return(a, FALSE) /\ at[a] = "decide" /\ UNCHANGED procVars /\ UNCHANGED fails
        BY <1>6 DEF RestartSkips
    <2>2. cause' \in {"none", "skipped", "other"}
        BY <1>6 DEF RestartSkips, Excuse, TypeOK
    <2> QED
        BY <1>2, <2>1, <2>2 DEF TypeOK, CoreInv
<1>7. CASE RestartStopsOld(a)
    <2>1. \/ cores' = cores \ {p} /\ stuck' = stuck /\ fails' = fails
          \/ Running /\ fails < MaxFails /\ fails' = fails + 1 /\ stuck' = stuck \cup {p} /\ cores' = cores
        BY <1>7 DEF RestartStopsOld
    <2>2. at[a] = "decide" /\ at' = [at EXCEPT ![a] = "start"] /\ lock = a
        BY <1>7 DEF RestartStopsOld, TypeOK
    <2>3. UNCHANGED <<editVars, p, config, live, need, manual, lock, read, checkTime, cause, crashes>>
        BY <1>7 DEF RestartStopsOld
    <2>4. p \notin stuck
        BY <2>2 DEF TypeOK, CoreInv
    <2>5. at' \in [Actors -> {"idle", "enter", "read", "decide", "start"}] /\ at'[a] = "start"
        BY <2>2 DEF TypeOK
    <2>6. \A b \in Actors : at'[b] \in {"read", "decide", "start"} <=> lock' = b
        BY <2>2, <2>3 DEF TypeOK
    <2>7. /\ cores' \subseteq Ids /\ stuck' \subseteq cores' /\ fails' \in 0..MaxFails
          /\ cores' \subseteq stuck'
        BY <2>1, <2>4 DEF TypeOK, CoreInv, Running
    <2> QED
        BY <2>3, <2>5, <2>6, <2>7 DEF TypeOK, CoreInv
<1>8. CASE RestartStarts(a)
    <2> DEFINE i == CHOOSE j \in FreeIds : TRUE
    <2>1. i \in Ids /\ i # p /\ i \notin cores
        BY <1>8, FreshHandle DEF RestartStarts
    <2>2. cores \subseteq stuck /\ at[a] = "start" /\ stuck' = stuck
        BY <1>8 DEF RestartStarts, CoreInv
    <2>3. p' = i /\ config' = [config EXCEPT ![p] = Nothing, ![i] = read]
        BY <1>8 DEF RestartStarts
    <2>4. \/ live' = [live EXCEPT ![p] = Nothing, ![i] = read] /\ cores' = cores \cup {i}
          \/ live' = [live EXCEPT ![p] = Nothing] /\ cores' = cores
        BY <1>8 DEF RestartStarts
    <2>5. fails' \in 0..MaxFails
        <3>1. fails' = fails \/ (fails < MaxFails /\ fails' = fails + 1)
            BY <1>8 DEF RestartStarts
        <3> QED
            BY <3>1 DEF TypeOK
    <2>6. cause' \in {"none", "skipped", "other"}
        <3>1. cause' = cause \/ Excuse("other")
            BY <1>8 DEF RestartStarts
        <3> QED
            BY <3>1 DEF TypeOK, Excuse
    <2>7. Return(a, TRUE) \/ Return(a, FALSE)
        BY <1>8 DEF RestartStarts
    <2> HIDE DEF i
    <2>8. config' \in [Ids -> [Tags -> Contents \cup {None}]] /\ live' \in [Ids -> [Tags -> Contents \cup {None}]]
        <3>1. /\ read \in [Tags -> Contents \cup {None}] /\ p \in Ids
              /\ config \in [Ids -> [Tags -> Contents \cup {None}]]
              /\ live \in [Ids -> [Tags -> Contents \cup {None}]]
            BY DEF TypeOK
        <3> DEFINE C == [Tags -> Contents \cup {None}]
        <3>2. read \in C /\ Nothing \in C /\ config \in [Ids -> C] /\ live \in [Ids -> C]
            BY <1>1, <3>1
        <3> HIDE DEF C
        <3>3. config' \in [Ids -> C]
            BY <3>1, <3>2, <2>1, <2>3
        <3>4. live' \in [Ids -> C]
            BY <3>1, <3>2, <2>1, <2>4
        <3> QED
            BY <3>3, <3>4 DEF C
    <2>9. /\ p' \in Ids /\ cores' \subseteq Ids /\ cores' \subseteq stuck' \cup {p'}
          /\ stuck' \subseteq cores' /\ p' \notin stuck'
        BY <2>1, <2>2, <2>3, <2>4 DEF TypeOK
    <2> QED
        BY <1>2, <2>2, <2>5, <2>6, <2>7, <2>8, <2>9 DEF TypeOK, CoreInv
<1> QED
    BY <1>3, <1>4, <1>5, <1>6, <1>7, <1>8 DEF RestartXray

\* A core that is stopped or dies leaves no other; nobody is starting one
\* while the lock is free.
LEMMA CoreGoesAway ==
    ASSUME TypeOK, CoreInv, StopXray \/ Crash \/ StuckCoreDies
    PROVE  TypeOK' /\ CoreInv'
<1> USE BoundAssumption DEF editVars, boundVars
<1>1. CASE StopXray
    <2>1. \A a \in Actors : at[a] # "start"
        BY <1>1, ActorsAreNotNone DEF StopXray, TypeOK
    <2>2. p \notin stuck
        BY <2>1 DEF CoreInv
    <2>3. \/ cores' = cores \ {p} /\ fails' = fails
          \/ cores' = cores /\ fails < MaxFails /\ fails' = fails + 1
        BY <1>1 DEF StopXray
    <2>4. UNCHANGED <<editVars, p, stuck, config, live, need, lock, at, read, checkTime, cause, crashes>>
          /\ manual' = TRUE
        BY <1>1 DEF StopXray
    <2>5. cores' \subseteq cores /\ stuck \subseteq cores' /\ fails' \in 0..MaxFails
        BY <2>2, <2>3 DEF TypeOK
    <2> QED
        BY <2>4, <2>5 DEF TypeOK, CoreInv
<1>2. CASE Crash
    BY <1>2 DEF Crash, TypeOK, CoreInv
<1>3. CASE StuckCoreDies
    <2>1. PICK i \in stuck : cores' = cores \ {i} /\ stuck' = stuck \ {i}
        BY <1>3 DEF StuckCoreDies
    <2>2. UNCHANGED <<editVars, p, config, live, need, manual, lock, at, read, checkTime, cause, boundVars>>
        BY <1>3 DEF StuckCoreDies
    <2> QED
        BY <2>1, <2>2 DEF TypeOK, CoreInv
<1> QED
    BY <1>1, <1>2, <1>3

\* Callers line up for the lock without touching it.
LEMMA CallersWait ==
    ASSUME TypeOK, CoreInv,
           \/ CronFires \/ UserRestarts \/ TrafficJobRestarts
           \/ \E w \in Watchers : WatchRuns(w)
    PROVE  TypeOK' /\ CoreInv'
<1> USE ActorsAreNotNone DEF editVars, procVars, boundVars, Actors
<1>1. CASE CronFires
    BY <1>1 DEF CronFires, Call, TypeOK, CoreInv
<1>2. CASE UserRestarts
    BY <1>2 DEF UserRestarts, TypeOK, CoreInv
<1>3. CASE TrafficJobRestarts
    BY <1>3 DEF TrafficJobRestarts, Call, TypeOK, CoreInv
<1>4. ASSUME NEW w \in Watchers, WatchRuns(w)
      PROVE  TypeOK' /\ CoreInv'
    <2>1. CASE WatchSeesUp(w)
        BY <2>1 DEF WatchSeesUp, TypeOK, CoreInv
    <2>2. CASE WatchSeesDown(w)
        <3>1. at' = at \/ (at[w] = "idle" /\ at' = [at EXCEPT ![w] = "enter"])
            <4>1. CASE checkTime >= 1
                BY <2>2, <4>1 DEF WatchSeesDown, Call
            <4>2. CASE ~(checkTime >= 1)
                BY <2>2, <4>2 DEF WatchSeesDown
            <4> QED
                BY <4>1, <4>2
        <3>2. checkTime' \in 0..2
            BY <2>2 DEF WatchSeesDown
        <3>3. UNCHANGED <<editVars, procVars, need, manual, lock, read, cause, boundVars>>
            BY <2>2 DEF WatchSeesDown
        <3> QED
            BY <3>1, <3>2, <3>3 DEF TypeOK, CoreInv
    <2> QED
        BY <1>4, <2>1, <2>2 DEF WatchRuns
<1> QED
    BY <1>1, <1>2, <1>3, <1>4

-----------------------------------------------------------------------------
(* Edits of inbounds *)

\* What an edit leaves alone is all that the lock and the one core depend on.
LEMMA EditKeepsCore ==
    ASSUME TypeOK, CoreInv, EditInv, NEW t \in Tags, EditBegins(t) \/ EditProceeds(t)
    PROVE  /\ UNCHANGED <<p, cores, stuck, config, manual, lock, at, read, checkTime, crashes>>
           /\ TypeOK' /\ CoreInv'
<1> USE BoundAssumption DEF editFrame
<1>1. UNCHANGED editFrame
    BY DEF EditBegins, EditProceeds, BeginAdd, BeginDel, BeginDelUnloaded, BeginUpdate, BeginRename,
           BeginToggle, ApiDel, ApiAdd, Commit, CommitFails, CommitIsLost, DelIsUncounted, SetToNeedRestart
<1>2. edit[t].to \in Contents \cup {None} /\ edit[t].on \in BOOLEAN
    BY DEF EditInv, Edits
<1>3. fails' \in 0..MaxFails /\ need' \in BOOLEAN /\ cause' \in {"none", "skipped", "other"}
    <2>1. fails' = fails \/ (fails < MaxFails /\ fails' = fails + 1)
        BY DEF EditBegins, EditProceeds, BeginAdd, BeginDel, BeginDelUnloaded, BeginUpdate, BeginRename,
           BeginToggle, ApiDel, ApiAdd, Commit, CommitFails, CommitIsLost, DelIsUncounted, SetToNeedRestart
    <2>2. cause' = cause \/ Excuse("other")
        BY DEF EditBegins, EditProceeds, BeginAdd, BeginDel, BeginDelUnloaded, BeginUpdate, BeginRename,
           BeginToggle, ApiDel, ApiAdd, Commit, CommitFails, CommitIsLost, DelIsUncounted, SetToNeedRestart
    <2>3. need' = need \/ need' = (need \/ edit[t].want)
        BY DEF EditBegins, EditProceeds, BeginAdd, BeginDel, BeginDelUnloaded, BeginUpdate, BeginRename,
           BeginToggle, ApiDel, ApiAdd, Commit, CommitFails, CommitIsLost, DelIsUncounted, SetToNeedRestart
    <2>4. need' \in BOOLEAN
        BY <2>3 DEF TypeOK
    <2> QED
        BY <2>1, <2>2, <2>4 DEF TypeOK, Excuse
<1>4. live' \in [Ids -> [Tags -> Contents \cup {None}]]
    <2>1. \/ live' = live \/ live' = [live EXCEPT ![p][t] = None]
          \/ live' = [live EXCEPT ![p][t] = edit[t].to]
        BY DEF EditBegins, EditProceeds, BeginAdd, BeginDel, BeginDelUnloaded, BeginUpdate, BeginRename,
           BeginToggle, ApiDel, ApiAdd, Commit, CommitFails, CommitIsLost, DelIsUncounted, SetToNeedRestart
    <2>2. p \in Ids /\ live \in [Ids -> [Tags -> Contents \cup {None}]]
        BY DEF TypeOK
    <2> QED
        BY <1>2, <2>1, <2>2
<1>5. content' \in [Tags -> Contents \cup {None}]
    <2>1. \/ content' = content
          \/ content' = [content EXCEPT ![edit[t].peer] = None, ![t] = edit[t].to]
        BY DEF EditBegins, EditProceeds, BeginAdd, BeginDel, BeginDelUnloaded, BeginUpdate, BeginRename,
           BeginToggle, ApiDel, ApiAdd, Commit, CommitFails, CommitIsLost, DelIsUncounted, SetToNeedRestart,
           Written
    <2> QED
        BY <1>2, <2>1 DEF TypeOK
<1>6. enabled' \in [Tags -> BOOLEAN]
    <2>1. \/ enabled' = enabled
          \/ enabled' = [enabled EXCEPT ![edit[t].peer] = FALSE, ![t] = edit[t].on]
          \/ enabled' = [enabled EXCEPT ![t] = ~enabled[t]]
        BY DEF EditBegins, EditProceeds, BeginAdd, BeginDel, BeginDelUnloaded, BeginUpdate, BeginRename,
           BeginToggle, ApiDel, ApiAdd, Commit, CommitFails, CommitIsLost, DelIsUncounted, SetToNeedRestart,
           Written
    <2> QED
        BY <1>2, <2>1 DEF TypeOK
<1> QED
    BY <1>1, <1>3, <1>4, <1>5, <1>6 DEF TypeOK, CoreInv

\* Whether an edit is half of a rename.
IsMove(e) == e.op \in {"moveFrom", "moveTo"}

\* An edit goes on, begins or is over at its own tag: the pairs stay paired.
LEMMA OwnTagKeepsPairs ==
    ASSUME EditInv, NEW t \in Tags, NEW f \in Edits, edit' = [edit EXCEPT ![t] = f],
           \/ f.op = edit[t].op /\ f.peer = edit[t].peer
           \/ ~IsMove(edit[t]) /\ ~IsMove(f) /\ (f.op # "none" => f.peer = t)
    PROVE  edit' \in [Tags -> Edits] /\ \A s \in Tags : Paired(s)'
<1>1. edit'[t] = f /\ \A s \in Tags \ {t} : edit'[s] = edit[s]
    BY DEF EditInv
<1>2. edit' \in [Tags -> Edits]
    BY DEF EditInv
<1>3. \A s \in Tags : Paired(s)
    BY DEF EditInv
<1>4. CASE f.op = edit[t].op /\ f.peer = edit[t].peer
    <2>1. \A s \in Tags : edit'[s].op = edit[s].op /\ edit'[s].peer = edit[s].peer
        BY <1>1, <1>4
    <2> QED
        BY <1>2, <1>3, <2>1 DEF Paired
<1>5. CASE ~IsMove(edit[t]) /\ ~IsMove(f) /\ (f.op # "none" => f.peer = t)
    <2>1. Paired(t)'
        BY <1>1, <1>5 DEF Paired, IsMove
    <2>2. ASSUME NEW s \in Tags \ {t} PROVE Paired(s)'
        <3>1. Paired(s)
            BY <1>3
        <3>2. ASSUME IsMove(edit[s]) PROVE edit[s].peer \in Tags \ {t}
            BY <1>5, <3>1, <3>2 DEF Paired, IsMove
        <3> QED
            BY <1>1, <3>1, <3>2 DEF Paired, IsMove
    <2> QED
        BY <1>2, <2>1, <2>2
<1> QED
    BY <1>4, <1>5

\* An edit is over, together with its peer's.
LEMMA EndKeepsPairs ==
    ASSUME EditInv, NEW t \in Tags, NEW f \in Edits, AtCommit(t), Ends(t, f), f.op = "none"
    PROVE  edit' \in [Tags -> Edits] /\ \A s \in Tags : Paired(s)'
<1> DEFINE q == edit[t].peer
<1>1. NoEdit \in Edits /\ NoEdit.op = "none"
    BY DEF NoEdit, Edits, EditOps, EditSteps
<1>2. edit' = [edit EXCEPT ![q] = NoEdit, ![t] = f] /\ edit \in [Tags -> Edits]
    BY DEF Ends, EditInv
<1>3. edit' \in [Tags -> Edits]
    BY <1>1, <1>2
<1>4. /\ edit'[t] = f
      /\ \A s \in Tags \ {t} : edit'[s] = IF s = q THEN NoEdit ELSE edit[s]
    BY <1>2
<1>5. \A s \in Tags : Paired(s) /\ Proper(edit[s])
    BY DEF EditInv
<1>6. edit[t].op \notin {"none", "moveFrom"}
    BY <1>5 DEF AtCommit, Proper
<1>7. q = t \/ (q \in Tags \ {t} /\ edit[t].op = "moveTo" /\ edit[q].peer = t /\ edit[q].op = "moveFrom")
    BY <1>5, <1>6 DEF Paired
<1>8. edit[t].op # "moveTo" => q = t
    BY <1>5, <1>6 DEF Paired
<1>9. ASSUME NEW s \in Tags PROVE Paired(s)'
    <2>1. CASE s = t \/ s = q
        <3>1. edit'[s].op = "none"
            BY <1>1, <1>4, <2>1
        <3> QED
            BY <3>1 DEF Paired
    <2>2. CASE s # t /\ s # q
        <3>1. edit'[s] = edit[s] /\ Paired(s)
            BY <1>4, <1>5, <2>2
        <3>2. ASSUME IsMove(edit[s]) PROVE edit[s].peer \in Tags \ {t, q}
            <4>1. edit[s].peer \in Tags \ {s} /\ edit[edit[s].peer].peer = s /\ IsMove(edit[edit[s].peer])
                BY <3>1, <3>2 DEF Paired, IsMove
            <4>2. edit[s].peer # t
                BY <1>7, <1>8, <2>2, <4>1 DEF IsMove
            <4>3. edit[s].peer # q
                BY <1>7, <2>2, <4>1, <4>2
            <4> QED
                BY <4>1, <4>2, <4>3
        <3>3. ASSUME IsMove(edit[s]) PROVE edit'[edit[s].peer] = edit[edit[s].peer]
            BY <1>4, <3>2, <3>3
        <3> QED
            BY <3>1, <3>2, <3>3 DEF Paired, IsMove
    <2> QED
        BY <2>1, <2>2
<1> QED
    BY <1>3, <1>9

\* The edit of one inbound says nothing about another; nothing else touches edits.
LEMMA EditStep == TypeOK /\ EditInv /\ [Next]_vars => EditInv'
<1> SUFFICES ASSUME TypeOK, EditInv, [Next]_vars
    PROVE EditInv'
    OBVIOUS
<1>1. ASSUME UNCHANGED editVars
      PROVE EditInv'
    BY <1>1 DEF editVars, EditInv, Toggled, Paired
<1>2. ASSUME NEW t \in Tags, NEW f \in Edits, edit' = [edit EXCEPT ![t] = f],
             UNCHANGED content, NEW o \in BOOLEAN, enabled' = [enabled EXCEPT ![t] = o], Proper(f),
             f.op = "toggle" => o = f.on /\ content[t] = f.to,
             \/ f.op = edit[t].op /\ f.peer = edit[t].peer
             \/ ~IsMove(edit[t]) /\ ~IsMove(f) /\ (f.op # "none" => f.peer = t)
      PROVE EditInv'
    <2>1. edit' \in [Tags -> Edits] /\ \A s \in Tags : Paired(s)'
        BY <1>2, OwnTagKeepsPairs
    <2>2. edit'[t] = f /\ content'[t] = content[t] /\ enabled'[t] = o
        BY <1>2 DEF EditInv, TypeOK
    <2>3. \A s \in Tags \ {t} : edit'[s] = edit[s] /\ content'[s] = content[s] /\ enabled'[s] = enabled[s]
        BY <1>2 DEF EditInv, TypeOK
    <2>4. \A s \in Tags : Proper(edit'[s]) /\ Toggled(s)'
        BY <1>2, <2>2, <2>3 DEF EditInv, Toggled
    <2> QED
        BY <2>1, <2>4 DEF EditInv
<1>3. ASSUME NEW t \in Tags, EditBegins(t) \/ EditProceeds(t)
      PROVE EditInv'
    <2> DEFINE e == edit[t]
    <2>1. /\ e \in Edits /\ content[t] \in Contents \cup {None} /\ enabled[t] \in BOOLEAN
          /\ enabled = [enabled EXCEPT ![t] = enabled[t]]
          /\ e.op \in EditOps /\ e.on \in BOOLEAN /\ e.want \in BOOLEAN /\ e.to \in Contents \cup {None}
          /\ e.peer \in Tags \cup {None}
        BY DEF EditInv, TypeOK, Edits
    <2>2. Proper(e) /\ Toggled(t) /\ Paired(t)
        BY DEF EditInv
    <2>3. ASSUME NEW w \in BOOLEAN
          PROVE  /\ Flagged(w) \in Edits /\ Flagged(w).op = "none" /\ Proper(Flagged(w))
                 /\ NoEdit \in Edits /\ NoEdit.op = "none" /\ Proper(NoEdit)
        BY DEF Flagged, NoEdit, Edits, EditOps, EditSteps, Proper
    <2>4. ASSUME NEW f \in Edits, edit' = [edit EXCEPT ![t] = f],
                 UNCHANGED <<content, enabled>>, Proper(f),
                 f.op = "toggle" => enabled[t] = f.on /\ content[t] = f.to,
                 \/ f.op = e.op /\ f.peer = e.peer
                 \/ ~IsMove(e) /\ ~IsMove(f) /\ (f.op # "none" => f.peer = t)
          PROVE EditInv'
        BY <1>2, <2>1, <2>4
    <2>5. ASSUME e.step = "idle" PROVE ~IsMove(e)
        BY <2>2, <2>5 DEF Proper, IsMove
    <2>6. CASE BeginAdd(t)
        <3>1. PICK c \in Contents, on \in BOOLEAN :
                edit' = [edit EXCEPT ![t] =
                    [op |-> "add", step |-> IF on THEN "apiAdd" ELSE "commit",
                     on |-> on, to |-> c, peer |-> t, want |-> FALSE]]
            BY <2>6 DEF BeginAdd
        <3> DEFINE f == [op |-> "add", step |-> IF on THEN "apiAdd" ELSE "commit",
                         on |-> on, to |-> c, peer |-> t, want |-> FALSE]
        <3>2. f \in Edits /\ Proper(f) /\ ~IsMove(f) /\ f.peer = t /\ f.op # "toggle"
            BY DEF Edits, EditOps, EditSteps, Proper, IsMove
        <3>3. e.step = "idle" /\ UNCHANGED <<content, enabled>>
            BY <2>6 DEF BeginAdd
        <3> HIDE DEF f
        <3> QED
            BY <2>4, <2>5, <3>1, <3>2, <3>3 DEF f
    <2>7. ASSUME NEW st \in {"apiDel", "commit"}, DelEdit(t, st), e.step = "idle",
                 UNCHANGED <<content, enabled>>
          PROVE  EditInv'
        <3> DEFINE f == [op |-> "del", step |-> st, on |-> FALSE, to |-> None, peer |-> t, want |-> FALSE]
        <3>1. f \in Edits /\ Proper(f) /\ ~IsMove(f) /\ f.peer = t /\ f.op # "toggle"
            BY DEF Edits, EditOps, EditSteps, Proper, IsMove
        <3>2. edit' = [edit EXCEPT ![t] = f]
            BY <2>7 DEF DelEdit
        <3> HIDE DEF f
        <3> QED
            BY <2>4, <2>5, <2>7, <3>1, <3>2
    <2>8. CASE BeginDel(t) \/ BeginDelUnloaded(t)
        BY <2>7, <2>8 DEF BeginDel, BeginDelUnloaded
    <2>9. CASE BeginUpdate(t)
        <3>1. PICK c \in Contents, on \in BOOLEAN :
                edit' = [edit EXCEPT ![t] =
                    [op |-> "update", step |-> "apiDel", on |-> on, to |-> c, peer |-> t, want |-> FALSE]]
            BY <2>9 DEF BeginUpdate
        <3> DEFINE f == [op |-> "update", step |-> "apiDel", on |-> on, to |-> c, peer |-> t, want |-> FALSE]
        <3>2. f \in Edits /\ Proper(f) /\ ~IsMove(f) /\ f.peer = t /\ f.op # "toggle"
            BY DEF Edits, EditOps, EditSteps, Proper, IsMove
        <3>3. e.step = "idle" /\ UNCHANGED <<content, enabled>>
            BY <2>9 DEF BeginUpdate
        <3> HIDE DEF f
        <3> QED
            BY <2>4, <2>5, <3>1, <3>2, <3>3 DEF f
    <2>10. CASE BeginToggle(t)
        <3> DEFINE f == [op |-> "toggle", step |-> "apiDel", on |-> ~enabled[t], to |-> content[t],
                         peer |-> t, want |-> FALSE]
        <3>1. f \in Edits /\ Proper(f) /\ ~IsMove(f) /\ f.peer = t
            BY <2>1 DEF Edits, EditOps, EditSteps, Proper, IsMove
        <3>2. edit' = [edit EXCEPT ![t] = f] /\ enabled' = [enabled EXCEPT ![t] = ~enabled[t]]
              /\ UNCHANGED content /\ e.step = "idle"
            BY <2>10 DEF BeginToggle
        <3>3. f.on = (~enabled[t]) /\ f.to = content[t] /\ (~enabled[t]) \in BOOLEAN
            OBVIOUS
        <3> HIDE DEF f
        <3> QED
            BY <1>2, <2>5, <3>1, <3>2, <3>3
    <2>11. CASE BeginRename(t)
        <3>1. PICK s \in Tags \ {t}, c \in Contents, on \in BOOLEAN :
                /\ edit[s].step = "idle"
                /\ edit' = [edit EXCEPT
                      ![t] = [op |-> "moveFrom", step |-> "apiDel", on |-> FALSE, to |-> None,
                              peer |-> s, want |-> FALSE],
                      ![s] = [op |-> "moveTo", step |-> IF on THEN "apiAdd" ELSE "commit",
                              on |-> on, to |-> c, peer |-> t, want |-> FALSE]]
            BY <2>11 DEF BeginRename
        <3> DEFINE g == [op |-> "moveFrom", step |-> "apiDel", on |-> FALSE, to |-> None,
                         peer |-> s, want |-> FALSE]
                   h == [op |-> "moveTo", step |-> IF on THEN "apiAdd" ELSE "commit",
                         on |-> on, to |-> c, peer |-> t, want |-> FALSE]
        <3>2. /\ g \in Edits /\ Proper(g) /\ g.op = "moveFrom" /\ g.peer = s
              /\ h \in Edits /\ Proper(h) /\ h.op = "moveTo" /\ h.peer = t
            BY DEF Edits, EditOps, EditSteps, Proper
        <3>3. edit' = [edit EXCEPT ![t] = g, ![s] = h] /\ edit[s].step = "idle"
            BY <3>1
        <3> HIDE DEF g, h
        <3>4. /\ edit' \in [Tags -> Edits] /\ edit'[t] = g /\ edit'[s] = h
              /\ \A r \in Tags \ {s, t} : edit'[r] = edit[r]
            BY <3>2, <3>3 DEF EditInv
        <3>5. UNCHANGED <<content, enabled>> /\ e.step = "idle"
            BY <2>11 DEF BeginRename
        <3>6. e.op = "none" /\ edit[s].op = "none"
            BY <2>2, <3>3, <3>5 DEF EditInv, Proper
        <3>7. ASSUME NEW r \in Tags PROVE Proper(edit'[r]) /\ Toggled(r)' /\ Paired(r)'
            <4>1. CASE r \in {s, t}
                BY <3>2, <3>4, <4>1 DEF Toggled, Paired
            <4>2. CASE r \notin {s, t}
                <5>1. edit'[r] = edit[r] /\ Proper(edit[r]) /\ Toggled(r) /\ Paired(r)
                    BY <3>4, <4>2 DEF EditInv
                <5>2. ASSUME IsMove(edit[r]) PROVE edit[r].peer \in Tags \ {s, t}
                    BY <3>6, <5>1, <5>2 DEF Paired, IsMove
                <5>3. Paired(r)'
                    BY <3>4, <5>1, <5>2 DEF Paired, IsMove
                <5> QED
                    BY <3>5, <5>1, <5>3 DEF Toggled
            <4> QED
                BY <4>1, <4>2
        <3> QED
            BY <3>4, <3>7 DEF EditInv
    <2>12. CASE ApiDel(t)
        <3>1. PICK w \in BOOLEAN : /\ edit' = [edit EXCEPT ![t] = AfterDel(e, w)]
                                   /\ e.op = "moveFrom" => ~w
            <4>1. \/ edit' = [edit EXCEPT ![t] = AfterDel(e, e.want)]
                  \/ edit' = [edit EXCEPT ![t] = AfterDel(e, e.op = "del")]
                  \/ edit' = [edit EXCEPT ![t] = AfterDel(e, e.op \notin {"update", "moveFrom"})]
                BY <2>12 DEF ApiDel
            <4>2. (e.op = "moveFrom" => ~e.want) /\ e.want \in BOOLEAN
                BY <2>1, <2>2 DEF Proper
            <4> QED
                BY <4>1, <4>2
        <3>2. e.step = "apiDel" /\ UNCHANGED <<content, enabled>>
            BY <2>12 DEF ApiDel
        <3>3. e.op # "none"
            BY <2>2, <3>2 DEF Proper
        <3>4. CASE e.on
            <4>1. AfterDel(e, w) = [e EXCEPT !.step = "apiAdd", !.want = w]
                BY <3>4, Zenon DEF AfterDel
            <4> DEFINE f == [e EXCEPT !.step = "apiAdd", !.want = w]
            <4>2. /\ f \in Edits /\ f.op = e.op /\ f.peer = e.peer /\ f.on = e.on /\ f.to = e.to
                  /\ f.step = "apiAdd"
                BY <2>1 DEF Edits, EditSteps
            <4>3. edit' = [edit EXCEPT ![t] = f]
                BY <3>1, <4>1
            <4> HIDE DEF f
            <4>4. Proper(f)
                BY <2>2, <3>3, <3>4, <4>2 DEF Proper
            <4>5. f.op = "toggle" => enabled[t] = f.on /\ content[t] = f.to
                BY <2>2, <4>2 DEF Toggled
            <4> QED
                BY <2>4, <3>2, <4>2, <4>3, <4>4, <4>5
        <3>5. CASE ~e.on /\ e.op = "toggle"
            <4>1. AfterDel(e, w) = Flagged(w)
                BY <3>5, Zenon DEF AfterDel
            <4> QED
                BY <2>3, <2>4, <3>1, <3>2, <3>5, <4>1 DEF IsMove
        <3>6. CASE ~e.on /\ e.op # "toggle"
            <4>1. AfterDel(e, w) = [e EXCEPT !.step = "commit", !.want = w]
                BY <3>6, Zenon DEF AfterDel
            <4> DEFINE f == [e EXCEPT !.step = "commit", !.want = w]
            <4>2. /\ f \in Edits /\ f.op = e.op /\ f.peer = e.peer /\ f.on = e.on /\ f.want = w
                  /\ f.step = "commit"
                BY <2>1 DEF Edits, EditSteps
            <4>3. edit' = [edit EXCEPT ![t] = f]
                BY <3>1, <4>1
            <4> HIDE DEF f
            <4>4. Proper(f)
                BY <3>1, <3>3, <3>6, <4>2 DEF Proper
            <4> QED
                BY <2>4, <3>2, <3>6, <4>2, <4>3, <4>4
        <3> QED
            BY <3>4, <3>5, <3>6
    <2>13. CASE ApiAdd(t)
        <3>1. PICK w \in BOOLEAN : edit' = [edit EXCEPT ![t] = AfterAdd(e, w)]
            BY <2>1, <2>13 DEF ApiAdd
        <3>2. e.step = "apiAdd" /\ UNCHANGED <<content, enabled>>
            BY <2>13 DEF ApiAdd
        <3>3. e.op # "none" /\ e.on
            BY <2>2, <3>2 DEF Proper
        <3>4. CASE e.op = "toggle"
            <4>1. AfterAdd(e, w) = Flagged(w)
                BY <3>4 DEF AfterAdd
            <4> QED
                BY <2>3, <2>4, <3>1, <3>2, <3>4, <4>1 DEF IsMove
        <3>5. CASE e.op # "toggle"
            <4> DEFINE f == [e EXCEPT !.step = "commit", !.want = w]
            <4>1. AfterAdd(e, w) = f
                BY <3>5 DEF AfterAdd
            <4>2. /\ f \in Edits /\ f.op = e.op /\ f.peer = e.peer /\ f.on = e.on
                  /\ f.step = "commit"
                BY <2>1 DEF Edits, EditSteps
            <4>3. edit' = [edit EXCEPT ![t] = f]
                BY <3>1, <4>1
            <4> HIDE DEF f
            <4>4. Proper(f)
                BY <2>2, <3>3, <3>5, <4>2 DEF Proper
            <4> QED
                BY <2>4, <3>2, <3>5, <4>2, <4>3, <4>4
        <3> QED
            BY <3>4, <3>5
    <2>14. ASSUME NEW f \in Edits, AtCommit(t), Ends(t, f), f.op = "none", Proper(f),
                  Written(t) \/ UNCHANGED <<content, enabled>>
           PROVE  EditInv'
        <3>1. edit' \in [Tags -> Edits] /\ \A s \in Tags : Paired(s)'
            BY <2>14, EndKeepsPairs
        <3>2. \A s \in Tags \ {t, e.peer} : /\ edit'[s] = edit[s] /\ content'[s] = content[s]
                                            /\ enabled'[s] = enabled[s]
            BY <2>14 DEF EditInv, TypeOK, Written, Ends
        <3>3. edit'[t] = f /\ (e.peer \in Tags => edit'[e.peer] \in {f, NoEdit})
            BY <2>14 DEF EditInv, Ends
        <3>4. NoEdit.op = "none" /\ Proper(NoEdit)
            BY <2>3
        <3>5. ASSUME NEW s \in Tags PROVE Proper(edit'[s]) /\ Toggled(s)'
            <4>1. CASE s \in {t, e.peer}
                BY <2>14, <3>3, <3>4, <4>1 DEF Toggled
            <4>2. CASE s \notin {t, e.peer}
                BY <3>2, <4>2 DEF EditInv, Toggled
            <4> QED
                BY <4>1, <4>2
        <3> QED
            BY <3>1, <3>5 DEF EditInv
    <2>15. CASE Commit(t) \/ CommitFails(t) \/ CommitIsLost(t) \/ DelIsUncounted(t)
        <3>1. /\ AtCommit(t) /\ (Written(t) \/ UNCHANGED <<content, enabled>>)
              /\ Ends(t, Flagged(e.want)) \/ Ends(t, NoEdit)
            BY <2>15 DEF Commit, CommitFails, CommitIsLost, DelIsUncounted
        <3> QED
            BY <2>1, <2>3, <2>14, <3>1
    <2>16. CASE SetToNeedRestart(t)
        <3>1. edit' = [edit EXCEPT ![t] = NoEdit] /\ UNCHANGED <<content, enabled>> /\ e.step = "flag"
            BY <2>16 DEF SetToNeedRestart
        <3>2. ~IsMove(e) /\ ~IsMove(NoEdit)
            BY <2>2, <2>3, <3>1 DEF Proper, IsMove
        <3> QED
            BY <2>3, <2>4, <3>1, <3>2
    <2> QED
        BY <1>3, <2>6, <2>8, <2>9, <2>10, <2>11, <2>12, <2>13, <2>15, <2>16 DEF EditBegins, EditProceeds
<1>4. CASE UNCHANGED vars
    BY <1>1, <1>4 DEF vars
<1>5. ASSUME NEW a \in Actors, RestartXray(a)
      PROVE UNCHANGED editVars
    BY <1>5 DEF RestartXray, RestartEnters, RestartReads, RestartCannotRead, RestartSkips,
                RestartStopsOld, RestartStarts, Return
<1>6. ASSUME NEW w \in Watchers, WatchRuns(w)
      PROVE UNCHANGED editVars
    BY <1>6 DEF WatchRuns, WatchSeesUp, WatchSeesDown
<1>7. CASE CronFires \/ UserRestarts \/ TrafficJobRestarts \/ StopXray \/ Crash \/ StuckCoreDies
    BY <1>1, <1>7 DEF CronFires, UserRestarts, TrafficJobRestarts, StopXray, Crash, StuckCoreDies
<1> QED
    BY <1>1, <1>3, <1>4, <1>5, <1>6, <1>7 DEF Next


-----------------------------------------------------------------------------
(* The core and the database *)

\* What happened stays recorded.
LEMMA CauseIsKept == [Next]_vars /\ cause' = "none" => cause = "none"
<1> SUFFICES ASSUME [Next]_vars PROVE cause' = cause \/ Excuse("other") \/ Excuse("skipped")
    BY DEF Excuse
<1>1. ASSUME NEW a \in Actors, RestartXray(a)
      PROVE cause' = cause \/ Excuse("other") \/ Excuse("skipped")
    BY <1>1 DEF RestartXray, RestartEnters, RestartReads, RestartCannotRead, RestartSkips,
                RestartStopsOld, RestartStarts
<1>2. ASSUME NEW t \in Tags, EditBegins(t) \/ EditProceeds(t)
      PROVE cause' = cause \/ Excuse("other") \/ Excuse("skipped")
    BY <1>2 DEF EditBegins, EditProceeds, BeginAdd, BeginDel, BeginDelUnloaded,
           BeginUpdate, BeginRename, BeginToggle, ApiDel, ApiAdd, Commit, CommitFails, CommitIsLost,
           DelIsUncounted, SetToNeedRestart
<1>3. ASSUME NEW w \in Watchers, WatchRuns(w)
      PROVE cause' = cause
    BY <1>3 DEF WatchRuns, WatchSeesUp, WatchSeesDown
<1>4. CASE CronFires \/ UserRestarts \/ TrafficJobRestarts \/ StopXray \/ Crash \/ StuckCoreDies
    BY <1>4 DEF CronFires, UserRestarts, TrafficJobRestarts, StopXray, Crash, StuckCoreDies
<1>5. CASE UNCHANGED vars
    BY <1>5 DEF vars
<1> QED
    BY <1>1, <1>2, <1>3, <1>4, <1>5 DEF Next

\* A step that touches neither the inbounds nor the core, and drops no request.
LEMMA SyncFrame ==
    ASSUME SyncInv, [Next]_vars, UNCHANGED <<editVars, p, cores, live>>,
           Asked => Asked' \/ cause' # "none"
    PROVE  SyncInv'
<1> SUFFICES ASSUME Running', cause' = "none", ~Asked'
             PROVE  \A t \in Tags : edit'[t].want \/ Matches(t)'
    BY DEF SyncInv
<1>1. Running /\ cause = "none" /\ ~Asked
    BY CauseIsKept DEF Running
<1>2. \A t \in Tags : edit[t].want \/ Matches(t)
    BY <1>1 DEF SyncInv
<1> QED
    BY <1>2 DEF Matches, GetXrayConfig, editVars

\* RestartXray: a request is answered by a core that is started from the
\* database as it is, or survives in the flag, or its loss is recorded.
LEMMA RestartSync ==
    ASSUME TypeOK, TypeOK', CoreInv, SyncInv, NEW a \in Actors, RestartXray(a)
    PROVE  SyncInv'
<1> USE DEF editVars, procVars, boundVars
<1>0. [Next]_vars
    BY DEF Next
<1>1. CASE RestartEnters(a)
    BY <1>0, <1>1, SyncFrame DEF RestartEnters, Asked, TypeOK
<1>2. CASE RestartReads(a)
    BY <1>0, <1>2, SyncFrame DEF RestartReads, Asked, TypeOK
<1>3. ASSUME NEW failed \in BOOLEAN, Return(a, failed), a # Cron, Asked
      PROVE  Asked'
    <2>1. at' = [at EXCEPT ![a] = "idle"] /\ (need => need')
        BY <1>3 DEF Return
    <2> QED
        BY <1>3, <2>1 DEF Asked, TypeOK
<1>4. CASE RestartCannotRead(a)
    <2>1. UNCHANGED <<editVars, p, cores, live>>
        BY <1>4 DEF RestartCannotRead, Return
    <2>2. a # Cron \/ cause' # "none"
        BY <1>4 DEF RestartCannotRead, Excuse
    <2>3. Return(a, TRUE)
        BY <1>4 DEF RestartCannotRead
    <2> QED
        BY <1>0, <1>3, <2>1, <2>2, <2>3, SyncFrame
<1>5. CASE RestartSkips(a)
    <2>1. UNCHANGED <<editVars, p, cores, live>>
        BY <1>5 DEF RestartSkips, Return
    <2>2. a # Cron \/ cause' # "none"
        BY <1>5 DEF RestartSkips, Excuse
    <2>3. Return(a, FALSE)
        BY <1>5 DEF RestartSkips
    <2> QED
        BY <1>0, <1>3, <2>1, <2>2, <2>3, SyncFrame
<1>6. CASE RestartStopsOld(a)
    <2>1. CASE cores' = cores \ {p}
        BY <1>6, <2>1 DEF RestartStopsOld, SyncInv, Running
    <2>2. CASE cores' = cores
        <3>1. Asked => Asked'
            BY <1>6 DEF RestartStopsOld, Asked, TypeOK
        <3> QED
            BY <1>0, <1>6, <2>2, <3>1, SyncFrame DEF RestartStopsOld
    <2> QED
        BY <1>6, <2>1, <2>2 DEF RestartStopsOld
<1>7. CASE RestartStarts(a)
    <2> DEFINE i == CHOOSE j \in FreeIds : TRUE
    <2>1. i \in Ids /\ i # p /\ i \notin cores
        BY <1>7, FreshHandle DEF RestartStarts
    <2>2. p' = i /\ UNCHANGED editVars
        BY <1>7 DEF RestartStarts, Return
    <2>3. CASE cores' = cores
        <3> HIDE DEF i
        <3> QED
            BY <2>1, <2>2, <2>3 DEF SyncInv, Running
    <2>4. CASE /\ live' = [live EXCEPT ![p] = Nothing, ![i] = read]
               /\ IF read # GetXrayConfig \/ \E t \in Tags : edit[t].step = "commit"
                  THEN Excuse("other") ELSE UNCHANGED cause
        <3> HIDE DEF i
        <3> SUFFICES ASSUME cause' = "none"
                     PROVE  \A t \in Tags : Matches(t)'
            BY DEF SyncInv
        <3>1. read = GetXrayConfig /\ \A t \in Tags : edit[t].step # "commit"
            BY <2>4 DEF Excuse
        <3>2. live'[p'] = read
            <4>1. live \in [Ids -> [Tags -> Contents \cup {None}]]
                BY DEF TypeOK
            <4> QED
                BY <2>1, <2>2, <2>4, <4>1
        <3> QED
            BY <2>2, <3>1, <3>2 DEF Matches, GetXrayConfig
    <2> QED
        BY <1>7, <2>3, <2>4 DEF RestartStarts
<1> QED
    BY <1>1, <1>2, <1>4, <1>5, <1>6, <1>7 DEF RestartXray

\* An edit either leaves the core with what the database has, or will have, for
\* its inbound, or remembers to ask for a restart, or its silence is recorded.
LEMMA EditSync ==
    ASSUME TypeOK, EditInv, EditInv', NEW t \in Tags, EditBegins(t) \/ EditProceeds(t),
           p' = p, at' = at,
           Running, cause' = "none", edit[t].want \/ Matches(t), ~Asked'
    PROVE  edit'[t].want \/ Matches(t)'
<1> DEFINE e == edit[t]
<1>1. /\ live[p] \in [Tags -> Contents \cup {None}] /\ p \in Ids
      /\ live \in [Ids -> [Tags -> Contents \cup {None}]]
      /\ content[t] \in Contents \cup {None} /\ enabled[t] \in BOOLEAN
    BY DEF TypeOK
<1>2. e \in Edits /\ edit \in [Tags -> Edits] /\ Proper(e) /\ Toggled(t)
    BY DEF EditInv
<1>3. /\ e.op \in EditOps /\ e.step \in EditSteps /\ e.on \in BOOLEAN
      /\ e.to \in Contents \cup {None} /\ e.want \in BOOLEAN
    BY <1>2 DEF Edits
<1>4. ASSUME NEW f, edit' = [edit EXCEPT ![t] = f]
      PROVE  edit'[t] = f
    BY <1>2, <1>4
<1>5. ASSUME NEW c, live' = [live EXCEPT ![p][t] = c]
      PROVE  live'[p'][t] = c
    BY <1>1, <1>5
<1>6. CASE e.step = "idle"
    <2>1. Matches(t) /\ live[p][t] = IF enabled[t] THEN content[t] ELSE None
        BY <1>2, <1>6 DEF Proper, Matches, GetXrayConfig
    <2>2. CASE BeginAdd(t)
        <3>1. PICK c \in Contents, on \in BOOLEAN :
                edit' = [edit EXCEPT ![t] =
                    [op |-> "add", step |-> IF on THEN "apiAdd" ELSE "commit",
                     on |-> on, to |-> c, peer |-> t, want |-> FALSE]]
            BY <2>2 DEF BeginAdd
        <3>2. edit'[t] = [op |-> "add", step |-> IF on THEN "apiAdd" ELSE "commit",
                     on |-> on, to |-> c, peer |-> t, want |-> FALSE]
            BY <1>4, <3>1
        <3>3. live[p][t] = None /\ live' = live
            BY <2>1, <2>2 DEF BeginAdd
        <3> QED
            BY <3>2, <3>3 DEF Matches
    <2>3. CASE BeginDel(t) \/ BeginDelUnloaded(t)
        <3>1. PICK st \in {"apiDel", "commit"} :
                DelEdit(t, st) /\ live' = live /\ (st = "commit" => ~enabled[t])
            BY <2>3 DEF BeginDel, BeginDelUnloaded, Excuse
        <3>2. edit'[t] = [op |-> "del", step |-> st, on |-> FALSE, to |-> None, peer |-> t, want |-> FALSE]
            BY <1>4, <3>1 DEF DelEdit
        <3> QED
            BY <2>1, <3>1, <3>2 DEF Matches
    <2>4. CASE BeginUpdate(t) \/ BeginRename(t) \/ BeginToggle(t)
        <3>1. edit'[t].step = "apiDel"
            <4>1. CASE BeginUpdate(t) \/ BeginToggle(t)
                BY <1>4, <4>1 DEF BeginUpdate, BeginToggle
            <4>2. CASE BeginRename(t)
                <5>1. PICK s \in Tags \ {t}, c \in Contents, on \in BOOLEAN :
                        edit' = [edit EXCEPT
                          ![t] = [op |-> "moveFrom", step |-> "apiDel", on |-> FALSE, to |-> None,
                                  peer |-> s, want |-> FALSE],
                          ![s] = [op |-> "moveTo", step |-> IF on THEN "apiAdd" ELSE "commit",
                                  on |-> on, to |-> c, peer |-> t, want |-> FALSE]]
                    BY <4>2 DEF BeginRename
                <5>2. edit'[t] = [op |-> "moveFrom", step |-> "apiDel", on |-> FALSE, to |-> None,
                                  peer |-> s, want |-> FALSE]
                    BY <1>2, <5>1
                <5> QED
                    BY <5>2
            <4> QED
                BY <2>4, <4>1, <4>2
        <3> QED
            BY <3>1 DEF Matches
    <2> QED
        BY <1>6, <2>2, <2>3, <2>4
        DEF EditBegins, EditProceeds, ApiDel, ApiAdd, Commit, CommitFails, CommitIsLost, DelIsUncounted,
            AtCommit, SetToNeedRestart
<1>7. CASE ApiDel(t)
    <2> DEFINE known == Running /\ live[p][t] # None
               Drop  == live' = [live EXCEPT ![p][t] = None]
               silent == e.op \in {"update", "moveFrom"}
    <2>1. PICK w \in BOOLEAN :
            /\ edit' = [edit EXCEPT ![t] = AfterDel(e, w)]
            /\ w \/ live'[p'][t] = None \/ e.on
        <3>1. CASE known /\ Drop /\ edit' = [edit EXCEPT ![t] = AfterDel(e, e.want)]
            BY <1>3, <1>5, <3>1
        <3>2. CASE ~known /\ live' = live /\ edit' = [edit EXCEPT ![t] = AfterDel(e, e.op = "del")]
            BY <3>2
        <3>3. CASE /\ edit' = [edit EXCEPT ![t] = AfterDel(e, e.op \notin {"update", "moveFrom"})]
                   /\ (known /\ Drop) \/ UNCHANGED live
                   /\ IF silent /\ known /\ ~e.on /\ live'[p][t] # None
                      THEN Excuse("other") ELSE UNCHANGED cause
            <4>1. ~silent \/ e.on \/ live'[p'][t] = None
                <5>1. known \/ live'[p'][t] = None
                    BY <1>5, <3>3
                <5>2. ~(silent /\ known /\ ~e.on /\ live'[p][t] # None)
                    BY <3>3 DEF Excuse
                <5> QED
                    BY <5>1, <5>2
            <4> QED
                BY <3>3, <4>1
        <3>4. \/ known /\ Drop /\ edit' = [edit EXCEPT ![t] = AfterDel(e, e.want)]
              \/ ~known /\ live' = live /\ edit' = [edit EXCEPT ![t] = AfterDel(e, e.op = "del")]
              \/ /\ edit' = [edit EXCEPT ![t] = AfterDel(e, e.op \notin {"update", "moveFrom"})]
                 /\ (known /\ Drop) \/ UNCHANGED live
                 /\ IF silent /\ known /\ ~e.on /\ live'[p][t] # None
                    THEN Excuse("other") ELSE UNCHANGED cause
            BY <1>7 DEF ApiDel
        <3> QED
            BY <3>1, <3>2, <3>3, <3>4
    <2>2. edit'[t] = AfterDel(e, w)
        BY <1>4, <2>1
    <2>3. CASE e.on
        <3>1. AfterDel(e, w) = [e EXCEPT !.step = "apiAdd", !.want = w]
            BY <2>3, Zenon DEF AfterDel
        <3> QED
            BY <1>2, <2>2, <3>1 DEF Matches, Edits
    <2>4. CASE ~e.on /\ e.op = "toggle"
        <3>1. AfterDel(e, w) = Flagged(w)
            BY <2>4, Zenon DEF AfterDel
        <3>2. edit'[t].want = w /\ edit'[t].step = "flag"
            BY <2>2, <3>1 DEF Flagged, NoEdit
        <3>3. ~enabled'[t]
            BY <1>2, <1>7, <2>4 DEF ApiDel, Toggled
        <3>4. w \/ live'[p'][t] = GetXrayConfig'[t]
            BY <2>1, <2>4, <3>3 DEF GetXrayConfig
        <3> QED
            BY <3>2, <3>4 DEF Matches
    <2>5. CASE ~e.on /\ e.op # "toggle"
        <3>1. AfterDel(e, w) = [e EXCEPT !.step = "commit", !.want = w]
            BY <2>5, Zenon DEF AfterDel
        <3>2. edit'[t].want = w /\ edit'[t].step = "commit" /\ ~edit'[t].on
            BY <1>2, <2>2, <2>5, <3>1 DEF Edits
        <3> QED
            BY <2>1, <2>5, <3>2 DEF Matches
    <2> QED
        BY <2>3, <2>4, <2>5
<1>8. CASE ApiAdd(t)
    <2>1. PICK w \in BOOLEAN :
            /\ edit' = [edit EXCEPT ![t] = AfterAdd(e, w)]
            /\ w \/ live'[p'][t] = e.to
        <3>1. \/ live' = [live EXCEPT ![p][t] = e.to] /\ edit' = [edit EXCEPT ![t] = AfterAdd(e, e.want \/ FALSE)]
              \/ edit' = [edit EXCEPT ![t] = AfterAdd(e, e.want \/ TRUE)]
            BY <1>8 DEF ApiAdd
        <3> QED
            BY <1>3, <1>5, <3>1
    <2>2. edit'[t] = AfterAdd(e, w)
        BY <1>4, <2>1
    <2>3. e.on
        BY <1>2, <1>8 DEF ApiAdd, Proper
    <2>4. CASE e.op = "toggle"
        <3>1. edit'[t].want = w /\ edit'[t].step = "flag"
            BY <2>2, <2>4 DEF AfterAdd, Flagged, NoEdit
        <3>2. GetXrayConfig'[t] = e.to
            BY <1>2, <1>8, <2>3, <2>4 DEF ApiAdd, Toggled, GetXrayConfig
        <3> QED
            BY <2>1, <3>1, <3>2 DEF Matches
    <2>5. CASE e.op # "toggle"
        <3>1. AfterAdd(e, w) = [e EXCEPT !.step = "commit", !.want = w]
            BY <2>5 DEF AfterAdd
        <3>2. edit'[t].want = w /\ edit'[t].step = "commit" /\ edit'[t].on /\ edit'[t].to = e.to
            BY <1>2, <2>2, <2>3, <3>1 DEF Edits
        <3> QED
            BY <2>1, <3>2 DEF Matches
    <2> QED
        BY <2>4, <2>5
<1>9. ASSUME AtCommit(t), Written(t) PROVE GetXrayConfig'[t] = IF e.on THEN e.to ELSE None
    <2>1. content'[t] = e.to /\ enabled'[t] = e.on
        BY <1>9 DEF Written, TypeOK
    <2> QED
        BY <2>1 DEF GetXrayConfig
<1>10. CASE Commit(t)
    <2>1. edit'[t] = Flagged(e.want) /\ live' = live /\ e.step = "commit"
        BY <1>2, <1>10 DEF Commit, Ends, AtCommit
    <2>2. edit'[t].want = e.want /\ edit'[t].step = "flag"
        BY <2>1 DEF Flagged, NoEdit
    <2>3. GetXrayConfig'[t] = IF e.on THEN e.to ELSE None
        BY <1>9, <1>10 DEF Commit
    <2>4. e.want \/ live[p][t] = IF e.on THEN e.to ELSE None
        BY <2>1 DEF Matches
    <2> QED
        BY <2>1, <2>2, <2>3, <2>4 DEF Matches
<1>11. CASE CommitFails(t) \/ CommitIsLost(t)
    BY <1>11 DEF CommitFails, CommitIsLost, Excuse
<1>12. CASE DelIsUncounted(t)
    <2>1. edit'[t] = NoEdit /\ live' = live /\ e.step = "commit" /\ ~e.want
        BY <1>2, <1>12 DEF DelIsUncounted, Ends, AtCommit, Excuse
    <2>2. edit'[t].step = "idle"
        BY <2>1 DEF NoEdit
    <2>3. GetXrayConfig'[t] = IF e.on THEN e.to ELSE None
        BY <1>9, <1>12 DEF DelIsUncounted
    <2>4. live[p][t] = IF e.on THEN e.to ELSE None
        BY <2>1 DEF Matches
    <2> QED
        BY <2>1, <2>2, <2>3, <2>4 DEF Matches
<1>13. CASE SetToNeedRestart(t)
    <2>1. ~e.want
        BY <1>13 DEF SetToNeedRestart, Asked
    <2>2. live[p][t] = GetXrayConfig[t] /\ live' = live /\ content' = content /\ enabled' = enabled
        BY <1>13, <2>1 DEF SetToNeedRestart, Matches
    <2>3. edit'[t].step = "idle"
        BY <1>4, <1>13 DEF SetToNeedRestart, NoEdit
    <2> QED
        BY <2>2, <2>3 DEF Matches, GetXrayConfig
<1> QED
    BY <1>6, <1>7, <1>8, <1>10, <1>11, <1>12, <1>13
    DEF EditBegins, EditProceeds, BeginAdd, BeginDel, BeginDelUnloaded, BeginUpdate, BeginRename, BeginToggle

\* What the edit of one inbound does to those that are not its peer: nothing.
LEMMA OtherInbounds ==
    ASSUME TypeOK, EditInv, NEW t \in Tags, EditBegins(t) \/ EditProceeds(t), NEW s \in Tags, s # t,
           p' = p
    PROVE  /\ live'[p'][s] = live[p][s]
           /\ \/ edit'[s] = edit[s] /\ GetXrayConfig'[s] = GetXrayConfig[s]
              \/ BeginRename(t)
              \/ s = edit[t].peer /\ EditProceeds(t) /\ ~ApiDel(t) /\ ~ApiAdd(t) /\ ~SetToNeedRestart(t)
<1>1. live'[p][s] = live[p][s]
    <2>1. \/ live' = live \/ live' = [live EXCEPT ![p][t] = None]
          \/ live' = [live EXCEPT ![p][t] = edit[t].to]
        BY DEF EditBegins, EditProceeds, BeginAdd, BeginDel, BeginDelUnloaded, BeginUpdate, BeginRename,
           BeginToggle, ApiDel, ApiAdd, Commit, CommitFails, CommitIsLost, DelIsUncounted, SetToNeedRestart
    <2>2. p \in Ids /\ live \in [Ids -> [Tags -> Contents \cup {None}]]
        BY DEF TypeOK
    <2> QED
        BY <2>1, <2>2
<1>2. CASE Commit(t) \/ CommitFails(t) \/ CommitIsLost(t) \/ DelIsUncounted(t)
    <2>1. AtCommit(t) /\ (Ends(t, Flagged(edit[t].want)) \/ Ends(t, NoEdit))
          /\ (Written(t) \/ UNCHANGED <<content, enabled>>)
        BY <1>2 DEF Commit, CommitFails, CommitIsLost, DelIsUncounted
    <2>2. ASSUME s # edit[t].peer
          PROVE  edit'[s] = edit[s] /\ content'[s] = content[s] /\ enabled'[s] = enabled[s]
        BY <2>1, <2>2 DEF Ends, Written, EditInv, TypeOK
    <2>3. EditProceeds(t) /\ ~ApiDel(t) /\ ~ApiAdd(t) /\ ~SetToNeedRestart(t)
        BY <1>2, <2>1 DEF EditProceeds, AtCommit, ApiDel, ApiAdd, SetToNeedRestart
    <2> QED
        BY <1>1, <2>2, <2>3 DEF GetXrayConfig
<1>3. CASE \/ BeginAdd(t) \/ BeginDel(t) \/ BeginDelUnloaded(t) \/ BeginUpdate(t) \/ BeginToggle(t)
           \/ ApiDel(t) \/ ApiAdd(t) \/ SetToNeedRestart(t)
    <2>1. content'[s] = content[s] /\ enabled'[s] = enabled[s]
        BY <1>3 DEF BeginAdd, BeginDel, BeginDelUnloaded, BeginUpdate, BeginToggle, ApiDel, ApiAdd,
                    SetToNeedRestart, TypeOK
    <2>2. edit'[s] = edit[s]
        BY <1>3 DEF BeginAdd, BeginDel, BeginDelUnloaded, DelEdit, BeginUpdate, BeginToggle, ApiDel, ApiAdd,
                    SetToNeedRestart, EditInv
    <2> QED
        BY <1>1, <2>1, <2>2 DEF GetXrayConfig
<1> QED
    BY <1>1, <1>2, <1>3 DEF EditBegins, EditProceeds

\* The tag a rename goes to has nothing in the core yet; the tag it comes from
\* has nothing left there when the row moves.
LEMMA PeerSync ==
    ASSUME TypeOK, EditInv, NEW t \in Tags, EditBegins(t) \/ EditProceeds(t), NEW s \in Tags, s # t,
           p' = p, cause' = "none",
           live'[p'][s] = live[p][s], edit[s].want \/ Matches(s),
           \/ BeginRename(t)
           \/ s = edit[t].peer /\ EditProceeds(t) /\ ~ApiDel(t) /\ ~ApiAdd(t) /\ ~SetToNeedRestart(t)
    PROVE  edit'[s].want \/ Matches(s)'
<1>1. CASE BeginRename(t)
    <2>1. PICK q \in Tags \ {t}, c \in Contents, on \in BOOLEAN :
            /\ content[q] = None /\ edit[q].step = "idle"
            /\ edit' = [edit EXCEPT
                  ![t] = [op |-> "moveFrom", step |-> "apiDel", on |-> FALSE, to |-> None,
                          peer |-> q, want |-> FALSE],
                  ![q] = [op |-> "moveTo", step |-> IF on THEN "apiAdd" ELSE "commit",
                          on |-> on, to |-> c, peer |-> t, want |-> FALSE]]
        BY <1>1 DEF BeginRename
    <2>2. content' = content /\ enabled' = enabled /\ live' = live
        BY <1>1 DEF BeginRename
    <2>3. CASE s # q
        <3>1. edit'[s] = edit[s]
            BY <2>1, <2>3 DEF EditInv
        <3> QED
            BY <2>2, <3>1 DEF Matches, GetXrayConfig
    <2>4. CASE s = q
        <3>1. edit'[s] = [op |-> "moveTo", step |-> IF on THEN "apiAdd" ELSE "commit",
                          on |-> on, to |-> c, peer |-> t, want |-> FALSE]
            BY <2>1, <2>4 DEF EditInv
        <3>2. ~edit[s].want
            BY <2>1, <2>4 DEF EditInv, Proper
        <3>3. live'[p'][s] = None
            BY <2>1, <2>4, <3>2 DEF Matches, GetXrayConfig
        <3> QED
            BY <3>1, <3>3 DEF Matches
    <2> QED
        BY <2>3, <2>4
<1>2. CASE s = edit[t].peer /\ EditProceeds(t) /\ ~ApiDel(t) /\ ~ApiAdd(t) /\ ~SetToNeedRestart(t)
    <2>1. AtCommit(t)
        BY <1>2 DEF EditProceeds, Commit, CommitFails, CommitIsLost, DelIsUncounted
    <2>2. edit[t].op = "moveTo" /\ edit[s].op = "moveFrom"
        <3>1. Paired(t) /\ Proper(edit[t])
            BY DEF EditInv
        <3> QED
            BY <1>2, <2>1, <3>1 DEF AtCommit, Paired, Proper
    <2>3. Commit(t)
        BY <1>2, <2>2 DEF EditProceeds, CommitFails, CommitIsLost, DelIsUncounted, Excuse
    <2>4. edit[s].step = "commit" /\ ~edit[s].on /\ ~edit[s].want
        BY <1>2, <2>1, <2>2 DEF AtCommit, OldTagIsDone, EditInv, Proper
    <2>5. live'[p'][s] = None
        BY <2>4 DEF Matches
    <2>6. edit'[s] = NoEdit /\ enabled'[s] = FALSE
        BY <1>2, <2>3 DEF Commit, Ends, Written, EditInv, TypeOK
    <2> QED
        BY <2>5, <2>6 DEF NoEdit, Matches, GetXrayConfig
<1> QED
    BY <1>1, <1>2

LEMMA SyncStep == IInv /\ TypeOK' /\ EditInv' /\ [Next]_vars => SyncInv'
<1> SUFFICES ASSUME IInv, TypeOK', EditInv', [Next]_vars
             PROVE  SyncInv'
    OBVIOUS
<1> USE DEF IInv
<1>1. ASSUME NEW a \in Actors, RestartXray(a)
      PROVE  SyncInv'
    BY <1>1, RestartSync
<1>2. ASSUME NEW t \in Tags, EditBegins(t) \/ EditProceeds(t)
      PROVE  SyncInv'
    <2>1. UNCHANGED <<p, cores, config, manual, lock, at, read, checkTime, crashes>>
        BY <1>2, EditKeepsCore
    <2> SUFFICES ASSUME Running', cause' = "none", ~Asked', NEW s \in Tags
                 PROVE  edit'[s].want \/ Matches(s)'
        BY DEF SyncInv
    <2>2. Running /\ cause = "none"
        BY <2>1, CauseIsKept DEF Running
    <2>3. need => need'
        BY <1>2 DEF EditBegins, EditProceeds, BeginAdd, BeginDel, BeginDelUnloaded, BeginUpdate, BeginRename,
           BeginToggle, ApiDel, ApiAdd, Commit, CommitFails, CommitIsLost, DelIsUncounted, SetToNeedRestart
    <2>4. edit[s].want \/ Matches(s)
        BY <2>1, <2>2, <2>3 DEF SyncInv, Asked
    <2>5. CASE s = t
        BY <1>2, <2>1, <2>2, <2>4, <2>5, EditSync
    <2>6. CASE s # t
        <3>1. /\ live'[p'][s] = live[p][s]
              /\ \/ edit'[s] = edit[s] /\ GetXrayConfig'[s] = GetXrayConfig[s]
                 \/ BeginRename(t)
                 \/ /\ s = edit[t].peer /\ EditProceeds(t)
                    /\ ~ApiDel(t) /\ ~ApiAdd(t) /\ ~SetToNeedRestart(t)
            BY <1>2, <2>1, <2>6, OtherInbounds
        <3>2. CASE edit'[s] = edit[s] /\ GetXrayConfig'[s] = GetXrayConfig[s]
            BY <2>4, <3>1, <3>2 DEF Matches
        <3>3. CASE \/ BeginRename(t)
                   \/ /\ s = edit[t].peer /\ EditProceeds(t)
                      /\ ~ApiDel(t) /\ ~ApiAdd(t) /\ ~SetToNeedRestart(t)
            BY <1>2, <2>1, <2>4, <2>6, <3>1, <3>3, PeerSync
        <3> QED
            BY <3>1, <3>2, <3>3
    <2> QED
        BY <2>5, <2>6
<1>3. CASE UNCHANGED vars
    BY <1>3, SyncFrame DEF vars, procVars, Asked
<1>4. ASSUME NEW w \in Watchers, WatchRuns(w)
      PROVE  SyncInv'
    <2>1. UNCHANGED <<editVars, p, cores, live, need>>
        BY <1>4 DEF WatchRuns, WatchSeesUp, WatchSeesDown, procVars
    <2>2. at'[Cron] = at[Cron]
        <3>1. w # Cron
            BY ActorAssumption DEF Cron
        <3>2. at' = at \/ at' = [at EXCEPT ![w] = "enter"]
            <4>1. CASE checkTime >= 1
                BY <1>4, <4>1 DEF WatchRuns, WatchSeesUp, WatchSeesDown, Call
            <4>2. CASE ~(checkTime >= 1)
                BY <1>4, <4>2 DEF WatchRuns, WatchSeesUp, WatchSeesDown, Call
            <4> QED
                BY <4>1, <4>2
        <3> QED
            BY <3>1, <3>2 DEF TypeOK, Actors
    <2> QED
        BY <2>1, <2>2, SyncFrame DEF Asked
<1>5. CASE CronFires
    BY <1>5, SyncFrame DEF CronFires, Call, Asked, TypeOK, Actors, procVars
<1>6. CASE UserRestarts \/ TrafficJobRestarts
    <2>1. UNCHANGED <<editVars, p, cores, live, need>> /\ at'[Cron] = at[Cron]
        BY <1>6 DEF UserRestarts, TrafficJobRestarts, Call, TypeOK, Actors, procVars, Cron, User, Traffic
    <2> QED
        BY <2>1, SyncFrame DEF Asked
<1>7. CASE StopXray \/ Crash \/ StuckCoreDies
    <2>1. CASE UNCHANGED <<cores, p>>
        BY <1>7, <2>1, SyncFrame DEF StopXray, Crash, StuckCoreDies, Asked
    <2>2. CASE p' = p /\ p \notin cores'
        BY <2>2 DEF SyncInv, Running
    <2>3. ASSUME StuckCoreDies PROVE SyncInv'
        <3>1. PICK i \in stuck : cores' = cores \ {i}
            BY <2>3 DEF StuckCoreDies
        <3>2. UNCHANGED <<editVars, p, live, need, at, cause>>
            BY <2>3 DEF StuckCoreDies
        <3>3. Running' => Running
            BY <3>1, <3>2 DEF Running
        <3> QED
            BY <3>2, <3>3 DEF SyncInv, Asked, Matches, GetXrayConfig, editVars
    <2> QED
        BY <1>7, <2>1, <2>2, <2>3 DEF StopXray, Crash
<1> QED
    BY <1>1, <1>2, <1>3, <1>4, <1>5, <1>6, <1>7 DEF Next

-----------------------------------------------------------------------------
(* Theorems *)

LEMMA CoreStep == TypeOK /\ CoreInv /\ EditInv /\ [Next]_vars => TypeOK' /\ CoreInv'
<1> SUFFICES ASSUME TypeOK, CoreInv, EditInv, [Next]_vars
             PROVE  TypeOK' /\ CoreInv'
    OBVIOUS
<1>1. CASE UNCHANGED vars
    BY <1>1 DEF vars, editVars, procVars, boundVars, TypeOK, CoreInv
<1>2. ASSUME NEW a \in Actors, RestartXray(a)
      PROVE  TypeOK' /\ CoreInv'
    BY <1>2, RestartCore
<1>3. ASSUME NEW t \in Tags, EditBegins(t) \/ EditProceeds(t)
      PROVE  TypeOK' /\ CoreInv'
    BY <1>3, EditKeepsCore
<1> QED
    BY <1>1, <1>2, <1>3, CallersWait, CoreGoesAway DEF Next

\* The invariant is inductive: RestartXray, StopXray, crashes, the cron jobs and
\* every step of every edit preserve it.
THEOREM Invariance == Spec => []IInv
<1>1. IInv /\ [Next]_vars => IInv'
    BY CoreStep, EditStep, SyncStep DEF IInv
<1> QED
    BY <1>1, InitIInv, PTL DEF Spec

\* Every variable keeps its type, and the lock is held by the actor inside
\* RestartXray, whatever the watchdogs, restarts, crashes and edits do.
THEOREM TypeCorrect == Spec => []TypeOK
<1>1. IInv => TypeOK
    BY DEF IInv
<1> QED
    BY <1>1, Invariance, PTL

\* However many restarts are asked for at once, and whichever of them fail,
\* every xray process beside the handle's is one whose Stop reported an error.
THEOREM NeverTwoCores == Spec => []OneCore
<1>1. IInv => OneCore
    BY DEF IInv, CoreInv, OneCore
<1> QED
    BY <1>1, Invariance, PTL

\* With nothing in flight a running core serves the database's enabled inbounds,
\* unless a request was lost in one of the recorded ways.
THEOREM DivergenceIsExplained == Spec => []DivergenceHasCause
<1>1. IInv => DivergenceHasCause
    <2> SUFFICES ASSUME IInv, Quiet, Running, cause = "none"
                 PROVE  live[p] = GetXrayConfig
        BY DEF DivergenceHasCause
    <2>1. ~Asked
        BY DEF Quiet, Asked, Actors
    <2>2. \A t \in Tags : edit[t].step = "idle" /\ ~edit[t].want
        BY DEF Quiet, IInv, EditInv, Proper
    <2>3. \A t \in Tags : live[p][t] = GetXrayConfig[t]
        BY <2>1, <2>2 DEF IInv, SyncInv, Matches
    <2>4. live[p] \in [Tags -> Contents \cup {None}]
        BY DEF IInv, TypeOK
    <2> QED
        BY <2>3, <2>4 DEF GetXrayConfig
<1> QED
    BY <1>1, Invariance, PTL
=============================================================================
