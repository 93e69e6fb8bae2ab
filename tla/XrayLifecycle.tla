---------------------------- MODULE XrayLifecycle ----------------------------
(***************************************************************************)
(* The panel and its local xray core: RestartXray / StopXray of            *)
(* web/service/xray.go, the process handle of xray/process.go, the         *)
(* watchdog job, the "need restart" flag with its 30 s cron function, and  *)
(* the edits of local inbounds (web/service/inbound.go), which change the  *)
(* database and push the change to the running core over its API.          *)
(*                                                                         *)
(* What the core should serve is computed from the database                *)
(* (GetXrayConfig: the enabled inbounds).  What it does serve starts as    *)
(* the configuration its process was launched with and then follows the    *)
(* API calls that reach it; the configuration kept in the handle           *)
(* (p.config) does not follow them.                                        *)
(***************************************************************************)
EXTENDS Naturals, FiniteSets

CONSTANTS
    Tags,        \* tags of local inbounds, one edit in flight per tag
    Contents,    \* settings an inbound can have
    Watchers,    \* overlapping cron runs of CheckXrayRunningJob
    Forced,      \* who forces restarts: User, Traffic or both
    MaxFails,    \* bound on failures of GetXrayConfig, Start, Stop and the database
    MaxCrashes   \* bound on crashes of the core

Cron    == "cron"     \* the 30 s function of startTask
User    == "user"     \* a forced restart from the panel, the bot or a signal
Traffic == "traffic"  \* restart after clients were disabled
None    == "none"
Actors  == Watchers \cup Forced \cup {Cron}

ASSUME ActorAssumption == Watchers \cap {Cron, User, Traffic, None} = {}
ASSUME ForcedAssumption == Forced \subseteq {User, Traffic}
ASSUME ContentAssumption == None \notin Contents
ASSUME BoundAssumption == MaxFails \in Nat /\ MaxCrashes \in Nat

\* Process handles: the one in use, its successor, and one for every core that
\* could not be stopped.  An id is reused once it is neither p nor alive.
Ids == 1..(MaxFails + 2)

VARIABLES
    content,    \* content[t]: settings of inbound t in the database, None if absent
    enabled,    \* enabled[t]: its enable column
    p,          \* the current process handle
    cores,      \* operating-system processes that are alive
    stuck,      \* history: those of them that RestartXray gave up when Stop failed
    config,     \* config[i]: the configuration process i was started with
    live,       \* live[i]: what process i serves
    need,       \* isNeedXrayRestart
    manual,     \* isManuallyStopped
    lock,       \* holder of the package mutex, or None
    at,         \* at[a]: where actor a stands in RestartXray
    read,       \* what GetXrayConfig returned to the holder of the lock
    checkTime,  \* the watchdog's counter (2 stands for every larger value)
    edit,       \* edit[t]: the edit of inbound t in flight
    cause,      \* history: has something happened that may make the core silently
                \* differ from the database ("none"), only a skip, or something else
    fails, crashes

editVars == <<content, enabled, edit>>
procVars == <<p, cores, stuck, config, live>>
boundVars == <<fails, crashes>>
vars == <<editVars, procVars, need, manual, lock, at, read, checkTime, cause, boundVars>>

NoEdit  == [op |-> "none", step |-> "idle", on |-> FALSE, to |-> None, peer |-> None,
            want |-> FALSE]
Nothing == [t \in Tags |-> None]

Running == p \in cores

\* GetXrayConfig: the enabled inbounds of the database.
GetXrayConfig == [t \in Tags |-> IF enabled[t] THEN content[t] ELSE None]

DidXrayCrash == ~Running /\ ~manual

\* startTask has run its forced restart, which worked or did not.
Init ==
    /\ content \in [Tags -> Contents \cup {None}]
    /\ enabled \in [Tags -> BOOLEAN]
    /\ \A t \in Tags : content[t] = None => ~enabled[t]
    /\ p = 1
    /\ cores \in SUBSET {1}
    /\ stuck = {}
    /\ config = [i \in Ids |-> IF i = 1 THEN GetXrayConfig ELSE Nothing]
    /\ live = config
    /\ need = FALSE
    /\ manual = FALSE
    /\ lock = None
    /\ at = [a \in Actors |-> "idle"]
    /\ read = Nothing
    /\ checkTime = 0
    /\ edit = [t \in Tags |-> NoEdit]
    /\ cause = "none"
    /\ fails = 0
    /\ crashes = 0

Excuse(c) == cause' = IF cause = "other" THEN cause ELSE c

-----------------------------------------------------------------------------
(* Who calls RestartXray *)

Call(a) == at[a] = "idle" /\ at' = [at EXCEPT ![a] = "enter"]

\* IsNeedRestartAndSetFalse clears the flag before RestartXray(false) runs.
CronFires ==
    /\ need
    /\ need' = FALSE
    /\ Call(Cron)
    /\ UNCHANGED <<editVars, procVars, manual, lock, read, checkTime, cause, boundVars>>

\* A user's call has nothing to observe before it has the lock.
UserRestarts ==
    /\ User \in Forced
    /\ at[User] = "idle"
    /\ lock = None
    /\ lock' = User
    /\ manual' = FALSE
    /\ at' = [at EXCEPT ![User] = "read"]
    /\ UNCHANGED <<editVars, procVars, need, read, checkTime, cause, boundVars>>

\* XrayTrafficJob.Run returns early when the core is down.
TrafficJobRestarts ==
    /\ Traffic \in Forced
    /\ Running
    /\ Call(Traffic)
    /\ UNCHANGED <<editVars, procVars, need, manual, lock, read, checkTime, cause, boundVars>>

\* CheckXrayRunningJob.Run: down twice in a row calls RestartXray(false).
WatchSeesUp(w) ==
    /\ at[w] = "idle"
    /\ ~DidXrayCrash
    /\ checkTime' = 0
    /\ UNCHANGED <<editVars, procVars, need, manual, lock, at, read, cause, boundVars>>

\* Mutant: the counter is reset on every run, so it never passes 1.
WatchForgets(w) ==
    /\ at[w] = "idle"
    /\ DidXrayCrash
    /\ checkTime' = 1
    /\ UNCHANGED <<editVars, procVars, need, manual, lock, at, read, cause, boundVars>>

WatchSeesDown(w) ==
    /\ at[w] = "idle"
    /\ DidXrayCrash
    /\ IF checkTime >= 1
       THEN checkTime' = 2 /\ Call(w)
       ELSE checkTime' = 1 /\ UNCHANGED at
    /\ UNCHANGED <<editVars, procVars, need, manual, lock, read, cause, boundVars>>

WatchRuns(w) == WatchSeesUp(w) \/ WatchSeesDown(w)

-----------------------------------------------------------------------------
(* RestartXray *)

\* Mutant: RestartXray does not take the lock.
RestartEntersUnlocked(a) ==
    /\ at[a] = "enter"
    /\ manual' = FALSE
    /\ at' = [at EXCEPT ![a] = "read"]
    /\ UNCHANGED <<editVars, procVars, lock, need, read, checkTime, cause, boundVars>>

\* The lock is taken and the manual stop forgotten.
RestartEnters(a) ==
    /\ at[a] = "enter"
    /\ lock = None
    /\ lock' = a
    /\ manual' = FALSE
    /\ at' = [at EXCEPT ![a] = "read"]
    /\ UNCHANGED <<editVars, procVars, need, read, checkTime, cause, boundVars>>

RestartReads(a) ==
    /\ at[a] = "read"
    /\ read' = GetXrayConfig
    /\ at' = [at EXCEPT ![a] = "decide"]
    /\ UNCHANGED <<editVars, procVars, need, manual, lock, checkTime, cause, boundVars>>

\* The deferred unlock, what the caller does with the error, and the watchdog's
\* checkTime = 0 after the call.
Return(a, failed) ==
    /\ lock' = None
    /\ at' = [at EXCEPT ![a] = "idle"]
    /\ read' = Nothing
    /\ checkTime' = IF a \in Watchers THEN 0 ELSE checkTime
    /\ need' = (need \/ (failed /\ a = Traffic))
    /\ UNCHANGED <<editVars, manual, crashes>>

\* GetXrayConfig fails: the old core, if any, stays.  A request that the cron
\* function took out of the flag is gone.
RestartCannotRead(a) ==
    /\ at[a] = "read"
    /\ fails < MaxFails
    /\ fails' = fails + 1
    /\ IF a = Cron THEN Excuse("other") ELSE UNCHANGED cause
    /\ Return(a, TRUE)
    /\ UNCHANGED procVars

SkipsRestart(a) ==
    /\ Running
    /\ a \notin Forced
    /\ config[p] = read
    /\ ~need

\* "It does not need to restart Xray"
RestartSkips(a) ==
    /\ at[a] = "decide"
    /\ SkipsRestart(a)
    /\ IF a = Cron THEN Excuse("skipped") ELSE UNCHANGED cause
    /\ Return(a, FALSE)
    /\ UNCHANGED <<procVars, fails>>

\* Mutant: the old core is left running.
RestartKeepsOld(a) ==
    /\ at[a] = "decide"
    /\ ~SkipsRestart(a)
    /\ at' = [at EXCEPT ![a] = "start"]
    /\ UNCHANGED <<editVars, procVars, need, manual, lock, read, checkTime, cause, boundVars>>

\* p.Stop() on a running core: SIGTERM, then SIGKILL, until it is gone.  Its
\* error (a signal refused, a process still there 10 s after the kill) is
\* discarded, and the restart goes on beside the old core.
RestartStopsOld(a) ==
    /\ at[a] = "decide"
    /\ ~SkipsRestart(a)
    /\ at' = [at EXCEPT ![a] = "start"]
    /\ \/ cores' = cores \ {p} /\ UNCHANGED <<stuck, fails>>
       \/ /\ Running
          /\ fails < MaxFails
          /\ fails' = fails + 1
          /\ stuck' = stuck \cup {p}
          /\ UNCHANGED cores
    /\ UNCHANGED <<editVars, p, config, live, need, manual, lock, read, checkTime,
                   cause, crashes>>

FreeIds == Ids \ (cores \cup {p})

\* NewProcess replaces the handle; its Start launches the core or fails.
\* An inbound whose edit reached the old core but is not in the configuration
\* this restart read is lost to the new core.
RestartStarts(a) ==
    /\ at[a] = "start"
    /\ FreeIds # {}
    /\ LET i == CHOOSE j \in FreeIds : TRUE IN
        /\ p' = i
        /\ config' = [config EXCEPT ![p] = Nothing, ![i] = read]
        /\ \/ /\ cores' = cores \cup {i}
              /\ live' = [live EXCEPT ![p] = Nothing, ![i] = read]
              /\ IF read # GetXrayConfig \/ \E t \in Tags : edit[t].step = "commit"
                 THEN Excuse("other") ELSE UNCHANGED cause
              /\ Return(a, FALSE)
              /\ UNCHANGED fails
           \/ /\ fails < MaxFails
              /\ fails' = fails + 1
              /\ live' = [live EXCEPT ![p] = Nothing]
              /\ Return(a, TRUE)
              /\ UNCHANGED <<cores, cause>>
        /\ UNCHANGED stuck

RestartXray(a) ==
    \/ RestartEnters(a) \/ RestartReads(a) \/ RestartCannotRead(a)
    \/ RestartSkips(a) \/ RestartStopsOld(a) \/ RestartStarts(a)

-----------------------------------------------------------------------------
(* StopXray, and cores dying by themselves *)

\* The flag is set first; Stop may report an error and leave the core running.
StopXray ==
    /\ lock = None
    /\ manual' = TRUE
    /\ \/ cores' = cores \ {p} /\ UNCHANGED fails
       \/ /\ Running
          /\ fails < MaxFails
          /\ fails' = fails + 1
          /\ UNCHANGED cores
    /\ UNCHANGED <<editVars, p, stuck, config, live, need, lock, at, read, checkTime,
                   cause, crashes>>

\* The handle's core dies; so does a new core that finds its ports held by one
\* that could not be stopped.
Crash ==
    /\ Running
    /\ crashes < MaxCrashes
    /\ crashes' = crashes + 1
    /\ cores' = cores \ {p}
    /\ stuck' = stuck \ {p}
    /\ UNCHANGED <<editVars, p, config, live, need, manual, lock, at, read, checkTime,
                   cause, fails>>

\* A core that RestartXray gave up goes at last.
StuckCoreDies ==
    /\ \E i \in stuck : cores' = cores \ {i} /\ stuck' = stuck \ {i}
    /\ UNCHANGED <<editVars, p, config, live, need, manual, lock, at, read, checkTime,
                   cause, boundVars>>

-----------------------------------------------------------------------------
(* Edits of a local inbound: AddInbound, DelInbound, SetInboundEnable,     *)
(* UpdateInbound.  Add, delete and update push first and commit after;     *)
(* the enable switch commits first.  An update that gives the inbound      *)
(* another tag is two edits, "moveFrom" at the old tag and "moveTo" at the *)
(* new one, that name each other as peer and are committed together.       *)

editFrame == <<p, cores, stuck, config, manual, lock, at, read, checkTime, crashes>>

BeginAdd(t) ==
    /\ edit[t].step = "idle"
    /\ content[t] = None
    /\ \E c \in Contents, on \in BOOLEAN :
        edit' = [edit EXCEPT ![t] =
            [op |-> "add", step |-> IF on THEN "apiAdd" ELSE "commit",
             on |-> on, to |-> c, peer |-> t, want |-> FALSE]]
    /\ UNCHANGED <<editFrame, content, enabled, live, need, cause, fails>>

DelEdit(t, step) ==
    edit' = [edit EXCEPT ![t] =
            [op |-> "del", step |-> step, on |-> FALSE, to |-> None, peer |-> t, want |-> FALSE]]

BeginDel(t) ==
    /\ edit[t].step = "idle"
    /\ content[t] # None
    /\ DelEdit(t, IF enabled[t] THEN "apiDel" ELSE "commit")
    /\ UNCHANGED <<editFrame, content, enabled, live, need, cause, fails>>

\* The row cannot be loaded: the core is not told, and the row is deleted anyway.
BeginDelUnloaded(t) ==
    /\ edit[t].step = "idle"
    /\ content[t] # None
    /\ fails < MaxFails
    /\ fails' = fails + 1
    /\ DelEdit(t, "commit")
    /\ IF enabled[t] THEN Excuse("other") ELSE UNCHANGED cause
    /\ UNCHANGED <<editFrame, content, enabled, live, need>>

BeginUpdate(t) ==
    /\ edit[t].step = "idle"
    /\ content[t] # None
    /\ \E c \in Contents, on \in BOOLEAN :
        edit' = [edit EXCEPT ![t] =
            [op |-> "update", step |-> "apiDel", on |-> on, to |-> c, peer |-> t,
             want |-> FALSE]]
    /\ UNCHANGED <<editFrame, content, enabled, live, need, cause, fails>>

\* UpdateInbound with a new tag, which resolveInboundTag found free.
BeginRename(t) ==
    /\ edit[t].step = "idle"
    /\ content[t] # None
    /\ \E s \in Tags \ {t}, c \in Contents, on \in BOOLEAN :
        /\ content[s] = None
        /\ edit[s].step = "idle"
        /\ edit' = [edit EXCEPT
              ![t] = [op |-> "moveFrom", step |-> "apiDel", on |-> FALSE, to |-> None,
                      peer |-> s, want |-> FALSE],
              ![s] = [op |-> "moveTo", step |-> IF on THEN "apiAdd" ELSE "commit",
                      on |-> on, to |-> c, peer |-> t, want |-> FALSE]]
    /\ UNCHANGED <<editFrame, content, enabled, live, need, cause, fails>>

\* SetInboundEnable writes the enable column before it talks to the core.
BeginToggle(t) ==
    /\ edit[t].step = "idle"
    /\ content[t] # None
    /\ enabled' = [enabled EXCEPT ![t] = ~enabled[t]]
    /\ edit' = [edit EXCEPT ![t] =
            [op |-> "toggle", step |-> "apiDel", on |-> ~enabled[t], to |-> content[t],
             peer |-> t, want |-> FALSE]]
    /\ UNCHANGED <<editFrame, content, live, need, cause, fails>>

\* What is left of an edit when only the controller's last step remains.
Flagged(want) == [NoEdit EXCEPT !.step = "flag", !.want = want]

AfterDel(e, want) ==
    CASE e.on -> [e EXCEPT !.step = "apiAdd", !.want = want]
      [] ~e.on /\ e.op = "toggle" -> Flagged(want)
      [] OTHER -> [e EXCEPT !.step = "commit", !.want = want]

AfterAdd(e, want) ==
    IF e.op = "toggle" THEN Flagged(want) ELSE [e EXCEPT !.step = "commit", !.want = want]

\* rt.DelInbound.  The call succeeds, or the core does not know the tag, or the
\* call fails and may or may not have had its effect.  DelInbound asks for a
\* restart after any error, SetInboundEnable after any but "not found", and
\* UpdateInbound after none: what it then leaves in the core stays there, unless
\* the same tag is added next and refused.
ApiDel(t) ==
    LET e == edit[t]
        known == Running /\ live[p][t] # None
        Goes(want) == edit' = [edit EXCEPT ![t] = AfterDel(e, want)]
        Drop == live' = [live EXCEPT ![p][t] = None]
    IN  /\ e.step = "apiDel"
        /\ \/ known /\ Drop /\ Goes(e.want) /\ UNCHANGED cause
           \/ /\ Running /\ ~known
              /\ Goes(e.op = "del")
              /\ UNCHANGED <<live, cause>>
           \/ /\ Goes(e.op \notin {"update", "moveFrom"})
              /\ (known /\ Drop) \/ UNCHANGED live
              /\ IF /\ e.op \in {"update", "moveFrom"}
                    /\ known /\ ~e.on /\ live'[p][t] # None
                 THEN Excuse("other") ELSE UNCHANGED cause
        /\ UNCHANGED <<editFrame, content, enabled, need, fails>>

\* Mutant: AddInbound's error is logged and forgotten.
ApiAddForgetsError(t) ==
    /\ edit[t].step = "apiAdd"
    /\ edit' = [edit EXCEPT ![t] = AfterAdd(edit[t], edit[t].want)]
    /\ UNCHANGED <<editFrame, content, enabled, live, need, cause, fails>>

\* UpdateInbound takes the old tag out of the core before it adds the new one.
OldTagIsDone(e) == e.op = "moveTo" => edit[e.peer].step = "commit"

\* rt.AddInbound: refused for a tag the core has; any error asks for a restart.
ApiAdd(t) ==
    LET e == edit[t]
        free == Running /\ live[p][t] = None
        Goes(want) == edit' = [edit EXCEPT ![t] = AfterAdd(e, e.want \/ want)]
        Put == live' = [live EXCEPT ![p][t] = e.to]
    IN  /\ e.step = "apiAdd"
        /\ OldTagIsDone(e)
        /\ \/ free /\ Put /\ Goes(FALSE)
           \/ ((free /\ Put) \/ UNCHANGED live) /\ Goes(TRUE)
        /\ UNCHANGED <<editFrame, content, enabled, need, cause, fails>>

\* The last write: the row of tag t becomes what the edit says, and the row of
\* the old tag goes with a rename.
AtCommit(t) ==
    /\ edit[t].step = "commit"
    /\ edit[t].op # "moveFrom"
    /\ OldTagIsDone(edit[t])

Written(t) ==
    /\ content' = [content EXCEPT ![edit[t].peer] = None, ![t] = edit[t].to]
    /\ enabled' = [enabled EXCEPT ![edit[t].peer] = FALSE, ![t] = edit[t].on]

Ends(t, e) == edit' = [edit EXCEPT ![edit[t].peer] = NoEdit, ![t] = e]

Commit(t) ==
    /\ AtCommit(t)
    /\ Written(t)
    /\ Ends(t, Flagged(edit[t].want))
    /\ UNCHANGED <<editFrame, live, need, cause, fails>>

\* A delete or update that fails in the database after the push returns the
\* error, and the controller returns before SetToNeedRestart.
CommitFails(t) ==
    /\ AtCommit(t)
    /\ edit[t].op # "add"
    /\ fails < MaxFails
    /\ fails' = fails + 1
    /\ Ends(t, NoEdit)
    /\ Excuse("other")
    /\ UNCHANGED <<editFrame, content, enabled, live, need>>

\* AddInbound and UpdateInbound ignore what tx.Commit returns: nothing is
\* written and the edit is reported as done.
CommitIsLost(t) ==
    /\ AtCommit(t)
    /\ edit[t].op # "del"
    /\ fails < MaxFails
    /\ fails' = fails + 1
    /\ Ends(t, Flagged(edit[t].want))
    /\ Excuse("other")
    /\ UNCHANGED <<editFrame, content, enabled, live, need>>

\* DelInbound has deleted the row, but the query that counts the rows left fails:
\* the controller returns its error and asks for no restart.
DelIsUncounted(t) ==
    /\ AtCommit(t)
    /\ edit[t].op = "del"
    /\ fails < MaxFails
    /\ fails' = fails + 1
    /\ Written(t)
    /\ Ends(t, NoEdit)
    /\ IF edit[t].want THEN Excuse("other") ELSE UNCHANGED cause
    /\ UNCHANGED <<editFrame, live, need>>

\* The controller: if needRestart { SetToNeedRestart() }.
SetToNeedRestart(t) ==
    /\ edit[t].step = "flag"
    /\ need' = (need \/ edit[t].want)
    /\ edit' = [edit EXCEPT ![t] = NoEdit]
    /\ UNCHANGED <<editFrame, content, enabled, live, cause, fails>>

EditBegins(t) ==
    \/ BeginAdd(t) \/ BeginDel(t) \/ BeginDelUnloaded(t)
    \/ BeginUpdate(t) \/ BeginRename(t) \/ BeginToggle(t)

EditProceeds(t) ==
    \/ ApiDel(t) \/ ApiAdd(t)
    \/ Commit(t) \/ CommitFails(t) \/ CommitIsLost(t) \/ DelIsUncounted(t)
    \/ SetToNeedRestart(t)

-----------------------------------------------------------------------------
Next ==
    \/ CronFires \/ UserRestarts \/ TrafficJobRestarts
    \/ \E w \in Watchers : WatchRuns(w)
    \/ \E a \in Actors : RestartXray(a)
    \/ StopXray \/ Crash \/ StuckCoreDies
    \/ \E t \in Tags : EditBegins(t) \/ EditProceeds(t)

Spec == Init /\ [][Next]_vars

\* Cron runs its jobs for ever, a goroutine inside RestartXray or an edit goes
\* on, and the package mutex, a Go mutex, is not withheld from a waiter for
\* ever.  Users need not do anything.
FairSpec ==
    /\ Spec
    /\ \A w \in Watchers : WF_vars(WatchRuns(w))
    /\ WF_vars(CronFires)
    /\ \A a \in Actors : SF_vars(RestartXray(a))
    /\ \A t \in Tags : WF_vars(EditProceeds(t))

-----------------------------------------------------------------------------
(* Properties *)

\* Every variable keeps its type; the lock is held exactly by the actor that is
\* inside RestartXray.
TypeOK ==
    /\ content \in [Tags -> Contents \cup {None}]
    /\ enabled \in [Tags -> BOOLEAN]
    /\ p \in Ids
    /\ cores \subseteq Ids /\ stuck \subseteq cores
    /\ config \in [Ids -> [Tags -> Contents \cup {None}]]
    /\ live \in [Ids -> [Tags -> Contents \cup {None}]]
    /\ need \in BOOLEAN /\ manual \in BOOLEAN
    /\ lock \in Actors \cup {None}
    /\ at \in [Actors -> {"idle", "enter", "read", "decide", "start"}]
    /\ \A a \in Actors : at[a] \in {"read", "decide", "start"} <=> lock = a
    /\ read \in [Tags -> Contents \cup {None}]
    /\ checkTime \in 0..2
    /\ cause \in {"none", "skipped", "other"}
    /\ fails \in 0..MaxFails /\ crashes \in 0..MaxCrashes

\* Restarts asked for at the same time by users, the watchdog, the cron flag and
\* the traffic job leave no xray process alive beside the one the panel has a
\* handle on, except those whose Stop reported an error that the restart discarded.
OneCore == cores \ stuck \subseteq {p}

Quiet ==
    /\ \A a \in Actors : at[a] = "idle"
    /\ \A t \in Tags : edit[t].step = "idle"
    /\ ~need

\* When nothing is in flight and no restart is pending, a running core serves
\* exactly the database's enabled inbounds, unless one of these recorded things
\* happened: a requested restart was skipped, or failed after its request was
\* consumed; a restart raced an edit; an update ignored a failed removal of the
\* tag it replaces or disables; or the database failed an edit halfway (a delete
\* without the row loaded or counted, a write refused or lost after the push).
DivergenceHasCause == (Quiet /\ Running /\ cause = "none") => live[p] = GetXrayConfig

\* Skipping a requested restart because the configuration "does not need" it is
\* harmless: the running core serves the database's inbounds anyway.
SkippedRestartHarmless ==
    (Quiet /\ Running /\ cause \in {"none", "skipped"}) => live[p] = GetXrayConfig

\* A core that is down without having been stopped from the panel comes back,
\* once restarts stop failing (the watchdog's two checks and RestartXray).
CrashIsRepaired == DidXrayCrash ~> (Running \/ manual)
=============================================================================
