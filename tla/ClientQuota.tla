----------------------------- MODULE ClientQuota -----------------------------
(***************************************************************************)
(* The limits of one client that is attached to several local inbounds:    *)
(* traffic quota, expiry, delayed start and automatic renewal.             *)
(*                                                                         *)
(* The panel keeps the client's plan in three places, which different      *)
(* operations write: the settings JSON of each inbound, the clients record *)
(* and the client_traffics row, which also holds the usage.  A fourth copy *)
(* is the running core, changed by API calls and rebuilt from the database *)
(* by a restart.  The traffic poll (AddTraffic) enforces the limits inside *)
(* the traffic writer; edits of clients do not go through the writer.      *)
(*                                                                         *)
(* A database transaction is one step: SQLite is opened with               *)
(* _txlock=immediate, so transactions are serial.  What the code reads     *)
(* outside its transaction is a step of its own.                           *)
(***************************************************************************)
EXTENDS Integers

CONSTANTS
    Inbounds,   \* the inbounds the client is attached to
    Plans,      \* the plans an administrator saves
    MaxNow,     \* bound of the clock
    MaxUsed,    \* bound of the usage counter
    MaxEdits,   \* bound on edits and resets
    MaxFails    \* bound on failing API calls and transactions

\* A plan as the database columns can hold it; no sign is excluded.
PlanType == [enable : BOOLEAN, total : Int, expiry : Int, reset : Int]

ASSUME InboundsAssumption == Inbounds # {}
ASSUME PlansAssumption == Plans # {} /\ Plans \subseteq PlanType
ASSUME BoundsAssumption ==
    MaxNow \in Nat \ {0} /\ MaxUsed \in Nat /\ MaxEdits \in Nat /\ MaxFails \in Nat

VARIABLES
    db,       \* settings[i], record and row: the three copies of the plan
    served,   \* the inbounds in which the running core knows the client
    config,   \* the inbounds in which the core's start-up config had it
    need,     \* isNeedXrayRestart
    forced,   \* a forced RestartXray has been called and not begun
    restart,  \* the RestartXray that holds the lock
    edit,     \* ClientService.Update of this client
    other,    \* UpdateInboundClient for another client of an inbound
    reset,    \* ResetTrafficByEmail
    now,
    edits, fails,   \* counters behind the bounds
    cause,    \* history: the first race or failure since the core last matched
    torn      \* history: a lost or half-done write since the last whole edit

vars == <<db, served, config, need, forced, restart, edit, other, reset, now,
          edits, fails, cause, torn>>
apiVars == <<served, config, need, forced, restart>>

-----------------------------------------------------------------------------
(* The plan and what the database says of it *)

\* The client that GetXrayConfig keeps: record and row are both enabled.
GetXrayConfig(d) == IF d.record.enable /\ d.row.enable THEN Inbounds ELSE {}

\* The where clause of disableInvalidClients.
Depleted(r) ==
    \/ r.total > 0 /\ r.used >= r.total
    \/ r.expiry > 0 /\ r.expiry <= now

\* The where clause of autoRenewClients.
Renewable(r) == r.reset > 0 /\ r.expiry > 0 /\ r.expiry <= now

WithUsage(p, u) == [enable |-> p.enable, total |-> p.total, expiry |-> p.expiry,
                    reset |-> p.reset, used |-> u]

\* SyncInbound runs for each inbound; the record keeps what the last one said.
SyncInbounds(d, last) == [d EXCEPT !.record = d.settings[last]]

\* No operation under way.
AnyInbound == CHOOSE i \in Inbounds : TRUE
AnyPlan    == CHOOSE p \in Plans : TRUE
NoRestart  == [step |-> "idle", force |-> FALSE, config |-> {}]
NoEdit     == [step |-> "idle", to |-> AnyPlan, todo |-> {}, at |-> AnyInbound,
               old |-> FALSE, need |-> FALSE]
NoOther    == [step |-> "idle", at |-> AnyInbound, seen |-> AnyPlan]
NoReset    == [step |-> "idle", todo |-> {}, row |-> WithUsage(AnyPlan, 0), need |-> FALSE]

Init ==
    /\ \E p \in Plans :
        /\ db = [settings |-> [i \in Inbounds |-> p], record |-> p,
                 row |-> WithUsage(p, 0)]
        /\ served = IF p.enable THEN Inbounds ELSE {}
        /\ config = served
    /\ need = FALSE /\ forced = FALSE
    /\ restart = NoRestart /\ edit = NoEdit /\ other = NoOther /\ reset = NoReset
    /\ now = 1
    /\ edits = 0 /\ fails = 0
    /\ cause = "none" /\ torn = FALSE

Blame(c) == cause' = IF cause = "none" THEN c ELSE cause

\* n operations fail; the bound is in the guard.
Fails(n) == fails + n <= MaxFails /\ fails' = fails + n

WriterIdle == reset.step # "save"

-----------------------------------------------------------------------------
(* addTrafficLocked: the poll, the renewal and the enforcement *)

\* MUTANT the duration is converted for one inbound only
adjustTrafficsOne(d, last) ==
    LET expiry == now - d.row.expiry
        started == [d EXCEPT !.settings[last].expiry = expiry, !.row.expiry = expiry]
    IN  IF d.row.expiry < 0 THEN SyncInbounds(started, last) ELSE d

\* adjustTraffics: a negative expiry is a duration that starts now, in the
\* settings of every inbound and in the row alike.
adjustTraffics(d, last) ==
    LET expiry == now - d.row.expiry
        started == [d EXCEPT !.settings = [i \in Inbounds |-> [@[i] EXCEPT !.expiry = expiry]],
                             !.row.expiry = expiry]
    IN  IF d.row.expiry < 0 THEN SyncInbounds(started, last) ELSE d

\* MUTANT the reported traffic is added twice
addClientTrafficTwice(d, n, last) == [adjustTraffics(d, last) EXCEPT !.row.used = @ + 2 * n]

\* addClientTraffic adds what the poll reported to the one row of the client.
addClientTraffic(d, n, last) == [adjustTraffics(d, last) EXCEPT !.row.used = @ + n]

\* The loop "for newExpiryTime < now { newExpiryTime += reset }".
NewExpiry(r) ==
    CHOOSE e \in r.expiry..(now + r.reset) :
        e >= now /\ e - r.reset < now /\ (e - r.expiry) % r.reset = 0

\* MUTANT a client that has been disabled is not looked at
autoRenewClientsEnabled(d, first, last) ==
    LET expiry == NewExpiry(d.row)
        renewed == [i \in Inbounds |-> [d.settings[i] EXCEPT !.expiry = expiry]]
    IN  IF Renewable(d.row) /\ d.row.enable
        THEN SyncInbounds([d EXCEPT !.settings = renewed, !.row.expiry = expiry,
                                    !.row.used = 0], last)
        ELSE d

\* autoRenewClients: the row is enabled while its first inbound is handled, so
\* only that inbound's settings are enabled (and only there the user is added).
autoRenewClients(d, first, last) ==
    LET expiry == NewExpiry(d.row)
        renewed == [i \in Inbounds |->
                      [d.settings[i] EXCEPT !.expiry = expiry,
                          !.enable = @ \/ (~d.row.enable /\ i = first)]]
    IN  IF Renewable(d.row)
        THEN SyncInbounds(
               [d EXCEPT !.settings = renewed, !.row.enable = TRUE,
                         !.row.expiry = expiry, !.row.used = 0], last)
        ELSE d

\* markClientsDisabledInSettings, for every inbound of the client.
markClientsDisabledInSettings(d) ==
    [d EXCEPT !.settings = [i \in Inbounds |-> [@[i] EXCEPT !.enable = FALSE]]]

\* MUTANT only quotas are enforced
disableInvalidQuota(d) ==
    IF d.row.enable /\ d.row.total > 0 /\ d.row.used >= d.row.total
    THEN [markClientsDisabledInSettings(d) EXCEPT !.row.enable = FALSE, !.record.enable = FALSE]
    ELSE d

\* disableInvalidClients switches a depleted client off in all three copies.
disableInvalidClients(d) ==
    IF d.row.enable /\ Depleted(d.row)
    THEN [markClientsDisabledInSettings(d) EXCEPT !.row.enable = FALSE, !.record.enable = FALSE]
    ELSE d

\* One run of addTrafficLocked, with n new units for the client if the poll
\* reported it.  The inbounds come in the order o of the database; bad are those
\* for which the core's API fails; unless keep, an error of the last statement
\* rolls the transaction back after the API calls, and nil is returned all the
\* same.  heard: the caller remembers needRestart, and when clients were disabled
\* calls for a restart if the settings ask for it.
addTrafficLocked(reported, n, heard) ==
    \E o \in {o \in Inbounds \X Inbounds : o[1] = o[2] => Inbounds = {o[1]}} :
    \E d1 \in {IF reported THEN addClientTraffic(db, n, o[2]) ELSE db} :
    \E d2 \in {autoRenewClients(d1, o[1], o[2])} :
    \E d3 \in {disableInvalidClients(d2)} :
    \E bad \in IF d3 # db THEN SUBSET Inbounds ELSE {{}},
       keep \in IF d3 # db THEN BOOLEAN ELSE {TRUE} :
        LET add == IF d2.row.enable /\ ~d1.row.enable THEN {o[1]} ELSE {}
            del == IF d2.row.enable /\ ~d3.row.enable THEN Inbounds ELSE {}
            oneOnly == add # {} /\ Inbounds # add
        IN  /\ Fails(IF bad # {} \/ ~keep THEN 1 ELSE 0)
            /\ db' = IF keep THEN d3 ELSE db
            /\ served' = (served \cup (add \ bad)) \ (del \ bad)
            /\ heard => need' = (need \/ (add \cap (bad \cup served)) \cup (del \cap bad) # {})
            /\ heard => forced' \in {forced, forced \/ del # {}}
            /\ IF ~keep /\ add \cup del # {} THEN Blame("rollback")
               ELSE IF oneOnly THEN Blame("renew")
               ELSE IF edit.step # "idle" /\ add \cup del # {} THEN Blame("edit")
               ELSE UNCHANGED cause
            /\ torn' = (torn \/ oneOnly \/ (edit.step # "idle" /\ d3 # db))

\* MUTANT the job drops the answer of AddTraffic
XrayTrafficJobDeaf ==
    /\ WriterIdle
    /\ \E n \in 0..1, reported \in BOOLEAN :
        /\ n > 0 => reported
        /\ db.row.used + n <= MaxUsed
        /\ addTrafficLocked(reported, n, FALSE)
    /\ UNCHANGED <<need, forced, config, restart, edit, other, reset, now, edits>>

\* XrayTrafficJob.Run: poll, account, remember the restart that is needed, and
\* restart at once when the settings ask for it after clients were disabled.
XrayTrafficJob ==
    /\ WriterIdle
    /\ \E n \in 0..1, reported \in BOOLEAN :
        /\ n > 0 => reported
        /\ db.row.used + n <= MaxUsed
        /\ addTrafficLocked(reported, n, TRUE)
    /\ UNCHANGED <<config, restart, edit, other, reset, now, edits>>

-----------------------------------------------------------------------------
(* RestartXray *)

\* RestartXray begins, forced or for the flag, with GetXrayConfig's call of
\* AddTraffic(nil, nil), whose answer is dropped.
RestartBegins ==
    /\ restart.step = "idle" /\ WriterIdle
    /\ \/ forced /\ forced' = FALSE /\ UNCHANGED need
       \/ need /\ need' = FALSE /\ UNCHANGED forced
    /\ addTrafficLocked(FALSE, 0, FALSE)
    /\ restart' = [restart EXCEPT !.step = "read", !.force = forced /\ ~forced']
    /\ UNCHANGED <<config, edit, other, reset, now, edits>>

\* GetXrayConfig reads inbounds, records and rows.
RestartReads ==
    /\ restart.step = "read"
    /\ restart' = [restart EXCEPT !.step = "start", !.config = GetXrayConfig(db)]
    /\ UNCHANGED <<db, served, config, need, forced, edit, other, reset, now,
                   edits, fails, cause, torn>>

\* GetXrayConfig fails: the restart is given up and its flag stays cleared; only
\* the traffic job, after a forced restart, sets it again.
RestartCannotRead ==
    /\ restart.step = "read" /\ Fails(1)
    /\ restart' = NoRestart
    /\ need' \in {need, need \/ restart.force}
    /\ Blame("unread")
    /\ UNCHANGED <<db, served, config, forced, edit, other, reset, now, edits, torn>>

\* An unforced restart with an equal config keeps the core, whatever the API
\* calls since its start have made of it.
RestartSkips ==
    /\ restart.step = "start"
    /\ ~restart.force /\ restart.config = config /\ ~need
    /\ IF served = GetXrayConfig(db) THEN UNCHANGED cause ELSE Blame("skip")
    /\ restart' = NoRestart
    /\ UNCHANGED <<db, served, config, need, forced, edit, other, reset, now,
                   edits, fails, torn>>

\* The old core is stopped and a new one started with the config that was read.
RestartStarts ==
    /\ restart.step = "start"
    /\ restart.force \/ restart.config # config \/ need
    /\ served' = restart.config /\ config' = restart.config
    /\ IF restart.config = GetXrayConfig(db)
       THEN cause' = IF edit.step = "idle" /\ reset.step = "idle" THEN "none" ELSE cause
       ELSE Blame("oldConfig")
    /\ restart' = NoRestart
    /\ UNCHANGED <<db, need, forced, edit, other, reset, now, edits, fails, torn>>

\* The administrator's restart button, and the start of a crashed core.
UserRestarts ==
    /\ ~forced /\ edits < MaxEdits
    /\ forced' = TRUE /\ edits' = edits + 1
    /\ UNCHANGED <<db, served, config, need, restart, edit, other, reset, now,
                   fails, cause, torn>>

-----------------------------------------------------------------------------
(* Edits of clients *)

\* ClientService.Update writes the plan inbound by inbound.
Update(p) ==
    /\ edit.step = "idle" /\ edits < MaxEdits
    /\ edit' = [edit EXCEPT !.step = "next", !.to = p, !.todo = Inbounds, !.need = FALSE]
    /\ edits' = edits + 1
    /\ UNCHANGED <<db, apiVars, other, reset, now, fails, cause, torn>>

\* UpdateInboundClient takes the inbound's lock and reads its settings.
UpdateReads ==
    /\ edit.step = "next"
    /\ \E i \in edit.todo :
        /\ other.step = "commit" => other.at # i
        /\ edit' = [edit EXCEPT !.step = "commit", !.at = i, !.old = db.settings[i].enable]
    /\ UNCHANGED <<db, apiVars, other, reset, now, edits, fails, cause, torn>>

\* The core after RemoveUser (when the client was enabled as read) and AddUser
\* (when it is to be enabled), of which bad says which one fails; and whether
\* the core must be restarted: a user that is there already cannot be added.
RemoveUser(bad) == IF edit.old /\ "remove" \notin bad THEN served \ {edit.at} ELSE served
AddUser(bad) ==
    RemoveUser(bad) \cup (IF edit.to.enable /\ "add" \notin bad THEN {edit.at} ELSE {})
UserNeedsRestart(bad) ==
    \/ edit.old /\ "remove" \in bad
    \/ edit.to.enable /\ ("add" \in bad \/ edit.at \in RemoveUser(bad))

\* The transaction of UpdateInboundClient: UpdateClientStat writes the row, the
\* core is told, the settings are saved and synced to the record.
UpdateInboundClient ==
    /\ edit.step = "commit"
    /\ \E bad \in SUBSET {"remove", "add"} :
        /\ Fails(IF bad = {} THEN 0 ELSE 1)
        /\ served' = AddUser(bad)
        /\ edit' = [edit EXCEPT !.step = "next", !.todo = @ \ {edit.at},
                                !.at = AnyInbound, !.old = FALSE, !.need = @ \/ UserNeedsRestart(bad)]
    /\ db' = [db EXCEPT !.row = WithUsage(edit.to, @.used),
                        !.settings[edit.at] = edit.to, !.record = edit.to]
    /\ UNCHANGED <<config, need, forced, restart, other, reset, now, edits, cause, torn>>

\* The transaction is rolled back, before or after the core was told; Update
\* returns the error, and the controller then forgets needRestart.
UpdateFails ==
    /\ edit.step = "commit" /\ Fails(1)
    /\ served' \in {served, AddUser({})}
    /\ edit' = NoEdit
    /\ Blame("rollback")
    /\ torn' = (torn \/ edit.todo # Inbounds)
    /\ UNCHANGED <<db, config, need, forced, restart, other, reset, now, edits>>

\* The controller passes needRestart on.
UpdateReturns ==
    /\ edit.step = "next" /\ edit.todo = {}
    /\ edit' = NoEdit
    /\ need' = (need \/ edit.need)
    /\ UNCHANGED <<db, served, config, forced, restart, other, reset, now, edits,
                   fails, cause, torn>>

\* UpdateInboundClient for another client of an inbound reads all its settings ...
OtherReads ==
    /\ other.step = "idle" /\ edits < MaxEdits
    /\ \E i \in Inbounds :
        /\ edit.step = "commit" => edit.at # i
        /\ other' = [step |-> "commit", at |-> i, seen |-> db.settings[i]]
    /\ edits' = edits + 1
    /\ UNCHANGED <<db, apiVars, edit, reset, now, fails, cause, torn>>

\* ... and saves them all, so what happened to this client meanwhile is undone in
\* the settings and, through SyncInbound, in the record.
OtherCommits ==
    /\ other.step = "commit"
    /\ other' = NoOther
    /\ db' = [db EXCEPT !.settings[other.at] = other.seen, !.record = other.seen]
    /\ torn' = (torn \/ db.settings[other.at] # other.seen \/ db.record # other.seen)
    /\ UNCHANGED <<apiVars, edit, reset, now, edits, fails, cause>>

-----------------------------------------------------------------------------
(* Resets of the usage *)

\* ResetTrafficByEmail resets the one row once per inbound.
ResetTrafficByEmail ==
    /\ reset.step = "idle" /\ edits < MaxEdits
    /\ reset' = [reset EXCEPT !.step = "next", !.todo = Inbounds, !.need = FALSE]
    /\ edits' = edits + 1
    /\ UNCHANGED <<db, apiVars, edit, other, now, fails, cause, torn>>

\* resetClientTrafficLocked, in the writer: reads the row and adds the user when
\* the row is disabled and the inbound's settings are not.
ResetReads ==
    /\ reset.step = "next"
    /\ \E i \in reset.todo, ok \in BOOLEAN :
        LET adds == ~db.row.enable /\ db.settings[i].enable
        IN  /\ Fails(IF adds /\ ~ok THEN 1 ELSE 0)
            /\ served' = served \cup (IF adds /\ ok THEN {i} ELSE {})
            /\ reset' = [reset EXCEPT !.step = "save", !.todo = @ \ {i}, !.row = db.row,
                                      !.need = @ \/ (adds /\ (~ok \/ i \in served))]
    /\ UNCHANGED <<db, config, need, forced, restart, edit, other, now, edits, cause, torn>>

\* ... and saves the whole row as it was read.
ResetSaves ==
    /\ reset.step = "save"
    /\ reset' = [reset EXCEPT !.step = "next", !.row = NoReset.row]
    /\ db' = [db EXCEPT !.row = [reset.row EXCEPT !.enable = TRUE, !.used = 0]]
    /\ torn' = (torn \/ db.row # reset.row)
    /\ UNCHANGED <<apiVars, edit, other, now, edits, fails, cause>>

ResetReturns ==
    /\ reset.step = "next" /\ reset.todo = {}
    /\ reset' = NoReset
    /\ need' = (need \/ reset.need)
    /\ UNCHANGED <<db, served, config, forced, restart, edit, other, now, edits,
                   fails, cause, torn>>

\* BulkResetTraffic and resetAllClientTrafficsLocked: one update of the row.
BulkResetTraffic ==
    /\ WriterIdle /\ edits < MaxEdits
    /\ db' = [db EXCEPT !.row.enable = TRUE, !.row.used = 0]
    /\ edits' = edits + 1
    /\ torn' = (torn \/ edit.step = "commit")
    /\ UNCHANGED <<apiVars, edit, other, reset, now, fails, cause>>

-----------------------------------------------------------------------------
Tick ==
    /\ now < MaxNow /\ now' = now + 1
    /\ UNCHANGED <<db, apiVars, edit, other, reset, edits, fails, cause, torn>>

RestartProceeds == RestartReads \/ RestartCannotRead \/ RestartSkips \/ RestartStarts
UpdateProceeds  == UpdateReads \/ UpdateInboundClient \/ UpdateFails \/ UpdateReturns
ResetProceeds   == ResetReads \/ ResetSaves \/ ResetReturns

Next ==
    \/ XrayTrafficJob
    \/ RestartBegins \/ RestartProceeds \/ UserRestarts
    \/ \E p \in Plans : Update(p)
    \/ UpdateProceeds \/ OtherReads \/ OtherCommits
    \/ ResetTrafficByEmail \/ ResetProceeds \/ BulkResetTraffic
    \/ Tick

Spec == Init /\ [][Next]_vars

\* The traffic job and the restart check are cron jobs that run for ever, and
\* requests that have begun go on.
FairSpec ==
    /\ Spec
    /\ WF_vars(XrayTrafficJob) /\ WF_vars(RestartBegins) /\ WF_vars(RestartProceeds)
    /\ WF_vars(UpdateProceeds) /\ WF_vars(OtherCommits) /\ WF_vars(ResetProceeds)

-----------------------------------------------------------------------------
(* Properties *)

RowType == [enable : BOOLEAN, total : Int, expiry : Int, reset : Int, used : 0..MaxUsed]

\* Every variable keeps its type; the bounds hold.
TypeOK ==
    /\ db \in [settings : [Inbounds -> PlanType], record : PlanType, row : RowType]
    /\ served \subseteq Inbounds /\ config \subseteq Inbounds
    /\ need \in BOOLEAN /\ forced \in BOOLEAN
    /\ restart \in [step : {"idle", "read", "start"}, force : BOOLEAN, config : SUBSET Inbounds]
    /\ edit \in [step : {"idle", "next", "commit"}, to : PlanType, todo : SUBSET Inbounds,
                 at : Inbounds, old : BOOLEAN, need : BOOLEAN]
    /\ other \in [step : {"idle", "commit"}, at : Inbounds, seen : PlanType]
    /\ reset \in [step : {"idle", "next", "save"}, todo : SUBSET Inbounds, row : RowType,
                  need : BOOLEAN]
    /\ now \in 1..MaxNow /\ edits \in 0..MaxEdits /\ fails \in 0..MaxFails
    /\ cause \in {"none", "rollback", "renew", "edit", "skip", "unread", "oldConfig"}
    /\ torn \in BOOLEAN

Quiet == edit.step = "idle" /\ reset.step = "idle" /\ restart.step = "idle"

\* When no operation is under way and no restart is due, the core serves the
\* client exactly where the database says, unless a recorded race or failure came
\* before: a depleted client is cut off in every inbound and an enabled one is in
\* all of them, whatever API calls failed.
CoreFollowsDatabase ==
    (Quiet /\ ~need /\ ~forced /\ cause = "none" /\ ~torn)
        => served = GetXrayConfig(db)

\* The three copies of the plan agree on quota, expiry and renewal, also after a
\* delayed start or a renewal, unless two writes overlapped or one was cut short.
PlansAgree ==
    (edit.step = "idle" /\ ~torn) =>
        \A p \in {db.settings[i] : i \in Inbounds} \cup {db.record} :
            <<p.total, p.expiry, p.reset>> = <<db.row.total, db.row.expiry, db.row.reset>>

\* A client over its limits is cut off: some later poll disables it and the core
\* drops it, unless its limits are raised or the core's state was lost to a race.
DepletedIsCut ==
    Depleted(db.row)
        ~> \/ ~Depleted(db.row)
           \/ ~db.row.enable /\ (served = {} \/ cause # "none" \/ torn)

\* A client with automatic renewal does not stay expired: its expiry moves on.
ExpiredIsRenewed ==
    (Renewable(db.row) /\ db.row.expiry < now)
        ~> ~(Renewable(db.row) /\ db.row.expiry < now)
=============================================================================
