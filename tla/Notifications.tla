--------------------------- MODULE Notifications ---------------------------
(***************************************************************************)
(* The notification subsystem of the panel: the persisted store            *)
(* (stores/notificationStore.ts), the live rows derived from state         *)
(* (pages/index/useNotifications.tsx, lib/notifications/statusSensors.ts), *)
(* the watchers that re-arm sensors and raise client-offline events        *)
(* (SensorWatcher, ClientOfflineWatcher), and the strip and the tab that   *)
(* operate on it (NotificationsBar, NotificationsTab, ds/Toast).           *)
(*                                                                         *)
(* Texts, severities and times are left out: a history record is its       *)
(* source and key.  A sensor's value and a client's silence are small      *)
(* numbers compared with the sensor's threshold.                           *)
(***************************************************************************)
EXTENDS Integers, Sequences, SequencesExt

CONSTANTS
    Alerts,        \* ids of live alerts (xray-stop, sec-port, restart-panel, ...)
    Sensors,       \* status sensors (cpu, mem, ...)
    Clients,       \* clients the offline watcher looks at
    HISTORY_CAP, ACTIVE_CAP,
    Levels         \* bound: values of a sensor and hours of silence, 0..Levels

VARIABLES
    conditions,    \* live alerts whose condition holds
    prefs,         \* alert sources are enabled (one category)
    dismissed,     \* alerts silenced by the user
    history,       \* log, newest first
    active,        \* keys of the event notifications shown, newest first
    sensorAcked,
    sensors,       \* per sensor and for clientOffline: enabled, threshold
    status,        \* per sensor: the last polled value
    silence,       \* per client: hours since it was seen, -1 never seen
    lastOnline,    \* per client: the value the last poll brought
    firing,        \* per client: edge memory of the offline watcher (not persisted)
    evicted        \* history: alerts whose record fell off the capped log

notifVars == <<conditions, prefs, dismissed, history, active, sensorAcked, sensors, status,
               silence, lastOnline, firing, evicted>>

Offline == "clientOffline"
Record(source, key) == [source |-> source, key |-> key]

Init ==
    /\ conditions = {} /\ prefs = TRUE /\ dismissed = {}
    /\ history = <<>> /\ active = <<>>
    /\ sensorAcked = {}
    /\ sensors = [k \in Sensors \cup {Offline} |-> [enabled |-> TRUE, threshold |-> 1]]
    /\ status = [k \in Sensors |-> 0]
    /\ silence = [c \in Clients |-> -1]
    /\ lastOnline = [c \in Clients |-> -1]
    /\ firing = [c \in Clients |-> FALSE]
    /\ evicted = {}

-----------------------------------------------------------------------------
(* The store *)

Capped(s, n) == SubSeq(s, 1, IF Len(s) < n THEN Len(s) ELSE n)

\* filter: the elements of s that are in T, in their order
Only(s, T) ==
    LET kept[n \in 0..Len(s)] ==
            IF n = 0 THEN <<>> ELSE IF s[n] \in T THEN Append(kept[n - 1], s[n]) ELSE kept[n - 1]
    IN  kept[Len(s)]

Handles(h) == {h[i].key : i \in {j \in 1..Len(h) : h[j].source = "alert"}}

\* Mutant: the history grows without end.
PushHistoryUncapped(h, rec) == <<rec>> \o h
PushHistory(h, rec) == Capped(<<rec>> \o h, HISTORY_CAP)

\* records the keys that lost their last record to the cap
NoteEviction(next) == evicted' = (evicted \cup (Handles(history) \ Handles(next))) \ Handles(next)

RecordToast ==
    /\ history' = PushHistory(history, Record("toast", "none"))
    /\ NoteEviction(history')
    /\ UNCHANGED <<conditions, prefs, dismissed, active, sensorAcked, sensors, status, silence, lastOnline,
                   firing>>

\* pushEvent for every key of ks in turn; a key still shown is not added again
PushEvents(ks) ==
    LET new == {k \in ks : ~Contains(active, k)}
        order == SetToSeq(new)
    IN  /\ active' = Capped(Reverse(order) \o active, ACTIVE_CAP)
        /\ history' = Capped([i \in 1..Len(order) |-> Record("event", Reverse(order)[i])] \o history, HISTORY_CAP)
        /\ NoteEviction(history')

DismissEvent(k) ==
    /\ Contains(active, k)
    /\ active' = Only(active, Clients \ {k})
    /\ UNCHANGED <<conditions, prefs, dismissed, history, sensorAcked, sensors, status, silence, lastOnline,
                   firing, evicted>>

\* The rows of useNotifications: alerts whose source is enabled and that are
\* not dismissed, sensors over their threshold that are not acknowledged
Over(k) == sensors[k].enabled /\ status[k] >= sensors[k].threshold
AlertRows == IF prefs THEN conditions \ dismissed ELSE {}
SensorRows == {k \in Sensors : Over(k) /\ k \notin sensorAcked}

DismissAlert(a) ==
    /\ a \in AlertRows
    /\ dismissed' = dismissed \cup {a}
    /\ history' = PushHistory(history, Record("alert", a))
    /\ NoteEviction(history')
    /\ UNCHANGED <<conditions, prefs, active, sensorAcked, sensors, status, silence, lastOnline, firing>>

\* Restore, offered on the history record of a dismissed alert
RestoreAlert(a) ==
    /\ a \in dismissed /\ a \in Handles(history)
    /\ dismissed' = dismissed \ {a}
    /\ UNCHANGED <<conditions, prefs, history, active, sensorAcked, sensors, status, silence, lastOnline,
                   firing, evicted>>

\* clearHistory keeps the records that can restore a dismissed alert
Restoring == {Record("alert", a) : a \in dismissed}
KeptByClear == Only(history, Restoring)

ClearHistory ==
    /\ \E i \in 1..Len(history) : history[i] \notin Restoring
    /\ history' = KeptByClear
    /\ UNCHANGED <<conditions, prefs, dismissed, active, sensorAcked, sensors, status, silence, lastOnline,
                   firing, evicted>>

SetAlertPref ==
    /\ prefs' = ~prefs
    /\ UNCHANGED <<conditions, dismissed, history, active, sensorAcked, sensors, status, silence, lastOnline,
                   firing, evicted>>

-----------------------------------------------------------------------------
(* Status sensors *)

\* SensorWatcher's effect runs after every change of status, sensors or acks
Rearmed(acked, cfg, st) ==
    {k \in acked : cfg[k].enabled => st[k] >= cfg[k].threshold}

SensorEffects(acked, cfg, st) == sensorAcked' = Rearmed(acked, cfg, st)

StatusPolled(k, v) ==
    /\ v # status[k]
    /\ status' = [status EXCEPT ![k] = v]
    /\ SensorEffects(sensorAcked, sensors, status')
    /\ UNCHANGED <<conditions, prefs, dismissed, history, active, sensors, silence, lastOnline, firing, evicted>>

AckSensor(k) ==
    /\ k \in SensorRows
    /\ SensorEffects(sensorAcked \cup {k}, sensors, status)
    /\ UNCHANGED <<conditions, prefs, dismissed, history, active, sensors, status, silence, lastOnline, firing, evicted>>

-----------------------------------------------------------------------------
(* The client-offline watcher *)

IsOver(c, seen, cfg) == seen[c] >= cfg.threshold

\* The effect over the polled map: fires on the crossing, re-arms below it
OfflineEffect(seen, cfg) ==
    IF ~cfg.enabled
    THEN UNCHANGED <<firing, active, history, evicted>>
    ELSE /\ firing' = [c \in Clients |-> IsOver(c, seen, cfg)]
         /\ PushEvents({c \in Clients : IsOver(c, seen, cfg) /\ ~firing[c]})

OfflinePolled ==
    /\ sensors[Offline].enabled
    /\ lastOnline' = silence
    /\ OfflineEffect(silence, sensors[Offline])
    /\ UNCHANGED <<conditions, prefs, dismissed, sensorAcked, sensors, status, silence>>

\* setSensorEnabled and setSensorThreshold: both watchers' effects run again
SetSensor(k, cfg) ==
    /\ cfg # sensors[k]
    /\ sensors[k].enabled \/ cfg.threshold = sensors[k].threshold   \* the input is disabled
    /\ sensors' = [sensors EXCEPT ![k] = cfg]
    /\ IF k = Offline
       THEN OfflineEffect(lastOnline, cfg) /\ UNCHANGED sensorAcked
       ELSE SensorEffects(sensorAcked, sensors', status) /\ UNCHANGED <<firing, active, history, evicted>>
    /\ UNCHANGED <<conditions, prefs, dismissed, status, silence, lastOnline>>

-----------------------------------------------------------------------------
(* The world, and a page reload, which keeps what localStorage holds *)

ConditionChanges(a) ==
    /\ conditions' = IF a \in conditions THEN conditions \ {a} ELSE conditions \cup {a}
    /\ UNCHANGED <<prefs, dismissed, history, active, sensorAcked, sensors, status, silence, lastOnline,
                   firing, evicted>>

ClientSeen(c, h) ==
    /\ h = 0 \/ (silence[c] >= 0 /\ h = silence[c] + 1)
    /\ silence' = [silence EXCEPT ![c] = h]
    /\ UNCHANGED <<conditions, prefs, dismissed, history, active, sensorAcked, sensors, status, lastOnline,
                   firing, evicted>>

Reload ==
    /\ firing' = [c \in Clients |-> FALSE]
    /\ lastOnline' = [c \in Clients |-> -1]
    /\ UNCHANGED <<conditions, prefs, dismissed, history, active, sensorAcked, sensors, status, silence,
                   evicted>>

-----------------------------------------------------------------------------
Next ==
    \/ RecordToast \/ ClearHistory \/ SetAlertPref \/ OfflinePolled \/ Reload
    \/ \E k \in Clients : DismissEvent(k)
    \/ \E a \in Alerts : DismissAlert(a) \/ RestoreAlert(a) \/ ConditionChanges(a)
    \/ \E k \in Sensors : AckSensor(k) \/ (\E v \in 0..Levels : StatusPolled(k, v))
    \/ \E k \in Sensors \cup {Offline}, b \in BOOLEAN, t \in 1..Levels :
         SetSensor(k, [enabled |-> b, threshold |-> t])
    \/ \E c \in Clients, h \in 0..Levels : ClientSeen(c, h)

Spec == Init /\ [][Next]_notifVars

-----------------------------------------------------------------------------
TypeOK ==
    /\ dismissed \subseteq Alerts /\ sensorAcked \subseteq Sensors
    /\ Len(history) <= HISTORY_CAP /\ Len(active) <= ACTIVE_CAP
    /\ \A i \in 1..Len(active) : active[i] \in Clients
    /\ status \in [Sensors -> 0..Levels]
    /\ lastOnline \in [Clients -> -1..Levels]

\* An alert the user has dismissed can always be brought back from the log:
\* toasts, events, clearing the log and reloads lose the record it is restored
\* from only when the cap of the log pushes it out.
StrandedOnlyByCap == dismissed \subseteq Handles(history) \cup evicted

\* A dismissed sensor row comes back: whether the value fell, the threshold was
\* raised or the sensor was switched back on, a sensor that is watched and below
\* its threshold is not acknowledged, so that its next episode shows.
AckEndsWithEpisode ==
    \A k \in Sensors : sensors[k].enabled /\ status[k] < sensors[k].threshold => k \notin sensorAcked

\* The strip never shows the same offline client twice, however polls,
\* threshold changes, dismissals and reloads interleave.
NoDuplicateEvents == \A i, j \in 1..Len(active) : active[i] = active[j] => i = j

\* A client that the watcher holds for silent is in fact over the threshold it
\* last compared with, so that its next absence is announced again.
RearmedWhenBack ==
    \A c \in Clients : firing[c] /\ sensors[Offline].enabled => IsOver(c, lastOnline, sensors[Offline])

=============================================================================
