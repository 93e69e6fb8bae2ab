------------------------- MODULE DraftsAndWatchers --------------------------
(***************************************************************************)
(* The parts of the panel that keep a draft of what the server holds (the  *)
(* settings form, the template editor, the DNS tab and the outbound        *)
(* dialog) and the two that watch the server (the poll of the log and the  *)
(* store of notifications), side by side. PanelEditorsProofs is about this *)
(* module and MCPanelEditors extends it.                                   *)
(***************************************************************************)
EXTENDS Integers, Sequences, FiniteSets, PanelParts

CONSTANTS
    MaxEdits, MaxFails,                                  \* of the settings form
    Templates, MaxTemplateEdits, MaxTemplateFails,       \* of the template editor
    Domains, MaxRows, MaxDnsEdits,                       \* of the DNS section
    MaxFormEdits,                                        \* of the outbound form
    Window, MaxLines, MaxLogSteps,                       \* of the log watcher
    Alerts, Sensors, WatchedClients, HISTORY_CAP, ACTIVE_CAP, Levels    \* of the notifications

\* The log and the strip of the notifications hold at least one entry (200 and
\* 50 in the code), and the watcher of silent clients has a key of its own.
ASSUME WatcherBounds ==
    /\ Window \in Nat /\ MaxLines \in Nat /\ MaxLogSteps \in Nat
    /\ HISTORY_CAP \in Nat \ {0} /\ ACTIVE_CAP \in Nat \ {0} /\ Levels \in Nat
    /\ IsFiniteSet(WatchedClients) /\ "clientOffline" \notin Sensors

\* What marks the state of the template's draft and of its query is no template,
\* and the host row without a domain has none.
ASSUME EditorNames ==
    /\ Templates \cap {"idle", "asked", "null", "garbage"} = {}
    /\ "empty" \notin Domains

VARIABLES
    settingsSaved, running, settingsOriginal, settingsDraft, posts, settingsRefetch, gate, tfa,
    restart, restartDue, restartNeeded, settingsCauses, setEdits, setFails,
    xrayStored, core, configData, xraySetting, templateSettings, oldXraySetting, saveDisabled, save,
    configFetch, coreRestart, xrayRestartNeeded, drift, late, xEdits, xFails,
    dns, hostsList, dnsDlg, dnsWhy, dnsEdits,
    outformOriginal, oform, otab, ojson, ojsonDirty, outformSaved, savedFrom, oedits,
    logged, watch, answers, notified, baseline, logWhy, logSteps,
    conditions, prefs, dismissed, history, active, sensorAcked, sensors, status, silence, lastOnline,
    firing, evicted

Settings == INSTANCE SettingsEditor WITH saved <- settingsSaved, original <- settingsOriginal,
                    draft <- settingsDraft, refetch <- settingsRefetch, causes <- settingsCauses
Xray == INSTANCE XrayEditor WITH stored <- xrayStored
Dns == INSTANCE DnsEditor
OutForm == INSTANCE OutboundForm WITH original <- outformOriginal, saved <- outformSaved
Logs == INSTANCE LogWatch
Notices == INSTANCE Notifications WITH Clients <- WatchedClients

settingsVars == <<settingsSaved, running, settingsOriginal, settingsDraft, posts, settingsRefetch, gate, tfa, restart,
                  restartDue, restartNeeded, settingsCauses, setEdits, setFails>>
xrayVars == <<xrayStored, core, configData, xraySetting, templateSettings, oldXraySetting, saveDisabled, save, configFetch,
              coreRestart, xrayRestartNeeded, drift, late, xEdits, xFails>>
dnsVars == <<dns, hostsList, dnsDlg, dnsWhy, dnsEdits>>
outformVars == <<outformOriginal, oform, otab, ojson, ojsonDirty, outformSaved, savedFrom, oedits>>
logsVars == <<logged, watch, answers, notified, baseline, logWhy, logSteps>>
noticesVars == <<conditions, prefs, dismissed, history, active, sensorAcked, sensors, status, silence, lastOnline, firing,
                 evicted>>
draftsVars == <<part, settingsVars, xrayVars, dnsVars, outformVars, logsVars, noticesVars>>

DraftsInit ==
    /\ Settings!Init
    /\ Xray!Init
    /\ Dns!Init
    /\ Logs!Init
    /\ Notices!Init
    /\ OutForm!Init

SettingsNext ==
    /\ part = "settings" /\ Settings!Next
    /\ UNCHANGED <<part, xrayVars, dnsVars, outformVars, logsVars, noticesVars>>
XrayNext ==
    /\ part = "xray" /\ Xray!Next
    /\ UNCHANGED <<part, settingsVars, dnsVars, outformVars, logsVars, noticesVars>>
DnsNext ==
    /\ part = "dns" /\ Dns!Next
    /\ UNCHANGED <<part, settingsVars, xrayVars, outformVars, logsVars, noticesVars>>
OutformNext ==
    /\ part = "outform" /\ OutForm!Next
    /\ UNCHANGED <<part, settingsVars, xrayVars, dnsVars, logsVars, noticesVars>>
LogsNext ==
    /\ part = "logs" /\ Logs!Next
    /\ UNCHANGED <<part, settingsVars, xrayVars, dnsVars, outformVars, noticesVars>>
\* The status sensors and the rest of the notification store share no variable
\* but the table of settings, of which each reads its own rows: a behaviour takes
\* the steps of one of the two.
NoticesNext ==
    /\ \/ part = "notices" /\ UNCHANGED <<status, sensorAcked>>
       \/ part = "sensors" /\ UNCHANGED <<conditions, prefs, dismissed, history, active, silence, lastOnline>>
    /\ Notices!Next
    /\ part = "notices" => \A k \in Sensors : sensors'[k] = sensors[k]
    /\ UNCHANGED <<part, settingsVars, xrayVars, dnsVars, outformVars, logsVars>>

DraftsNext ==
    \/ SettingsNext
    \/ XrayNext
    \/ DnsNext
    \/ OutformNext
    \/ LogsNext
    \/ NoticesNext

DraftsSpec == DraftsInit /\ [][DraftsNext]_draftsVars

-----------------------------------------------------------------------------
\* An editor that shows nothing to save and nothing to restart is in step
\* with the server: the settings form and the template editor hold what is
\* saved, the text, the parsed template and the open JSON tab are one
\* draft, the DNS hosts on screen are the template's; and a panel process
\* or a core that runs an older version than the saved one is reported by
\* the restart reminder. Each departure has a named cause.
QuietMeansInSync ==
    /\ part = "settings" => Settings!CleanMeansSaved /\ Settings!StaleProcessIsReminded
    /\ part = "xray" => Xray!OneDraft /\ Xray!TextSaved /\ Xray!StaleCoreIsReminded
    /\ part = "dns" => Dns!HostsMirrored
    /\ part = "outform" => OutForm!JsonIsForm

\* A failed login is notified once and missed only when more lines than a
\* window came between two polls; a dismissed alert can be restored unless
\* the history's cap evicted it; a sensor or client is armed again when its
\* episode ends; an event on display is not added twice.
NotifiedOnce ==
    /\ part = "logs" => Logs!ReplayHasCause /\ Logs!MissHasCause
    /\ part \in {"notices", "sensors"} =>
        /\ Notices!StrandedOnlyByCap
        /\ Notices!AckEndsWithEpisode
        /\ Notices!NoDuplicateEvents
        /\ Notices!RearmedWhenBack
=============================================================================
