----------------------------- MODULE XrayEditor -----------------------------
(***************************************************************************)
(* The draft of the Xray template (hooks/useXraySetting.ts) and the        *)
(* controller that saves it and restarts the core                          *)
(* (layouts/XrayController.tsx), with the outbound tests that run from it. *)
(*                                                                         *)
(* The template is kept twice, as text and as a parsed value: a template   *)
(* is a value of Templates, its text the same value, and Garbage a text    *)
(* that does not parse.                                                    *)
(***************************************************************************)
EXTENDS Integers

CONSTANTS
    Templates,     \* contents of the template
    MaxTemplateEdits, MaxTemplateFails    \* bounds

Garbage == "garbage"
Null == "null"
Texts == Templates \cup {Garbage, Null}

VARIABLES
    stored,      \* the server's template
    core,        \* the template the core runs with
    configData,  \* query data, Null before the first answer
    xraySetting, templateSettings, oldXraySetting,   \* text, parsed value, last text in sync
    saveDisabled,
    save,        \* mutation: "idle", or the text sent and the server's verdict
    configFetch, \* "idle", "asked" or the answer
    coreRestart, \* "idle", "asked", "ok", "failed"
    xrayRestartNeeded,
    drift,       \* history: why text and server may differ, why the core may be behind
    late,        \* texts of saves the page no longer waits for, on their way to the server
    xEdits, xFails

xrayVars == <<stored, core, configData, xraySetting, templateSettings, oldXraySetting, saveDisabled,
              save, configFetch, coreRestart, xrayRestartNeeded, drift, late, xEdits, xFails>>
draftVars == <<xraySetting, templateSettings>>

NoSave == [pc |-> "idle", text |-> Null]
spinning == save.pc # "idle" \/ coreRestart # "idle"

Init ==
    /\ stored \in Templates /\ core = stored
    /\ configData = Null
    /\ xraySetting = Null /\ templateSettings = Null /\ oldXraySetting = Null
    /\ saveDisabled = TRUE
    /\ save = NoSave /\ configFetch = "asked" /\ coreRestart = "idle"
    /\ xrayRestartNeeded = FALSE /\ drift = {} /\ late = {} /\ xEdits = 0 /\ xFails = 0

-----------------------------------------------------------------------------
(* The two forms of the draft *)

\* setXraySetting: a text that parses becomes the value, another one waits
SetXraySetting(next) ==
    /\ xraySetting' = next
    /\ templateSettings' = IF next \in Templates THEN next ELSE templateSettings

EditText(next) ==
    /\ configData # Null /\ xEdits < MaxTemplateEdits /\ xEdits' = xEdits + 1
    /\ next \in Templates \cup {Garbage}
    /\ SetXraySetting(next)
    /\ UNCHANGED <<stored, core, configData, oldXraySetting, saveDisabled, save, configFetch, coreRestart,
                   xrayRestartNeeded, drift, late, xFails>>

\* setTemplateSettings, from every structured tab and from resetToDefault:
\* the value is printed back into the text
SetTemplateSettings(next) ==
    /\ configData # Null /\ xEdits < MaxTemplateEdits /\ xEdits' = xEdits + 1
    /\ next \in Templates
    /\ templateSettings' = next /\ xraySetting' = next
    /\ UNCHANGED <<stored, core, configData, oldXraySetting, saveDisabled, save, configFetch, coreRestart,
                   xrayRestartNeeded, drift, late, xFails>>

\* The interval that compares the text with the last one in sync
DirtyPoll ==
    /\ saveDisabled' = (oldXraySetting = xraySetting)
    /\ UNCHANGED <<stored, core, configData, draftVars, oldXraySetting, save, configFetch, coreRestart,
                   xrayRestartNeeded, drift, late, xEdits, xFails>>

-----------------------------------------------------------------------------
(* Saving *)

\* onSaveAll, offered while dirty and not busy: an unparsable text is refused
OnSaveAll ==
    /\ ~saveDisabled /\ ~spinning
    /\ xraySetting \in Templates
    /\ save' = [pc |-> "sent", text |-> xraySetting]
    /\ UNCHANGED <<stored, core, configData, draftVars, oldXraySetting, saveDisabled, configFetch, coreRestart,
                   xrayRestartNeeded, drift, late, xEdits, xFails>>

ServerStores ==
    /\ save.pc = "sent"
    /\ stored' = save.text /\ save' = [save EXCEPT !.pc = "ok"]
    /\ UNCHANGED <<core, configData, draftVars, oldXraySetting, saveDisabled, configFetch, coreRestart,
                   xrayRestartNeeded, drift, late, xEdits, xFails>>

ServerRefuses ==
    /\ save.pc = "sent" /\ xFails < MaxTemplateFails /\ xFails' = xFails + 1
    /\ save' = [save EXCEPT !.pc = "failed"]
    /\ UNCHANGED <<stored, core, configData, draftVars, oldXraySetting, saveDisabled, configFetch, coreRestart,
                   xrayRestartNeeded, drift, late, xEdits>>

\* updateSetting stores the template and fails at the test URL
ServerRefusesUrl ==
    /\ save.pc = "sent" /\ xFails < MaxTemplateFails /\ xFails' = xFails + 1
    /\ stored' = save.text /\ save' = [save EXCEPT !.pc = "failed"]
    /\ drift' = drift \cup {"storedUnseen"}
    /\ UNCHANGED <<core, configData, draftVars, oldXraySetting, saveDisabled, configFetch, coreRestart,
                   xrayRestartNeeded, late, xEdits>>

\* The connection breaks: to the page the save has failed, while its request
\* may still be on its way
AnswerLost ==
    /\ save.pc = "sent" /\ xFails < MaxTemplateFails /\ xFails' = xFails + 1
    /\ save' = [save EXCEPT !.pc = "failed"] /\ late' = late \cup {save.text}
    /\ UNCHANGED <<stored, core, configData, draftVars, oldXraySetting, saveDisabled, configFetch, coreRestart,
                   xrayRestartNeeded, drift, xEdits>>

\* Such a save reaches the server, possibly after the reminder of a later one is gone
LateStores(x) ==
    /\ x \in late /\ late' = late \ {x}
    /\ stored' = x
    /\ drift' = drift \cup {"storedUnseen"} \cup
                 (IF coreRestart # "ok" /\ (xrayRestartNeeded \/ save # NoSave) THEN {} ELSE {"storedLate"})
    /\ UNCHANGED <<core, configData, draftVars, oldXraySetting, saveDisabled, save, configFetch, coreRestart,
                   xrayRestartNeeded, xEdits, xFails>>

\* Mutant: the reminder is raised when the server said so, as on the settings page.
SaveReturnsOkOnly ==
    /\ save.pc \in {"ok", "failed"}
    /\ save' = NoSave
    /\ xrayRestartNeeded' = (xrayRestartNeeded \/ save.pc = "ok")
    /\ IF save.pc = "ok"
       THEN oldXraySetting' = save.text /\ saveDisabled' = TRUE /\ configFetch' = "asked"
       ELSE UNCHANGED <<oldXraySetting, saveDisabled, configFetch>>
    /\ UNCHANGED <<stored, core, configData, draftVars, coreRestart, drift, late, xEdits, xFails>>

\* The sent text is in sync only when the server said so; the reminder is
\* raised in both cases
SaveReturns ==
    /\ save.pc \in {"ok", "failed"}
    /\ save' = NoSave
    /\ xrayRestartNeeded' = TRUE
    /\ IF save.pc = "ok"
       THEN oldXraySetting' = save.text /\ saveDisabled' = TRUE /\ configFetch' = "asked"
       ELSE UNCHANGED <<oldXraySetting, saveDisabled, configFetch>>
    /\ UNCHANGED <<stored, core, configData, draftVars, coreRestart, drift, late, xEdits, xFails>>

-----------------------------------------------------------------------------
(* The config query *)

ConfigRead ==
    /\ configFetch = "asked" /\ configFetch' = stored
    /\ UNCHANGED <<stored, core, configData, draftVars, oldXraySetting, saveDisabled, save, coreRestart,
                   xrayRestartNeeded, drift, late, xEdits, xFails>>

\* The seed effect runs when the data differs from the data held
ConfigArrives ==
    /\ configFetch \in Templates
    /\ configFetch' = "idle" /\ configData' = configFetch
    /\ IF configFetch # configData
       THEN /\ xraySetting' = configFetch /\ templateSettings' = configFetch
            /\ oldXraySetting' = configFetch /\ saveDisabled' = TRUE
       ELSE UNCHANGED <<draftVars, oldXraySetting, saveDisabled>>
    /\ drift' = IF save = NoSave /\ configFetch = stored /\ xraySetting' = stored /\ oldXraySetting' = stored
                THEN drift \ {"otherSession", "storedUnseen", "fetchFailed"} ELSE drift \ {"fetchFailed"}
    /\ UNCHANGED <<stored, core, save, coreRestart, xrayRestartNeeded, late, xEdits, xFails>>

ConfigFetchFails ==
    /\ configFetch = "asked" /\ configData # Null
    /\ xFails < MaxTemplateFails /\ xFails' = xFails + 1
    /\ configFetch' = "idle" /\ drift' = drift \cup {"fetchFailed"}
    /\ UNCHANGED <<stored, core, configData, draftVars, oldXraySetting, saveDisabled, save, coreRestart,
                   xrayRestartNeeded, late, xEdits>>

\* A query that is still invalidated is fetched again when the window gets focus
WindowFocus ==
    /\ "fetchFailed" \in drift /\ configFetch = "idle" /\ configFetch' = "asked"
    /\ UNCHANGED <<stored, core, configData, draftVars, oldXraySetting, saveDisabled, save, coreRestart,
                   xrayRestartNeeded, drift, late, xEdits, xFails>>

OtherSessionStores(x) ==
    /\ xFails < MaxTemplateFails /\ xFails' = xFails + 1
    /\ x # stored /\ stored' = x
    /\ drift' = drift \cup {"otherSession", "storedElsewhere"}
    /\ UNCHANGED <<core, configData, draftVars, oldXraySetting, saveDisabled, save, configFetch, coreRestart,
                   xrayRestartNeeded, late, xEdits>>

-----------------------------------------------------------------------------
(* Restarting the core: offered when the reminder stands and nothing is dirty *)

OnRestartXray ==
    /\ xrayRestartNeeded /\ saveDisabled /\ ~spinning
    /\ coreRestart' = "asked"
    /\ UNCHANGED <<stored, core, configData, draftVars, oldXraySetting, saveDisabled, save, configFetch,
                   xrayRestartNeeded, drift, late, xEdits, xFails>>

CoreRestarts ==
    /\ coreRestart = "asked" /\ coreRestart' = "ok"
    /\ core' = stored /\ drift' = drift \ {"storedElsewhere", "restartFailed", "storedLate", "reloaded"}
    /\ UNCHANGED <<stored, configData, draftVars, oldXraySetting, saveDisabled, save, configFetch,
                   xrayRestartNeeded, late, xEdits, xFails>>

CoreRestartFails ==
    /\ coreRestart = "asked" /\ xFails < MaxTemplateFails /\ xFails' = xFails + 1
    /\ coreRestart' = "failed" /\ drift' = drift \cup {"restartFailed"}
    /\ UNCHANGED <<stored, core, configData, draftVars, oldXraySetting, saveDisabled, save, configFetch,
                   xrayRestartNeeded, late, xEdits>>

\* After the minimum beat the reminder goes, whatever the answer was
RestartReturns ==
    /\ coreRestart \in {"ok", "failed"} /\ coreRestart' = "idle"
    /\ xrayRestartNeeded' = FALSE
    /\ UNCHANGED <<stored, core, configData, draftVars, oldXraySetting, saveDisabled, save, configFetch,
                   drift, late, xEdits, xFails>>

-----------------------------------------------------------------------------
\* The browser loads the page anew: draft and reminder are gone, and the core
\* stays as it is unless a restart asked for before still gets to it
Reload ==
    /\ xFails < MaxTemplateFails /\ xFails' = xFails + 1
    /\ configData' = Null /\ xraySetting' = Null /\ templateSettings' = Null /\ oldXraySetting' = Null
    /\ saveDisabled' = TRUE /\ save' = NoSave /\ configFetch' = "asked"
    /\ coreRestart' = "idle" /\ xrayRestartNeeded' = FALSE
    /\ late' = late \cup (IF save.pc = "sent" THEN {save.text} ELSE {})
    /\ core' \in (IF coreRestart = "asked" THEN {core, stored} ELSE {core})
    /\ drift' = (drift \ {"fetchFailed"}) \cup (IF core' # stored THEN {"reloaded"} ELSE {})
    /\ UNCHANGED <<stored, xEdits>>

-----------------------------------------------------------------------------
Next ==
    \/ DirtyPoll \/ OnSaveAll \/ ServerStores \/ ServerRefuses \/ ServerRefusesUrl \/ AnswerLost \/ SaveReturns
    \/ Reload
    \/ ConfigRead \/ ConfigArrives \/ ConfigFetchFails \/ WindowFocus
    \/ OnRestartXray \/ CoreRestarts \/ CoreRestartFails \/ RestartReturns
    \/ \E x \in Templates : SetTemplateSettings(x) \/ OtherSessionStores(x) \/ LateStores(x)
    \/ \E x \in Texts : EditText(x)

Spec == Init /\ [][Next]_xrayVars

-----------------------------------------------------------------------------
TypeOK ==
    /\ stored \in Templates /\ core \in Templates
    /\ xraySetting \in Texts /\ templateSettings \in Templates \cup {Null}
    /\ oldXraySetting \in Texts \ {Garbage}
    /\ configFetch \in Templates \cup {"idle", "asked"}
    /\ late \subseteq Templates

\* The structured tabs and the text editor show one template: whenever the text
\* parses, however edits of either kind, saves, refetches and restarts
\* interleaved, it is the text of the value.
OneDraft == xraySetting \in Templates => templateSettings = xraySetting

\* No Save button, and nothing under way, means the server has the text.  It
\* can fail for good after another session's change, or after a save that stored
\* the text although the page was told otherwise or nothing at all: a refetch
\* that returns what the query held before does not seed the editor again.
TextSaved ==
    (save = NoSave /\ configFetch = "idle" /\ saveDisabled /\ oldXraySetting = xraySetting) =>
        xraySetting = stored \/ drift \cap {"otherSession", "storedUnseen"} # {}

\* The core runs behind the stored template only while a reminder stands or a
\* save is under way, unless another session stored it, a restart failed (whose
\* failure clears the reminder all the same), a save arrived after its reminder
\* was gone, or the page was loaded anew, which forgets the reminder though the
\* core is not restarted by it.
StaleCoreIsReminded ==
    core # stored => \/ xrayRestartNeeded \/ save # NoSave
                     \/ drift \cap {"storedElsewhere", "restartFailed", "storedLate", "reloaded"} # {}

=============================================================================
