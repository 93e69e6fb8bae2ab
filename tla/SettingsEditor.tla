--------------------------- MODULE SettingsEditor ---------------------------
(***************************************************************************)
(* The panel settings draft (api/queries/useAllSettings.ts,                *)
(* layouts/SettingsController.tsx) behind the settings tabs: the page-wide *)
(* Save with its confirmation gate, the immediate commit of the two-factor *)
(* toggle, the restart reminder kept in localStorage, the panel restart.   *)
(* Another session may change the same settings.                           *)
(*                                                                         *)
(* Settings are a few Boolean fields; one stands for the access-critical   *)
(* ones.  causes is history: why the tab's picture may differ from the     *)
(* server's.                                                               *)
(***************************************************************************)
EXTENDS Integers, FiniteSets

CONSTANTS
    MaxEdits,      \* bound: edits of the draft
    MaxFails       \* bound: failing calls, lost answers, reloads during a call, changes
                   \* by the other session

Critical == {"webPort"}                                   \* ACCESS_CRITICAL_FIELDS
Fields == Critical \cup {"pageSize", "twoFactorEnable"}
Settings == [Fields -> BOOLEAN]
Blank == [f \in Fields |-> FALSE]
Idle == [pc |-> "idle", v |-> Blank]
Asked == [pc |-> "asked", v |-> Blank]
Closed == [open |-> FALSE, held |-> Blank]

VARIABLES
    saved,       \* the server's settings
    running,     \* the settings the panel process started with
    original,    \* query data
    draft,
    posts,       \* calls of /setting/update in flight
    refetch,     \* of /setting/all: Idle, Asked or the answer
    gate,        \* DangerConfirmModal is open
    tfa,         \* two-factor dialog, and the draft its closure holds
    restart,     \* "idle", "asked", "accepted", "refused", "leaving"
    restartDue,  \* the server restarts in a moment
    restartNeeded,
    causes, setEdits, setFails

setVars == <<saved, running, original, draft, posts, refetch, gate, tfa, restart, restartDue,
             restartNeeded, causes, setEdits, setFails>>
tabVars == <<original, draft, posts, refetch, gate, tfa, restart>>

Init ==
    /\ saved = Blank
    /\ running = saved /\ original = saved /\ draft = saved
    /\ posts = {} /\ refetch = Idle /\ gate = FALSE /\ tfa = Closed
    /\ restart = "idle" /\ restartDue = FALSE /\ restartNeeded = FALSE
    /\ causes = {} /\ setEdits = 0 /\ setFails = 0

TabCauses == {"otherSession", "refetchFailed", "notTold"}
ProcessCauses == {"commit", "savedElsewhere", "answerUnread"}
Untold == {"notTold", "answerUnread"}     \* the server stored what the page was not told

dirty == draft # original                                 \* !saveDisabled
busy == (\E p \in posts : ~p.orphan) \/ restart \in {"asked", "accepted"}
changedDangerFields == {f \in Critical : draft[f] # original[f]}
Frosted == gate \/ tfa.open \/ restart \in {"accepted", "leaving"}   \* nothing else can be clicked

-----------------------------------------------------------------------------
UpdateSetting(f) ==
    /\ ~Frosted /\ setEdits < MaxEdits /\ f # "twoFactorEnable"
    /\ setEdits' = setEdits + 1
    /\ draft' = [draft EXCEPT ![f] = ~@]
    /\ UNCHANGED <<saved, running, original, posts, refetch, gate, tfa, restart, restartDue, restartNeeded,
                   causes, setFails>>

Send(body, via, shown) ==
    posts' = posts \cup {[body |-> body, via |-> via, shown |-> shown, seen |-> original,
                        orphan |-> FALSE, pc |-> "sent"]}

\* The header's Save: a draft the schema refuses leaves everything as it is
RequestSave ==
    /\ dirty /\ ~busy /\ ~Frosted
    /\ IF changedDangerFields # {}
       THEN gate' = TRUE /\ UNCHANGED posts
       ELSE Send(draft, "save", {}) /\ UNCHANGED gate
    /\ UNCHANGED <<saved, running, original, draft, refetch, tfa, restart, restartDue, restartNeeded,
                   causes, setEdits, setFails>>

\* DangerConfirmModal: after the countdown and the acknowledgement, or closed
ConfirmDanger ==
    /\ gate /\ gate' = FALSE
    /\ Send(draft, "save", changedDangerFields)
    /\ UNCHANGED <<saved, running, original, draft, refetch, tfa, restart, restartDue, restartNeeded,
                   causes, setEdits, setFails>>

CancelDanger ==
    /\ gate /\ gate' = FALSE
    /\ UNCHANGED <<saved, running, original, draft, posts, refetch, tfa, restart, restartDue, restartNeeded,
                   causes, setEdits, setFails>>

\* toggleTwoFactor opens the dialog; its onConfirm holds the draft of this render
OpenTfa ==
    /\ ~Frosted
    /\ tfa' = [open |-> TRUE, held |-> draft]
    /\ UNCHANGED <<saved, running, original, draft, posts, refetch, gate, restart, restartDue, restartNeeded,
                   causes, setEdits, setFails>>

\* A right code: commitSetting posts the held draft with the patch
ConfirmTfa ==
    /\ tfa.open /\ setEdits < MaxEdits /\ setEdits' = setEdits + 1
    /\ LET next == [tfa.held EXCEPT !["twoFactorEnable"] = ~@] IN
       /\ draft' = next
       /\ Send(next, "commit", {})
    /\ tfa' = Closed
    /\ UNCHANGED <<saved, running, original, refetch, gate, restart, restartDue, restartNeeded, causes, setFails>>

CancelTfa ==
    /\ tfa.open /\ tfa' = Closed
    /\ UNCHANGED <<saved, running, original, draft, posts, refetch, gate, restart, restartDue, restartNeeded,
                   causes, setEdits, setFails>>

-----------------------------------------------------------------------------
(* The server (external) *)

ServerSaves(p) ==
    /\ p.pc = "sent"
    /\ saved' = p.body
    /\ posts' = (posts \ {p}) \cup {[p EXCEPT !.pc = "ok"]}
    /\ causes' = causes \cup (IF p.orphan THEN Untold ELSE {})
    /\ UNCHANGED <<running, original, draft, refetch, gate, tfa, restart, restartDue, restartNeeded,
                   setEdits, setFails>>

\* UpdateAllSetting stores field by field, without a transaction, and reports
\* the ones that failed; after it BumpLoginEpoch can fail too
ServerRefuses(p) ==
    /\ p.pc = "sent" /\ setFails < MaxFails /\ setFails' = setFails + 1
    /\ \E F \in SUBSET Fields : saved' = [f \in Fields |-> IF f \in F THEN p.body[f] ELSE saved[f]]
    /\ posts' = (posts \ {p}) \cup {[p EXCEPT !.pc = "failed"]}
    /\ causes' = causes \cup (IF saved' # saved THEN Untold ELSE {})
    /\ UNCHANGED <<running, original, draft, refetch, gate, tfa, restart, restartDue, restartNeeded, setEdits>>

\* The connection breaks: to the page the call has failed, and whether the
\* server was or will be reached it cannot know
AnswerLost(p) ==
    /\ p.pc \in {"sent", "ok"} /\ ~p.orphan /\ setFails < MaxFails /\ setFails' = setFails + 1
    /\ posts' = (posts \ {p}) \cup {[p EXCEPT !.orphan = TRUE]}
    /\ causes' = causes \cup (IF p.pc = "ok" THEN Untold ELSE {})
    /\ UNCHANGED <<saved, running, original, draft, refetch, gate, tfa, restart, restartDue, restartNeeded, setEdits>>

OtherSession(f) ==
    /\ setFails < MaxFails /\ setFails' = setFails + 1
    /\ saved' = [saved EXCEPT ![f] = ~@]
    /\ causes' = causes \cup {"otherSession", "savedElsewhere"}
    /\ UNCHANGED <<running, tabVars, restartDue, restartNeeded, setEdits>>

PanelRestarts ==
    /\ restartDue /\ restartDue' = FALSE
    /\ running' = saved
    /\ causes' = causes \ ProcessCauses
    /\ UNCHANGED <<saved, tabVars, restartNeeded, setEdits, setFails>>

ServerReads ==
    /\ refetch = Asked /\ refetch' = [pc |-> "read", v |-> saved]
    /\ UNCHANGED <<saved, running, original, draft, posts, gate, tfa, restart, restartDue, restartNeeded,
                   causes, setEdits, setFails>>

-----------------------------------------------------------------------------

\* saveMut's onSuccess and the rest of executeSave; a commit sets no reminder,
\* and the answer the page no longer waits for does nothing
SaveReturns(p) ==
    /\ p.pc \in {"ok", "failed"}
    /\ posts' = posts \ {p}
    /\ refetch' = IF p.pc = "ok" /\ ~p.orphan THEN Asked ELSE refetch
    /\ restartNeeded' = (restartNeeded \/ (p.pc = "ok" /\ p.via = "save" /\ ~p.orphan))
    /\ causes' = causes \cup (IF p.pc = "ok" /\ p.via = "commit" THEN {"commit"} ELSE {})
    /\ UNCHANGED <<saved, running, original, draft, gate, tfa, restart, restartDue, setEdits, setFails>>

\* Query data that differs replaces the draft, with what was typed meanwhile
RefetchArrives ==
    /\ refetch.pc = "read"
    /\ original' = refetch.v /\ refetch' = Idle
    /\ draft' = IF refetch.v # original THEN refetch.v ELSE draft
    /\ causes' = IF refetch.v = saved THEN causes \ TabCauses ELSE causes
    /\ UNCHANGED <<saved, running, posts, gate, tfa, restart, restartDue, restartNeeded, setEdits, setFails>>

RefetchFails ==
    /\ refetch = Asked /\ setFails < MaxFails /\ setFails' = setFails + 1
    /\ refetch' = Idle
    /\ causes' = causes \cup {"refetchFailed"}
    /\ UNCHANGED <<saved, running, original, draft, posts, gate, tfa, restart, restartDue, restartNeeded, setEdits>>

-----------------------------------------------------------------------------
(* Restart, offered when a reminder stands and nothing is dirty *)

RequestRestart ==
    /\ restartNeeded /\ ~dirty /\ ~busy /\ ~Frosted /\ restart = "idle"
    /\ restart' = "asked"
    /\ UNCHANGED <<saved, running, original, draft, posts, refetch, gate, tfa, restartDue, restartNeeded,
                   causes, setEdits, setFails>>

ServerAcceptsRestart ==
    /\ restart = "asked" /\ restart' = "accepted" /\ restartDue' = TRUE
    /\ UNCHANGED <<saved, running, original, draft, posts, refetch, gate, tfa, restartNeeded, causes, setEdits, setFails>>

\* Refused, or accepted with a lost answer
RestartRefused ==
    /\ restart = "asked" /\ setFails < MaxFails /\ setFails' = setFails + 1
    /\ restart' = "idle" /\ restartDue' \in {restartDue, TRUE}
    /\ UNCHANGED <<saved, running, original, draft, posts, refetch, gate, tfa, restartNeeded, causes, setEdits>>

RestartAccepted ==
    /\ restart = "accepted"
    /\ restart' = "leaving" /\ restartNeeded' = FALSE
    /\ UNCHANGED <<saved, running, original, draft, posts, refetch, gate, tfa, restartDue, causes, setEdits, setFails>>

\* The page is loaded anew, five seconds after a restart was accepted or
\* because the user reloads: the reminder alone survives, in localStorage
Reload ==
    /\ restart = "leaving" => ~restartDue
    /\ original' = saved /\ draft' = saved
    /\ posts' = {[p EXCEPT !.orphan = TRUE] : p \in {q \in posts : q.pc = "sent"}} /\ refetch' = Idle
    /\ gate' = FALSE /\ tfa' = Closed
    /\ restart' = "idle"
    /\ causes' = (causes \ TabCauses) \cup
                   (IF posts # {} THEN Untold ELSE {})
    /\ setFails' = IF posts # {} THEN setFails + 1 ELSE setFails
    /\ setFails' <= MaxFails
    /\ UNCHANGED <<saved, running, restartDue, restartNeeded, setEdits>>

-----------------------------------------------------------------------------
Next ==
    \/ RequestSave \/ ConfirmDanger \/ CancelDanger \/ OpenTfa \/ ConfirmTfa \/ CancelTfa
    \/ ServerReads \/ RefetchArrives \/ RefetchFails
    \/ RequestRestart \/ ServerAcceptsRestart \/ RestartRefused \/ RestartAccepted \/ PanelRestarts
    \/ Reload
    \/ \E f \in Fields : UpdateSetting(f) \/ OtherSession(f)
    \/ \E p \in posts : ServerSaves(p) \/ ServerRefuses(p) \/ AnswerLost(p) \/ SaveReturns(p)

Spec == Init /\ [][Next]_setVars

-----------------------------------------------------------------------------
TypeOK ==
    /\ saved \in Settings /\ running \in Settings /\ original \in Settings /\ draft \in Settings
    /\ refetch \in [pc : {"idle", "asked", "read"}, v : Settings]
    /\ tfa \in [open : BOOLEAN, held : Settings]
    /\ restart \in {"idle", "asked", "accepted", "leaving"}

Settled == posts = {} /\ refetch = Idle

\* No Save button means nothing to save: once no call is under way, a draft
\* without changes is what the server holds, whatever order the save, the
\* two-factor commit, their refetches and edits in between came in.
CleanMeansSaved == Settled /\ ~dirty => draft = saved \/ causes \cap TabCauses # {}

\* "clear it only on a real restart": the panel never runs with settings older
\* than a completed Save while the reminder is off; the two-factor commit is the
\* one save of this tab that leaves no reminder.
StaleProcessIsReminded ==
    running # saved => \/ restartNeeded \/ restartDue \/ restart = "accepted"
                       \/ \E p \in posts : p.pc = "ok"
                       \/ causes \cap ProcessCauses # {}

\* "a Save touching them goes through DangerConfirmModal": this tab changes an
\* access-critical setting of the server only after the dialog listed it, except
\* through the two-factor commit, which posts the whole draft, and through a
\* save that puts back what another session has changed meanwhile.
AccessChangeHasCause ==
    [][\A f \in Critical, p \in posts :
          saved'[f] # saved[f] /\ p \notin posts' /\ p.pc = "sent" =>
              f \in p.shown \/ p.via = "commit" \/ p.seen # saved]_setVars
=============================================================================
