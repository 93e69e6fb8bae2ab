---------------------------- MODULE InboundsPage ----------------------------
(***************************************************************************)
(* The dialogs of the inbounds page (pages/inbounds/InboundsPage.tsx) and  *)
(* what may arrive while they are open.  A row action that needs the full  *)
(* record fetches it first and acts when the answer comes, whatever the    *)
(* user has opened since; one slot holds the confirmation, one the prompt, *)
(* one the edit form and one each list-of-clients dialog.                  *)
(*                                                                         *)
(* Of the inbounds, mas is a VLESS/TCP master, kid one of its children by  *)
(* the table of fallbacks, and sock a child by the address it listens on.  *)
(* Each dialog opened gets the next number of "opened".                    *)
(***************************************************************************)
EXTENDS Integers, FiniteSets

CONSTANTS MaxPageSteps,    \* bound: acts of the user
          MaxAsked         \* bound: hydrations under way at once

Ids == {"mas", "kid", "sock"}
None == [nothing |-> TRUE]

VARIABLES
    list,        \* dbInbounds: the rows shown, each with or without its fallbackParent
    stored,      \* the inbounds the server has
    asked,       \* row actions waiting for the full record
    form,        \* the edit form: open on which inbound, with the full record, edited
    view,        \* the links shown last: of which inbound, and the endpoint they name
    confirm,     \* the confirmation shown: what it does, to which inbounds, its number
    confirmBusy,
    calls,       \* calls started from a confirmation: what, inbounds, number
    promise,     \* confirmBulkDelete's promise the list waits for: its number, or None
    selected,    \* selectedRowKeys
    prompt,      \* the import prompt: number, text typed, and the numbers of its running calls
    attach,      \* AttachExistingClientsModal: target, whose list and selection it holds, loads
    members,     \* the three dialogs on an inbound's own clients: source, choice made, number, calls
    posted,      \* the last attach posted: inbound and whose selection
    opened, causes, psteps

pageVars == <<list, stored, asked, form, view, confirm, confirmBusy, calls, promise, selected,
              prompt, attach, members, posted, opened, causes, psteps>>

-----------------------------------------------------------------------------
(* Rows and links *)

slimRow(i) == [parent |-> i = "kid"]       \* GET list/slim annotates the parent
detailRow == [parent |-> FALSE]            \* GET get/:id does not

listensOnSocket(i) == i = "sock"
takesFallbacksOf(m, i) == m = "mas" /\ i = "sock"

\* the endpoint of the links of inbound i, made from row r beside the rows rs
checkFallback(i, r, rs) ==
    IF r.parent /\ "mas" \in DOMAIN rs THEN "mas"
    ELSE IF listensOnSocket(i) /\ \E m \in DOMAIN rs \ {i} : takesFallbacksOf(m, i) THEN "mas" ELSE i

\* the text shown: of which row, and the endpoint its links name
exportInboundLinks(i, row, rs) ==
    [of |-> i, endpoint |-> checkFallback(i, row, rs), row |-> row, master |-> "mas" \in DOMAIN rs]

NoAttach == [target |-> "nothing", listOf |-> "nothing", selOf |-> "nothing", loads |-> {}, n |-> 0, calls |-> {}]
MemberKeys == {"attachClients", "detachClients", "addToGroup"}
NoMembers == [source |-> "nothing", chosen |-> FALSE, n |-> 0, calls |-> {}]
NoForm == [open |-> FALSE, on |-> "new", full |-> TRUE, edited |-> FALSE]
NoPrompt == [open |-> FALSE, typed |-> FALSE, n |-> 0, calls |-> {}]

Init ==
    /\ list = [i \in Ids |-> slimRow(i)] /\ stored = Ids
    /\ asked = {}
    /\ form = NoForm /\ view = None
    /\ confirm = None /\ confirmBusy = FALSE /\ calls = {} /\ promise = 0 /\ selected = {}
    /\ prompt = NoPrompt /\ attach = NoAttach /\ members = [k \in MemberKeys |-> NoMembers] /\ posted = None
    /\ opened = 0 /\ causes = {} /\ psteps = 0

dialogs == <<attach, members>>
confirmVars == <<confirm, confirmBusy, calls, promise, selected>>
UserActs == psteps < MaxPageSteps /\ psteps' = psteps + 1

\* a dialog keeps the page behind it out of reach
PageFree == ~form.open /\ confirm = None /\ ~prompt.open /\ attach.target = "nothing"
            /\ \A k \in MemberKeys : members[k].source = "nothing"

\* refresh(): the list is fetched anew (its lateness is modelled in InboundStats)
refresh == list' = [i \in stored' |-> slimRow(i)]

-----------------------------------------------------------------------------
(* The edit form *)

onAddInbound ==
    /\ UserActs /\ PageFree
    /\ form' = [NoForm EXCEPT !.open = TRUE]
    /\ UNCHANGED <<list, stored, asked, view, confirmVars, prompt, dialogs, posted, opened, causes>>

\* openEdit: the form is filled from the record given, over what it held
openEdit(i, full) == form' = [open |-> TRUE, on |-> i, full |-> full, edited |-> FALSE]

EditForm ==
    /\ UserActs /\ form.open /\ ~form.edited
    /\ form' = [form EXCEPT !.edited = TRUE]
    /\ UNCHANGED <<list, stored, asked, view, confirmVars, prompt, dialogs, posted, opened, causes>>

CloseForm ==
    /\ UserActs /\ form.open
    /\ form' = [form EXCEPT !.open = FALSE, !.edited = FALSE]
    /\ UNCHANGED <<list, stored, asked, view, confirmVars, prompt, dialogs, posted, opened, causes>>

-----------------------------------------------------------------------------
(* Row actions *)

hydratingKeys == {"edit", "links", "clone", "attachClients", "addToGroup"}

Confirm(what, ids) ==
    /\ confirm' = [what |-> what, ids |-> ids, n |-> opened + 1] /\ opened' = opened + 1

openMembers(key, i) ==
    /\ members' = [members EXCEPT ![key].source = i, ![key].chosen = FALSE, ![key].n = opened + 1]
    /\ opened' = opened + 1

\* Opening on an inbound resets what was chosen: targets, clients or group
openAttachClients(i) == openMembers("attachClients", i)
openDetachClients(i) == openMembers("detachClients", i)
openAddToGroup(i) == openMembers("addToGroup", i)

\* what a row action does once it has its record; rs is the list of the render that was clicked
Act(key, i, row, full, rs) ==
    CASE key = "edit" ->
            openEdit(i, full) /\ UNCHANGED <<view, confirm, members, opened>>
      [] key = "links" ->
            view' = exportInboundLinks(i, row, rs) /\ UNCHANGED <<form, confirm, members, opened>>
      [] key = "attachClients" -> openAttachClients(i) /\ UNCHANGED <<form, view, confirm>>
      [] key = "detachClients" -> openDetachClients(i) /\ UNCHANGED <<form, view, confirm>>
      [] key = "addToGroup" -> openAddToGroup(i) /\ UNCHANGED <<form, view, confirm>>
      [] OTHER -> Confirm(key, {i}) /\ UNCHANGED <<form, view, members>>

\* A key that hydrates waits; nothing tells the user, and nothing stops the next action
onRowAction(key, i) ==
    /\ UserActs /\ PageFree /\ i \in DOMAIN list
    /\ IF key \in hydratingKeys
       THEN /\ Cardinality(asked) < MaxAsked
            /\ asked' = asked \cup {[key |-> key, id |-> i, rows |-> list]}
            /\ UNCHANGED <<form, view, confirm, members, opened>>
       ELSE Act(key, i, list[i], FALSE, list) /\ UNCHANGED asked
    /\ UNCHANGED <<list, stored, confirmBusy, calls, promise, selected, prompt, attach, posted, causes>>

\* hydrateInbound swaps the full record into the list; without one the row clicked is used
Hydrated(a) ==
    /\ asked' = asked \ {a}
    /\ \/ /\ list' = IF a.id \in DOMAIN list THEN [list EXCEPT ![a.id] = detailRow] ELSE list
          /\ Act(a.key, a.id, detailRow, TRUE, a.rows)
       \/ list' = list /\ Act(a.key, a.id, a.rows[a.id], FALSE, a.rows)
    /\ causes' = causes \cup (IF form.open /\ a.key = "edit" THEN {"late"} ELSE {})
                        \cup (IF a.key \in MemberKeys /\ members[a.key].source # "nothing" THEN {"late"} ELSE {})
                        \cup (IF confirm # None /\ a.key = "clone" THEN {"displaced"} ELSE {})
    /\ UNCHANGED <<stored, confirmBusy, calls, promise, selected, prompt, attach, posted, psteps>>

\* Every row is hydrated for an export of the whole list; each answer adds its links to the text
exportAllLinks ==
    /\ UserActs /\ PageFree /\ asked = {}
    /\ asked' = {[key |-> "links", id |-> i, rows |-> list] : i \in DOMAIN list}
    /\ UNCHANGED <<list, stored, form, view, confirmVars, prompt, dialogs, posted, opened, causes>>

-----------------------------------------------------------------------------
(* Confirmations *)

toggleSelect(i) ==
    /\ UserActs /\ PageFree
    /\ selected' = IF i \in selected THEN selected \ {i} ELSE selected \cup {i}
    /\ UNCHANGED <<list, stored, asked, form, view, confirm, confirmBusy, calls, promise, prompt, dialogs,
                   posted, opened, causes>>

selectAll ==
    /\ UserActs /\ PageFree
    /\ selected' = IF Cardinality(selected) = Cardinality(DOMAIN list) THEN {} ELSE DOMAIN list
    /\ UNCHANGED <<list, stored, asked, form, view, confirm, confirmBusy, calls, promise, prompt, dialogs,
                   posted, opened, causes>>

\* handleBulkDelete waits for confirmBulkDelete's promise; a promise pending from before is forgotten
confirmBulkDelete ==
    /\ UserActs /\ PageFree /\ selected # {}
    /\ Confirm("bulk", selected) /\ promise' = opened + 1
    /\ UNCHANGED <<list, stored, asked, form, view, confirmBusy, calls, selected, prompt, dialogs, posted, causes>>

\* runConfirm: the OK button is out of use while an earlier call runs
runConfirm ==
    /\ UserActs /\ confirm # None /\ ~confirmBusy
    /\ confirmBusy' = TRUE /\ calls' = calls \cup {confirm}
    /\ UNCHANGED <<list, stored, asked, form, view, confirm, promise, selected, prompt, dialogs, posted,
                   opened, causes>>

\* The call has ended, stored or refused: finally hides whatever confirmation is shown
confirmEnds(c) ==
    /\ calls' = calls \ {c} /\ confirmBusy' = FALSE /\ confirm' = None
    /\ \E ok \in BOOLEAN :
          /\ stored' = IF ok /\ c.what \in {"bulk", "delete"} THEN stored \ c.ids ELSE stored
          /\ IF ok \/ c.what = "bulk" THEN refresh ELSE UNCHANGED list
    /\ promise' = IF promise = c.n THEN 0 ELSE promise
    /\ selected' = IF promise = c.n THEN {} ELSE selected
    /\ causes' = causes \cup (IF confirm # None /\ confirm.n # c.n THEN {"displaced"} ELSE {})
    /\ UNCHANGED <<asked, form, view, prompt, dialogs, posted, opened, psteps>>

\* Cancel or the close button, also while the call runs: onCancel settles the promise with false
cancelConfirm ==
    /\ UserActs /\ confirm # None /\ confirm' = None
    /\ promise' = IF confirm.what = "bulk" /\ promise = confirm.n THEN 0 ELSE promise
    /\ UNCHANGED <<list, stored, asked, form, view, confirmBusy, calls, selected, prompt, dialogs,
                   posted, opened, causes>>

-----------------------------------------------------------------------------
(* The import prompt *)

openPrompt ==
    /\ UserActs /\ PageFree
    /\ prompt' = [prompt EXCEPT !.open = TRUE, !.typed = FALSE, !.n = opened + 1] /\ opened' = opened + 1
    /\ UNCHANGED <<list, stored, asked, form, view, confirmVars, dialogs, posted, causes>>

TypePrompt ==
    /\ UserActs /\ prompt.open /\ prompt' = [prompt EXCEPT !.typed = TRUE]
    /\ UNCHANGED <<list, stored, asked, form, view, confirmVars, dialogs, posted, opened, causes>>

\* Ctrl+S in the text area passes even while an earlier import runs
onPromptConfirm ==
    /\ UserActs /\ prompt.open /\ prompt.typed
    /\ prompt' = [prompt EXCEPT !.calls = @ \cup {prompt.n}]
    /\ UNCHANGED <<list, stored, asked, form, view, confirmVars, dialogs, posted, opened, causes>>

closePrompt ==
    /\ UserActs /\ prompt.open
    /\ prompt' = [prompt EXCEPT !.open = FALSE, !.typed = FALSE]
    /\ causes' = IF prompt.calls # {} THEN causes \cup {"closedWhileSaving"} ELSE causes
    /\ UNCHANGED <<list, stored, asked, form, view, confirmVars, dialogs, posted, opened>>

\* A refused import leaves the prompt and its text
promptRefused(n) ==
    /\ n \in prompt.calls
    /\ prompt' = [prompt EXCEPT !.calls = @ \ {n}]
    /\ UNCHANGED <<list, stored, asked, form, view, confirmVars, dialogs, posted, opened, causes, psteps>>

\* A stored one closes the prompt that is open by then
promptStored(n) ==
    /\ n \in prompt.calls
    /\ prompt' = [prompt EXCEPT !.calls = @ \ {n}, !.open = FALSE, !.typed = FALSE]
    /\ list' = [i \in stored |-> slimRow(i)]
    /\ UNCHANGED <<stored, asked, form, view, confirmVars, dialogs, posted, opened, causes, psteps>>

-----------------------------------------------------------------------------
(* Attaching existing clients *)

attachUnchanged == UNCHANGED <<list, stored, asked, form, view, confirmVars, prompt, members>>

\* The dialog opens on a target; the list held for the target before stays until the new one is there
openAttach(i) ==
    /\ UserActs /\ PageFree /\ i \in DOMAIN list
    /\ attach' = [attach EXCEPT !.target = i, !.n = opened + 1, !.loads = @ \cup {[of |-> i, n |-> opened + 1]}]
    /\ opened' = opened + 1 /\ UNCHANGED <<posted, causes>> /\ attachUnchanged

closeAttach ==
    /\ UserActs /\ attach.target # "nothing"
    /\ attach' = [attach EXCEPT !.target = "nothing"]
    /\ UNCHANGED <<posted, opened, causes>> /\ attachUnchanged

\* The effect that asked is cancelled when the dialog closes or its target changes
attachListArrives(l) ==
    /\ l \in attach.loads
    /\ attach' = IF attach.target # "nothing" /\ l.n = attach.n
                 THEN [attach EXCEPT !.loads = @ \ {l}, !.listOf = l.of, !.selOf = l.of]
                 ELSE [attach EXCEPT !.loads = @ \ {l}]
    /\ UNCHANGED <<posted, opened, causes, psteps>> /\ attachUnchanged

\* submit: an empty selection or a call under way stops it, not a list still loading
attachSubmit ==
    /\ UserActs /\ attach.target # "nothing" /\ attach.selOf # "nothing" /\ attach.calls = {}
    /\ attach' = [attach EXCEPT !.calls = {attach.n}]
    /\ posted' = [to |-> attach.target, selOf |-> attach.selOf, early |-> \E l \in attach.loads : l.n = attach.n]
    /\ UNCHANGED <<opened, causes>> /\ attachUnchanged

\* Stored: the page is refreshed and the dialog that is open by then closed; refused: a message
attachEnds(ok) ==
    /\ attach.calls # {}
    /\ attach' = IF ok THEN [attach EXCEPT !.calls = {}, !.target = "nothing"] ELSE [attach EXCEPT !.calls = {}]
    /\ list' = IF ok THEN [i \in stored |-> slimRow(i)] ELSE list
    /\ UNCHANGED <<stored, asked, form, view, confirmVars, prompt, members, posted, opened, causes, psteps>>

-----------------------------------------------------------------------------
(* Attaching, detaching and grouping an inbound's own clients *)

membersUnchanged == UNCHANGED <<stored, asked, form, view, confirmVars, prompt, attach, posted, opened>>

chooseMembers(k) ==
    /\ UserActs /\ members[k].source # "nothing" /\ ~members[k].chosen
    /\ members' = [members EXCEPT ![k].chosen = TRUE]
    /\ UNCHANGED <<list, causes>> /\ membersUnchanged

submitMembers(k) ==
    /\ UserActs /\ members[k].source # "nothing" /\ members[k].chosen /\ members[k].calls = {}
    /\ members' = [members EXCEPT ![k].calls = {members[k].n}]
    /\ UNCHANGED <<list, causes>> /\ membersUnchanged

closeMembers(k) ==
    /\ UserActs /\ members[k].source # "nothing"
    /\ members' = [members EXCEPT ![k].source = "nothing", ![k].chosen = FALSE]
    /\ causes' = IF members[k].calls # {} THEN causes \cup {"closedWhileSaving"} ELSE causes
    /\ UNCHANGED list /\ membersUnchanged

\* The answer closes the dialog that is open by then, or leaves it with what was chosen
membersEnd(k, ok) ==
    /\ members[k].calls # {}
    /\ members' = [members EXCEPT ![k] = IF ok THEN [@ EXCEPT !.calls = {}, !.source = "nothing", !.chosen = FALSE]
                                         ELSE [@ EXCEPT !.calls = {}]]
    /\ list' = IF ok THEN [i \in stored |-> slimRow(i)] ELSE list
    /\ UNCHANGED <<causes, psteps>> /\ membersUnchanged

Next ==
    \/ onAddInbound \/ EditForm \/ CloseForm
    \/ \E i \in {"mas", "kid"} : onRowAction("edit", i)
    \/ \E i \in {"kid", "sock"} : onRowAction("links", i)
    \/ onRowAction("clone", "mas") \/ onRowAction("delete", "mas")
    \/ \E k \in MemberKeys : onRowAction(k, "kid") \/ chooseMembers(k) \/ submitMembers(k) \/ closeMembers(k)
    \/ \E k \in MemberKeys, ok \in BOOLEAN : membersEnd(k, ok)
    \/ \E a \in asked : Hydrated(a)
    \/ toggleSelect("kid") \/ selectAll \/ exportAllLinks \/ confirmBulkDelete \/ runConfirm \/ cancelConfirm
    \/ \E c \in calls : confirmEnds(c)
    \/ openPrompt \/ TypePrompt \/ onPromptConfirm \/ closePrompt
    \/ \E n \in prompt.calls : promptRefused(n) \/ promptStored(n)
    \/ \E i \in {"mas", "kid"} : openAttach(i)
    \/ closeAttach \/ attachSubmit \/ (\E ok \in BOOLEAN : attachEnds(ok))
    \/ \E l \in attach.loads : attachListArrives(l)

Spec == Init /\ [][Next]_pageVars

-----------------------------------------------------------------------------
(* Properties *)

TypeOK ==
    /\ DOMAIN list \subseteq Ids /\ stored \subseteq Ids /\ selected \subseteq Ids
    /\ form.on \in Ids \cup {"new"} /\ confirmBusy \in BOOLEAN /\ promise \in 0..opened
    /\ causes \subseteq {"late", "displaced", "closedWhileSaving"}

\* What the user typed into the form goes only when the form is closed or an answer came late.
EditsKept == [][(form.open /\ form.edited /\ ~form'.edited) => (~form'.open \/ "late" \in causes')]_pageVars

\* The list waits for a bulk deletion only while its confirmation is shown or its call runs, unless
\* another confirmation took its place (confirmBulkDelete, runConfirm, the dialog's onOpenChange).
PromiseSettles ==
    (promise # 0 /\ "displaced" \notin causes) =>
        (confirm # None /\ confirm.n = promise) \/ \E c \in calls : c.n = promise

\* A text typed for an import is dropped only by closing the prompt or by its own import being stored,
\* unless a prompt was closed while it was saving.
PromptKept ==
    [][(prompt.typed /\ prompt.open /\ ~prompt'.typed) =>
          (psteps' # psteps \/ "closedWhileSaving" \in causes
           \/ (prompt.n \in prompt.calls /\ list' = [i \in stored |-> slimRow(i)]
               /\ prompt'.calls = prompt.calls \ {prompt.n}))]_pageVars

\* What was chosen in a dialog on an inbound's clients goes only when the user closes it, when its own call
\* is stored, or when an answer awaited longer opens it anew, unless it was closed while it was saving.
ChoiceKept ==
    [][\A k \in MemberKeys : (members[k].chosen /\ ~members'[k].chosen) =>
          (psteps' # psteps \/ causes' \cap {"late", "closedWhileSaving"} # {}
           \/ members[k].calls = {members[k].n})]_pageVars

\* The clients attached were chosen from the target's own list, unless OK was pressed before it came.
AttachedOwn == posted # None => (posted.selOf = posted.to \/ posted.early)

\* The links shown of a fallback child name its master when the list has one, unless they were made from
\* the detail of a child by the table, which comes without its parent (checkFallback, model.go:66-71).
LinkReachable ==
    (view # None /\ view.master /\ (view.row.parent \/ view.of = "sock")) => view.endpoint = "mas"
=============================================================================
