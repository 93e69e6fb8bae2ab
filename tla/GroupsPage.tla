----------------------------- MODULE GroupsPage -----------------------------
(***************************************************************************)
(* The page of the client groups: the list (pages/groups/GroupsPage.tsx),  *)
(* the dialogs that create, rename and delete a group and that act on its  *)
(* clients (ClientSelectModal.tsx, ClientBulkAdjustModal.tsx,              *)
(* SubLinksModal.tsx), and of the server the operations they call          *)
(* (controller/group.go, service/client.go).                               *)
(*                                                                         *)
(* A group exists when it is stored or when a client names it.  "a" and    *)
(* "A" differ in case only.  Dialogs are stacked: the one opened last is   *)
(* on top and is the one the user can reach.                               *)
(***************************************************************************)
EXTENDS Integers, Sequences, FiniteSets

CONSTANTS MaxGroupActs,     \* bound: acts of the user
          ActsPerChange     \* bound: the acts a change by another session counts for

VARIABLES
    groupOf,     \* the server's clients and their group, "" for none
    stored,      \* the client_groups table
    groups,      \* the rows on screen: the number of clients of each group
    groupsReq,   \* the list's request: None, Asked, or the rows the server read
    listError,   \* fetchError: shown instead of the rows
    notice,      \* an "invalidate clients" message on its way
    all,         \* allClientsQuery: data or None, stale, request
    stack,       \* open dialogs, the one on top first
    openedFor,   \* the group each of the dialogs on clients was opened for
    draft,       \* renameTarget and the name typed in the name dialog on top
    confirming,  \* the confirmation: what it will do and to which group, or None
    confirmBusy,
    groupForAction, groupEmails,
    selected,    \* the boxes ticked in the two client pickers
    gcalls,      \* requests in flight
    harmed,      \* a client was taken out of a group the dialog was not opened for
    merged,      \* a rename has merged two groups
    gwhy, gsteps

groupTable == <<groupOf, stored>>
onScreen == <<groups, groupsReq, listError, notice, all>>
dialogs == <<stack, openedFor, draft, confirming, confirmBusy, groupForAction, groupEmails, selected>>
ghosts == <<harmed, merged>>
groupVars == <<groupTable, onScreen, dialogs, gcalls, ghosts, gwhy, gsteps>>

None == [nothing |-> TRUE]
Asked == [asked |-> TRUE]
Names == {"a", "A", "b"}
Same(n, m) == n = m \/ {n, m} = {"a", "A"}       \* equal once in lower case
Pickers == {"add", "remove"}
OnClients == Pickers \cup {"links", "adjust"}

members(g) == {c \in DOMAIN groupOf : groupOf[c] = g}
Known == stored \cup ({groupOf[c] : c \in DOMAIN groupOf} \ {""})
ListGroups == [g \in Known |-> Cardinality(members(g))]

\* A call remembers whether the page was behind the server when it was sent,
\* or the server has changed since
ListBehind(emails) ==
    \/ groups # ListGroups
    \/ all.data # None /\ \E e \in emails \cap DOMAIN groupOf : e \notin DOMAIN all.data \/ all.data[e] # groupOf[e]
Call(kind, g, emails) == [kind |-> kind, g |-> g, emails |-> emails, to |-> "", opened |-> g,
                          behind |-> ListBehind(emails), ans |-> "asked"]
Overtaken(S) == {[c EXCEPT !.behind = @ \/ c.ans = "asked"] : c \in S}

\* The page as it was loaded; with a name typed for "a"; with a picker open and
\* a client ticked, possibly after the links of the other group were asked for,
\* which counts as an act; or with the deletion of the clients of "b" under way
Init ==
    /\ groupOf = [c \in {"c1", "c2"} |-> IF c = "c1" THEN "a" ELSE "b"] /\ stored = {"a"}
    /\ groups = ListGroups /\ groupsReq = None /\ listError = FALSE /\ notice = FALSE /\ groupEmails = {}
    /\ stack \in {<<>>, <<"rename">>, <<"remove">>, <<"confirm">>}
    /\ LET onA(d) == IF stack = <<d>> THEN "a" ELSE ""
       IN  /\ draft = [target |-> onA("rename"), name |-> IF stack = <<"rename">> THEN "A" ELSE ""]
           /\ groupForAction = onA("remove") /\ openedFor = [d \in OnClients |-> onA(d)]
    /\ selected = [d \in Pickers |-> IF stack = <<d>> THEN {"c1"} ELSE {}]
    /\ all = [data |-> IF stack = <<"remove">> THEN groupOf ELSE None, stale |-> FALSE, req |-> None]
    /\ confirmBusy = (stack = <<"confirm">>)
    /\ confirming = IF confirmBusy THEN [kind |-> "deleteClients", g |-> "b"] ELSE None
    /\ gcalls \in IF confirmBusy THEN {{Call("deleteClients", "b", {})}}
                  ELSE IF stack = <<"remove">> THEN {{}, {Call("links", "b", {})}} ELSE {{}}
    /\ gsteps = IF \E c \in gcalls : c.kind = "links" THEN 1 ELSE 0
    /\ harmed = FALSE /\ merged = FALSE /\ gwhy = {}

-----------------------------------------------------------------------------
(* The two queries of the page *)

\* Two operators of SequencesExt: PagesProofs, which proves about this module, is
\* faster without the rest of it
ToSet(s) == {s[i] : i \in DOMAIN s}
RemoveAt(s, i) == SubSeq(s, 1, i - 1) \o SubSeq(s, i + 1, Len(s))

IsOpen(d) == d \in ToSet(stack)
\* allClientsQuery is enabled by the dialogs that show clients
Enabled(s) == ToSet(s) \cap {"add", "remove", "links"} # {}

\* invalidate: a query in use is fetched again, the other only marked
Invalidate ==
    /\ groupsReq' = Asked
    /\ all' = [all EXCEPT !.stale = TRUE, !.req = IF Enabled(stack) THEN Asked ELSE @]
\* opening a dialog enables the query; data older than staleTime is fetched again
Enable(s, old) == all' = IF Enabled(s) /\ ~Enabled(stack) /\ all.req = None /\ (all.data = None \/ all.stale \/ old)
                         THEN [all EXCEPT !.req = Asked] ELSE all

groupsRead ==
    /\ groupsReq = Asked /\ groupsReq' = [rows |-> ListGroups] /\ gwhy' = gwhy \ {"dropped", "unseen"}
    /\ UNCHANGED <<groupTable, groups, listError, notice, all, dialogs, gcalls, ghosts, gsteps>>
fetchGroups(ok) ==
    /\ groupsReq \notin {None, Asked} /\ groupsReq' = None /\ listError' = ~ok
    /\ groups' = IF ok THEN groupsReq.rows ELSE groups
    /\ UNCHANGED <<groupTable, notice, all, dialogs, gcalls, ghosts, gwhy, gsteps>>

clientsRead ==
    /\ all.req = Asked /\ all' = [all EXCEPT !.req = [rows |-> groupOf]]
    /\ UNCHANGED <<groupTable, groups, groupsReq, listError, notice, dialogs, gcalls, ghosts, gwhy, gsteps>>

\* The clients a picker offers, of those it has
Offered(d, data) ==
    IF data = None THEN {}
    ELSE {c \in DOMAIN data : IF d = "add" THEN data[c] # groupForAction ELSE data[c] = groupForAction}

clientsLand ==
    /\ all.req \notin {None, Asked}
    /\ all' = [data |-> all.req.rows, stale |-> FALSE, req |-> None]
    /\ gwhy' = IF \E d \in Pickers : IsOpen(d) /\ ~(selected[d] \subseteq Offered(d, all.req.rows))
               THEN gwhy \cup {"kept"} ELSE gwhy
    /\ UNCHANGED <<groupTable, groups, groupsReq, listError, notice, dialogs, gcalls, ghosts, gsteps>>

\* The bridge passes a message on, unless this page has just invalidated itself
noticeArrives(dropped) ==
    /\ notice /\ notice' = FALSE
    /\ IF dropped THEN gwhy' = gwhy \cup {"dropped"} /\ UNCHANGED <<groupsReq, all>>
                  ELSE Invalidate /\ UNCHANGED gwhy
    /\ UNCHANGED <<groupTable, groups, listError, dialogs, gcalls, ghosts, gsteps>>

-----------------------------------------------------------------------------
(* Other sessions, through the form of a client *)

Elsewhere == gsteps + ActsPerChange <= MaxGroupActs /\ gsteps' = gsteps + ActsPerChange
             /\ notice' = TRUE /\ gcalls' = Overtaken(gcalls)
elsewhereKeeps == <<stored, groups, groupsReq, listError, all, dialogs, ghosts>>
otherMoves(c, g) ==
    /\ Elsewhere /\ c \in DOMAIN groupOf /\ groupOf[c] # g /\ groupOf' = [groupOf EXCEPT ![c] = g]
    /\ gwhy' = IF \E n \in Known : n # g /\ Same(n, g) THEN gwhy \cup {"elsewhere"} ELSE gwhy
    /\ UNCHANGED elsewhereKeeps
otherDeletes(c) ==
    /\ Elsewhere /\ c \in DOMAIN groupOf /\ groupOf' = [x \in DOMAIN groupOf \ {c} |-> groupOf[x]]
    /\ UNCHANGED <<elsewhereKeeps, gwhy>>

-----------------------------------------------------------------------------
(* The user's acts *)

Acts == gsteps < MaxGroupActs /\ gsteps' = gsteps + 1
actKeeps == <<groupTable, groups, groupsReq, listError, notice, ghosts>>
PageFree == stack = <<>> /\ ~listError
OnTop(d) == stack # <<>> /\ Head(stack) = d
Full(g) == g \in DOMAIN groups /\ groups[g] > 0
Pending(kind) == \E c \in gcalls : c.kind = kind
Send(c) == gcalls' = gcalls \cup {c}
Closed(d) == IF IsOpen(d) THEN RemoveAt(stack, CHOOSE i \in DOMAIN stack : stack[i] = d) ELSE stack
Raised(d) == IF IsOpen(d) THEN stack ELSE <<d>> \o stack

Refresh ==
    /\ Acts /\ listError /\ groupsReq = None /\ groupsReq' = Asked
    /\ UNCHANGED <<groupTable, groups, listError, notice, all, dialogs, gcalls, ghosts, gwhy>>

openName(d, g) ==
    /\ Acts /\ PageFree /\ stack' = <<d>> /\ draft' = [target |-> g, name |-> g]
    /\ UNCHANGED <<actKeeps, all, openedFor, confirming, confirmBusy, groupForAction, groupEmails, selected, gcalls, gwhy>>
openCreate == openName("create", "")
openRename(g) == g \in DOMAIN groups /\ openName("rename", g)
typeName(n) ==
    /\ Acts /\ (OnTop("create") \/ OnTop("rename")) /\ n # draft.name /\ draft' = [draft EXCEPT !.name = n]
    /\ UNCHANGED <<actKeeps, all, stack, openedFor, confirming, confirmBusy, groupForAction, groupEmails, selected, gcalls, gwhy>>

Taken(n, but) == \E g \in DOMAIN groups : Same(g, n) /\ g # but
\* The button waits for the call before, the Enter key does not
confirmCreate ==
    /\ Acts /\ OnTop("create") /\ draft.name # "" /\ ~Taken(draft.name, "")
    /\ Send([Call("create", "", {}) EXCEPT !.to = draft.name])
    /\ UNCHANGED <<actKeeps, all, dialogs, gwhy>>
confirmRename ==
    /\ Acts /\ OnTop("rename") /\ draft.name \notin {"", draft.target} /\ ~Taken(draft.name, draft.target)
    /\ Send([Call("rename", draft.target, {}) EXCEPT !.to = draft.name])
    /\ UNCHANGED <<actKeeps, all, dialogs, gwhy>>

askConfirm(kind, g) ==
    /\ Acts /\ PageFree /\ confirming' = [kind |-> kind, g |-> g] /\ stack' = <<"confirm">>
    /\ UNCHANGED <<actKeeps, all, openedFor, draft, confirmBusy, groupForAction, groupEmails, selected, gcalls, gwhy>>
onDelete(g) == g \in DOMAIN groups /\ askConfirm("delete", g)
onDeleteClients(g) == Full(g) /\ askConfirm("deleteClients", g)
onResetTraffic(g) == Full(g) /\ askConfirm("reset", g)
runConfirm ==
    /\ Acts /\ OnTop("confirm") /\ ~confirmBusy /\ confirmBusy' = TRUE
    /\ Send(Call(confirming.kind, confirming.g, {}))
    /\ UNCHANGED <<actKeeps, all, stack, openedFor, draft, confirming, groupForAction, groupEmails, selected, gwhy>>

\* withEmails: reads the group's clients first, whatever is done meanwhile
withEmails(kind, g) ==
    /\ Acts /\ PageFree /\ Full(g) /\ Send(Call(kind, g, {}))
    /\ UNCHANGED <<actKeeps, all, dialogs, gwhy>>

openPicker(d, g, old) ==
    /\ Acts /\ PageFree /\ stack' = <<d>> /\ Enable(<<d>>, old)
    /\ groupForAction' = g /\ openedFor' = [openedFor EXCEPT ![d] = g] /\ selected' = [selected EXCEPT ![d] = {}]
    /\ UNCHANGED <<actKeeps, draft, confirming, confirmBusy, groupEmails, gcalls, gwhy>>
openAddClientsFor(g, old) == g \in DOMAIN groups /\ openPicker("add", g, old)
openRemoveClientsFor(g, old) == Full(g) /\ openPicker("remove", g, old)

Pick(d, S) ==
    /\ Acts /\ OnTop(d) /\ S # selected[d] /\ selected' = [selected EXCEPT ![d] = S]
    /\ UNCHANGED <<actKeeps, all, stack, openedFor, draft, confirming, confirmBusy, groupForAction, groupEmails, gcalls, gwhy>>
toggle(d, c) == c \in Offered(d, all.data) /\ Pick(d, IF c \in selected[d] THEN selected[d] \ {c} ELSE selected[d] \cup {c})
\* all the rows the search leaves on screen
toggleAll(d, found) ==
    LET filtered == Offered(d, all.data) \cap found
    IN  Pick(d, IF filtered \subseteq selected[d] THEN selected[d] \ filtered ELSE selected[d] \cup filtered)
submitPicker(d) ==
    /\ Acts /\ OnTop(d) /\ groupForAction # "" /\ selected[d] # {} /\ ~Pending(d)
    /\ Send([Call(d, groupForAction, selected[d]) EXCEPT !.opened = openedFor[d]])
    /\ UNCHANGED <<actKeeps, all, dialogs, gwhy>>
submitAdjust ==
    /\ Acts /\ OnTop("adjust") /\ ~Pending("bulkAdjust")
    /\ Send([Call("bulkAdjust", groupForAction, groupEmails) EXCEPT !.opened = openedFor["adjust"]])
    /\ UNCHANGED <<actKeeps, all, dialogs, gwhy>>

\* Every dialog closes at any time, its call under way or not
closeTop ==
    /\ Acts /\ stack # <<>> /\ stack' = Tail(stack)
    /\ confirming' = IF OnTop("confirm") THEN None ELSE confirming
    /\ UNCHANGED <<actKeeps, all, openedFor, draft, confirmBusy, groupForAction, groupEmails, selected, gcalls, gwhy>>

-----------------------------------------------------------------------------
(* The server *)

Performed(c) == gcalls' = Overtaken(gcalls \ {c}) \cup {[c EXCEPT !.behind = FALSE, !.ans = "ok"]}
Regroup(S, g) == groupOf' = [c \in DOMAIN groupOf |-> IF c \in S THEN g ELSE groupOf[c]]

CreateGroup(c) == c.to \notin stored /\ Performed(c) /\ stored' = stored \cup {c.to} /\ UNCHANGED <<groupOf, ghosts>>

\* replaceGroupValue: the name of a stored group is unique, that of the clients is not
RenameGroup(c) ==
    /\ ~(c.g \in stored /\ c.to \in stored)
    /\ Performed(c) /\ Regroup(members(c.g), c.to)
    /\ stored' = IF c.g \in stored THEN (stored \ {c.g}) \cup {c.to} ELSE stored
    /\ merged' = (merged \/ (c.g \in Known /\ c.to \in Known)) /\ UNCHANGED harmed
DeleteGroup(c) == Performed(c) /\ stored' = stored \ {c.g} /\ Regroup(members(c.g), "") /\ UNCHANGED ghosts
AddToGroup(c) ==
    /\ Performed(c) /\ stored' = IF c.g \in Known THEN stored ELSE stored \cup {c.g}
    /\ Regroup(c.emails, c.g) /\ UNCHANGED ghosts
RemoveFromGroup(c) ==
    /\ Performed(c) /\ Regroup(c.emails, "") /\ UNCHANGED <<stored, merged>>
    /\ harmed' = (harmed \/ \E e \in c.emails \cap DOMAIN groupOf : groupOf[e] \notin {c.opened, ""})
\* A client that cannot be deleted is skipped and reported
Delete(some) == groupOf' = [x \in DOMAIN groupOf \ some |-> groupOf[x]] /\ UNCHANGED <<stored, ghosts>>
BulkDelete(c) == Performed(c) /\ \E some \in SUBSET c.emails : Delete(some)
EmailsByGroup(c) ==
    /\ \E S \in {{}, members(c.g)} :       \* a failed request counts as an empty group
          gcalls' = (gcalls \ {c}) \cup {[c EXCEPT !.emails = S, !.behind = FALSE, !.ans = "read"]}
    /\ UNCHANGED <<groupTable, ghosts>>
Applied(c) == gcalls' = (gcalls \ {c}) \cup {[c EXCEPT !.behind = FALSE, !.ans = "ok"]} /\ UNCHANGED <<groupTable, ghosts>>

\* A call that changes something is refused; other sessions are told of none of this
Refused(c) == gcalls' = (gcalls \ {c}) \cup {[c EXCEPT !.ans = "refused"]} /\ UNCHANGED <<groupTable, ghosts>>
\* A call is refused on its way: the row of the group has been changed, outside the
\* transaction on its clients, or some of the clients are deleted
RefusedPartly(c) ==
    /\ gcalls' = Overtaken(gcalls \ {c}) \cup {[c EXCEPT !.behind = FALSE, !.ans = "refused"]}
    /\ \/ /\ c.kind = "rename" /\ c.g \in stored /\ c.to \notin stored
          /\ stored' = (stored \ {c.g}) \cup {c.to} /\ merged' = (merged \/ c.to \in Known)
          /\ UNCHANGED <<groupOf, harmed>>
       \/ c.kind = "delete" /\ stored' = stored \ {c.g} /\ UNCHANGED <<groupOf, ghosts>>
       \/ c.kind = "add" /\ c.g \notin Known /\ stored' = stored \cup {c.g} /\ UNCHANGED <<groupOf, ghosts>>
       \/ c.kind = "bulkDelete" /\ \E some \in SUBSET c.emails : Delete(some)

Changing == {"create", "rename", "delete", "add", "remove", "bulkDelete"}
Whys(c) == gwhy \cup (IF c.behind THEN {"behind"} ELSE {})
Asks(c) == c \in gcalls /\ c.ans = "asked" /\ UNCHANGED <<groups, groupsReq, listError, all, dialogs, gsteps>>

serve(c) ==
    /\ Asks(c)
    /\ CASE c.kind = "create" -> CreateGroup(c) [] c.kind = "rename" -> RenameGroup(c)
         [] c.kind = "delete" -> DeleteGroup(c) [] c.kind = "add" -> AddToGroup(c)
         [] c.kind = "remove" -> RemoveFromGroup(c) [] c.kind = "bulkDelete" -> BulkDelete(c)
         [] c.kind \in {"links", "adjust", "deleteClients", "reset"} -> EmailsByGroup(c)
         [] c.kind \in {"bulkAdjust", "bulkReset"} -> Applied(c)
    /\ gwhy' = Whys(c) /\ notice' = (notice \/ c.kind \in Changing)
refuse(c) ==
    /\ Asks(c) /\ UNCHANGED notice
    /\ \/ c.kind \in Changing \cup {"bulkAdjust", "bulkReset"} /\ Refused(c) /\ UNCHANGED gwhy
       \/ RefusedPartly(c) /\ gwhy' = Whys(c) \cup {"unseen"} \cup (IF c.kind = "rename" THEN {"halfRenamed"} ELSE {})
\* The server has done it and told everyone, but its answer is lost
answerLost(c) ==
    /\ c \in gcalls /\ c.ans = "ok" /\ gcalls' = (gcalls \ {c}) \cup {[c EXCEPT !.ans = "refused"]}
    /\ UNCHANGED <<groupTable, onScreen, dialogs, ghosts, gwhy, gsteps>>

-----------------------------------------------------------------------------
(* What the page does with the answer *)

answerKeeps == <<groupTable, groups, listError, notice, ghosts, gsteps>>
Invalidated(c) == IF c.ans = "ok" THEN Invalidate ELSE UNCHANGED <<groupsReq, all>>

\* The dialog of that kind closes, whichever group it is open for by then
dialogAnswered(c, d) ==
    /\ gcalls' = gcalls \ {c} /\ Invalidated(c)
    /\ stack' = IF c.ans = "ok" THEN Closed(d) ELSE stack
    /\ UNCHANGED <<answerKeeps, openedFor, draft, confirming, confirmBusy, groupForAction, groupEmails, selected, gwhy>>

emailsArrive(c, old) ==
    /\ gcalls' = gcalls \ {c} /\ UNCHANGED <<answerKeeps, groupsReq, draft, confirming, confirmBusy, selected>>
    /\ IF c.emails = {} THEN UNCHANGED <<all, stack, openedFor, groupForAction, groupEmails, gwhy>>
       ELSE /\ groupForAction' = c.g /\ groupEmails' = c.emails /\ openedFor' = [openedFor EXCEPT ![c.kind] = c.g]
            /\ stack' = Raised(c.kind) /\ Enable(Raised(c.kind), old)
            /\ gwhy' = IF \E d \in OnClients : IsOpen(d) /\ openedFor[d] # c.g THEN gwhy \cup {"swapped"} ELSE gwhy

\* finally: the confirmation open by then closes
confirmedAnswered(c) ==
    /\ gcalls' = gcalls \ {c} /\ Invalidated(c) /\ confirmBusy' = FALSE /\ confirming' = None /\ stack' = Closed("confirm")
    /\ UNCHANGED <<answerKeeps, openedFor, draft, groupForAction, groupEmails, selected, gwhy>>
\* The clients are read when the user confirms, and acted on next
confirmedRead(c) ==
    IF c.emails = {} THEN confirmedAnswered(c)
    ELSE /\ gcalls' = (gcalls \ {c}) \cup {[c EXCEPT !.kind = IF c.kind = "reset" THEN "bulkReset" ELSE "bulkDelete", !.ans = "asked"]}
         /\ UNCHANGED <<answerKeeps, groupsReq, all, dialogs, gwhy>>

answer(c) ==
    /\ c \in gcalls /\ c.ans # "asked"
    /\ CASE c.kind \in {"create", "rename", "add", "remove"} -> dialogAnswered(c, c.kind)
         [] c.kind = "bulkAdjust" -> dialogAnswered(c, "adjust")
         [] c.kind \in {"links", "adjust"} -> \E old \in BOOLEAN : emailsArrive(c, old)
         [] c.kind \in {"deleteClients", "reset"} -> confirmedRead(c)
         [] c.kind \in {"delete", "bulkDelete", "bulkReset"} -> confirmedAnswered(c)

Next ==
    \/ groupsRead \/ clientsRead \/ clientsLand \/ Refresh \/ openCreate \/ confirmCreate \/ confirmRename
    \/ runConfirm \/ submitAdjust \/ closeTop
    \/ \E b \in BOOLEAN : fetchGroups(b) \/ noticeArrives(b)
    \/ \E c \in {"c1", "c2"} : otherDeletes(c) \/ (\E g \in Names \cup {""} : otherMoves(c, g))
    \/ \E g \in Names : openRename(g) \/ typeName(g) \/ onDelete(g) \/ onDeleteClients(g) \/ onResetTraffic(g)
    \/ \E g \in Names : withEmails("links", g) \/ withEmails("adjust", g)
    \/ \E g \in Names, old \in BOOLEAN : openAddClientsFor(g, old) \/ openRemoveClientsFor(g, old)
    \/ \E d \in Pickers : submitPicker(d)
    \/ \E d \in Pickers, c \in {"c1", "c2"} : toggle(d, c) \/ toggleAll(d, {c})
    \/ \E d \in Pickers : toggleAll(d, {"c1", "c2"})
    \/ \E c \in gcalls : serve(c) \/ refuse(c) \/ answerLost(c) \/ answer(c)

Spec == Init /\ [][Next]_groupVars

-----------------------------------------------------------------------------
TypeOK ==
    /\ DOMAIN groupOf \subseteq {"c1", "c2"} /\ \A c \in DOMAIN groupOf : groupOf[c] \in Names \cup {""}
    /\ stored \subseteq Names /\ DOMAIN groups \subseteq Names
    /\ Len(stack) = Cardinality(ToSet(stack)) /\ ToSet(stack) \subseteq OnClients \cup {"create", "rename", "confirm"}
    /\ IsOpen("confirm") <=> confirming # None

\* Once the page's calls, its request and the messages are in, it lists the
\* groups there are, unless a message came just after an invalidation of its own
\* or a call was refused after a part of it was done, of which nobody is told.
GroupsFollow ==
    (gcalls = {} /\ groupsReq = None /\ ~listError /\ ~notice /\ gwhy \cap {"dropped", "unseen"} = {})
        => groups = ListGroups

\* A call acts on the group its dialog was opened for, unless the clients of
\* another group arrived late and replaced the group under the open dialog.
ActsOnOpened == \A c \in gcalls : c.opened # c.g => "swapped" \in gwhy

\* A client is taken out of its group by the dialog of another one only if it has
\* moved since the dialog's list was read, stayed ticked when the list was read
\* again, or the group was replaced.
RemovalHasCause == harmed => gwhy \cap {"behind", "kept", "swapped"} # {}

\* The page never lets two groups differ in case only, nor merges two by a
\* rename, but from a list that was behind; and a rename that fails half-way
\* leaves the old name and the new one.
TwinsHaveCause == (\E n, m \in Known : n # m /\ Same(n, m)) => gwhy \cap {"behind", "elsewhere", "halfRenamed"} # {}
MergeHasCause == merged => "behind" \in gwhy

\* Closing a confirmation early and opening another never runs two at once.
OneConfirmedGroup == Cardinality({c \in gcalls : c.kind \in {"delete", "deleteClients", "bulkDelete", "reset", "bulkReset"}}) <= 1

=============================================================================
