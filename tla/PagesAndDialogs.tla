-------------------------- MODULE PagesAndDialogs ---------------------------
(***************************************************************************)
(* The parts of the panel whose requests outlive the form, the dialog or   *)
(* the selection they were made from: the inbound dialog, the inbounds     *)
(* page, the client's form, the nodes page and the groups page, side by    *)
(* side. PagesProofs is about this module and MCPanelEditors extends it.   *)
(***************************************************************************)
EXTENDS Integers, Sequences, FiniteSets, PanelParts

CONSTANTS
    MaxOpens, MaxDialogSteps,                            \* of the inbound dialog
    MaxPageSteps, MaxAsked,                              \* of the inbounds page
    MaxNodeActs, MaxWorld, MaxGroupActs, ActsPerChange,  \* of the nodes and groups pages
    MaxEditSteps, MaxHydrations                          \* of the client form

VARIABLES
    indialogStored, indialogDlg, dform, certs, fallbacks, rowKey, dsaving, dcalls, autoTag, lastTag,
    indialogExcuses, dsteps,
    inpageList, inpageStored, asked, form, view, confirm, inpageConfirmBusy, calls, promise,
    inpageSelected, prompt, attach, members, inpagePosted, opened, inpageCauses, psteps,
    nodes, reach, heart, nodeRows, nodesListError, nodesRefetch, pushed, unheard, pick, nodesAsk, busy,
    nform, result, ncalls, overlaid, nwhy, nsteps, wsteps,
    groupOf, groupsStored, groups, groupsReq, groupsListError, notice, all, stack, openedFor,
    groupsDraft, confirming, groupsConfirmBusy, groupForAction, groupEmails, groupsSelected, gcalls,
    harmed, merged, gwhy, gsteps,
    ledger, fmode, fopen, fclient, fattached, fields, hydrations, toggles, saving, cleditSaved, ips,
    ipLoads, overwritten, events, esteps

InDialog == INSTANCE InboundDialog WITH stored <- indialogStored, dlg <- indialogDlg,
                    excuses <- indialogExcuses
InPage == INSTANCE InboundsPage WITH list <- inpageList, stored <- inpageStored,
                  confirmBusy <- inpageConfirmBusy, selected <- inpageSelected,
                  posted <- inpagePosted, causes <- inpageCauses
NodesP == INSTANCE NodesPage WITH listError <- nodesListError, refetch <- nodesRefetch, ask <- nodesAsk
GroupsP == INSTANCE GroupsPage WITH stored <- groupsStored, listError <- groupsListError,
                   draft <- groupsDraft, confirmBusy <- groupsConfirmBusy, selected <- groupsSelected
ClEdit == INSTANCE ClientEditor WITH saved <- cleditSaved

indialogVars == <<indialogStored, indialogDlg, dform, certs, fallbacks, rowKey, dsaving, dcalls, autoTag, lastTag,
                  indialogExcuses, dsteps>>
inpageVars == <<inpageList, inpageStored, asked, form, view, confirm, inpageConfirmBusy, calls, promise, inpageSelected,
                prompt, attach, members, inpagePosted, opened, inpageCauses, psteps>>
nodesVars == <<nodes, reach, heart, nodeRows, nodesListError, nodesRefetch, pushed, unheard, pick, nodesAsk, busy, nform,
               result, ncalls, overlaid, nwhy, nsteps, wsteps>>
groupsVars == <<groupOf, groupsStored, groups, groupsReq, groupsListError, notice, all, stack, openedFor, groupsDraft,
                confirming, groupsConfirmBusy, groupForAction, groupEmails, groupsSelected, gcalls, harmed, merged, gwhy,
                gsteps>>
cleditVars == <<ledger, fmode, fopen, fclient, fattached, fields, hydrations, toggles, saving, cleditSaved, ips, ipLoads,
                overwritten, events, esteps>>
callsVars == <<part, indialogVars, inpageVars, nodesVars, groupsVars, cleditVars>>

CallsInit ==
    /\ InDialog!Init
    /\ InPage!Init
    /\ NodesP!Init
    /\ GroupsP!Init
    /\ ClEdit!Init

IndialogNext ==
    /\ part = "indialog" /\ InDialog!Next
    /\ UNCHANGED <<part, inpageVars, nodesVars, groupsVars, cleditVars>>
InpageNext ==
    /\ part = "inpage" /\ InPage!Next
    /\ UNCHANGED <<part, indialogVars, nodesVars, groupsVars, cleditVars>>
NodesNext ==
    /\ part = "nodes" /\ NodesP!Next
    /\ UNCHANGED <<part, indialogVars, inpageVars, groupsVars, cleditVars>>
GroupsNext ==
    /\ part = "groups" /\ GroupsP!Next
    /\ UNCHANGED <<part, indialogVars, inpageVars, nodesVars, cleditVars>>
CleditNext ==
    /\ part = "cledit" /\ ClEdit!Next
    /\ UNCHANGED <<part, indialogVars, inpageVars, nodesVars, groupsVars>>

CallsNext ==
    \/ IndialogNext
    \/ InpageNext
    \/ NodesNext
    \/ GroupsNext
    \/ CleditNext

CallsSpec == CallsInit /\ [][CallsNext]_callsVars

-----------------------------------------------------------------------------
\* A late answer lands where it was asked for: one call of the inbound
\* dialog at a time, each answer in the form that asked, its fallback rows
\* its own; every confirmation's promise is settled and attaches the
\* target's own selection; a client is saved under its own credentials, on
\* the inbounds its form shows, an overwritten edit has a cause and the
\* edit form shows one client; a node keeps its form until its save has
\* ended, its own pin, and one confirmed call at a time; a dialog on the
\* clients of a group acts on the group it was opened for.
AnswersLand ==
    /\ part = "indialog" =>
        /\ InDialog!OneCallAtATime
        /\ InDialog!AnswersLand
        /\ InDialog!FallbacksStay
        /\ InDialog!NoBareReality
        /\ InDialog!RowsAreDistinct
    /\ part = "inpage" => InPage!PromiseSettles /\ InPage!AttachedOwn
    /\ part = "cledit" =>
        /\ ClEdit!SavedMeansAttached
        /\ ClEdit!CredentialsKept
        /\ ClEdit!OverwrittenHasCause
        /\ ClEdit!FormOfOneClient
    /\ part = "nodes" =>
        /\ NodesP!SubmitHoldsForm
        /\ NodesP!ResultIsOfForm
        /\ NodesP!PinIsOfItsAddress
        /\ NodesP!OneConfirmedCall
        /\ NodesP!OverlaidHasCause
    /\ part = "groups" =>
        /\ GroupsP!ActsOnOpened
        /\ GroupsP!RemovalHasCause
        /\ GroupsP!OneConfirmedGroup
=============================================================================
