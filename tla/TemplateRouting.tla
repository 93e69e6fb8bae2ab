-------------------------- MODULE TemplateRouting --------------------------
(***************************************************************************)
(* The outbounds and the routing rules of the Xray template while the page *)
(* edits them: the outbound and rule tables with their dialogs             *)
(* (pages/xray/outbounds, pages/xray/routing), the basic routing lists     *)
(* that own whole rules (RoutingBasic, basics/helpers.ts), and the WARP    *)
(* and NordVPN dialogs that add, replace and remove outbounds after an     *)
(* answer of the server (pages/xray/overrides).                            *)
(*                                                                         *)
(* Every edit is a functional update of the draft, so an update is never   *)
(* lost; what can be stale is the INDEX a dialog, a drag or a pending      *)
(* request captured.  Rows are told apart by value; a hole is what an      *)
(* assignment past the end of a JavaScript array leaves behind.            *)
(***************************************************************************)
EXTENDS Integers, Sequences, SequencesExt

CONSTANTS
    MaxOutbounds, MaxRules,   \* longest lists explored
    MaxTplEdits,              \* user actions per behaviour
    MaxAccounts               \* WARP accounts ever registered

VARIABLES
    outs,    \* outbounds: [tag, acct]; acct is the WARP account, 0 for others
    rules,   \* routing rules: [to, ip, domain]; a property is {} (absent) or {list}
    dlg,     \* the open dialog or drag: [kind, index, row], row as it was when captured
    nord,    \* NordModal: [data, country, servers, loading], the server's account, countries asked
             \* for, and the logouts under way, each with the index and row it was sent for
    warp,    \* WarpModal and the server's account: [acct, last, data, staged, config, loading, deleting]
    why,     \* history: what made rows move under a captured index, or rules dangle
    tplEdits

tplVars == <<outs, rules, dlg, nord, warp, why, tplEdits>>

Hole == [tag |-> "hole", acct |-> 0]
RuleHole == [to |-> "hole", ip |-> {}, domain |-> {}]
Dropped == [to |-> "dropped", ip |-> {}, domain |-> {}]
Out(tag) == [tag |-> tag, acct |-> 0]
PlainTags == {"direct", "x"}
NordTags == {"nord1", "nord2"}
Data == {<<>>, <<"a">>}
Props == {"ip", "domain"}
NoDialog == [kind |-> "none", index |-> 0, row |-> Hole]
NoRuleDialog(kind, i, r) == [kind |-> kind, index |-> i, row |-> r]
Tags == {outs[i].tag : i \in DOMAIN outs}

Init ==
    /\ outs = <<Out("nord1"), Out("x")>>
    /\ rules = <<[to |-> "x", ip |-> {<<"a">>}, domain |-> {}]>>
    /\ dlg = NoDialog
    /\ nord = [data |-> TRUE, account |-> TRUE, country |-> 0, servers |-> 0, asked |-> {}, loading |-> FALSE,
               logouts |-> <<>>]
    /\ warp = [acct |-> 0, last |-> 0, data |-> 0, staged |-> 0, config |-> FALSE, loading |-> FALSE, deleting |-> "no"]
    /\ why = {} /\ tplEdits = 0

-----------------------------------------------------------------------------
(* JavaScript array updates *)

Splice(s, i) == IF i \in DOMAIN s THEN RemoveAt(s, i) ELSE s
Swap(s, i, j) == [s EXCEPT ![i] = s[j], ![j] = s[i]]
\* list[i] = v: past the end the gap is filled with holes
Assign(s, i, v, hole) ==
    [k \in 1 .. (IF i > Len(s) THEN i ELSE Len(s)) |->
        IF k = i THEN v ELSE IF k \in DOMAIN s THEN s[k] ELSE hole]

\* splice(from, 1) then splice(to, 0, moved): moved is a hole when from is past the end
MoveItem(s, from, to, hole) ==
    LET moved == IF from \in DOMAIN s THEN s[from] ELSE hole
        rest == Splice(s, from)
    IN InsertAt(rest, IF to > Len(rest) + 1 THEN Len(rest) + 1 ELSE to, moved)

Edit == tplEdits < MaxTplEdits /\ tplEdits' = tplEdits + 1
\* Dialogs are modal: the tables are out of reach behind one
EditTable == dlg.kind = "none" /\ Edit

-----------------------------------------------------------------------------
(* Outbound table *)

OpenEdit(i) ==
    /\ EditTable /\ i \in DOMAIN outs
    /\ dlg' = [kind |-> "outEdit", index |-> i, row |-> outs[i]]
    /\ UNCHANGED <<outs, rules, nord, warp, why>>

\* onConfirm of the dialog opened by openAdd
AddOutbound(tag) ==
    /\ EditTable /\ tag \notin Tags /\ Len(outs) < MaxOutbounds
    /\ outs' = Append(outs, Out(tag))
    /\ UNCHANGED <<rules, dlg, nord, warp, why>>

\* The list moves while a logout holds an index into it
LoggingOut == nord.logouts # <<>>
Shift == IF LoggingOut THEN why \cup {"shifted"} ELSE why

\* onConfirm of an edit: existingTags was computed when the dialog opened
ConfirmEdit(tag) ==
    /\ dlg.kind = "outEdit"
    /\ tag \notin Tags \/ tag = dlg.row.tag
    /\ outs' = Assign(outs, dlg.index, [dlg.row EXCEPT !.tag = tag], Hole)
    /\ why' = IF dlg.row.tag # tag THEN Shift \cup {"renamed"} ELSE why
    /\ dlg' = NoDialog
    /\ UNCHANGED <<rules, nord, warp, tplEdits>>

ConfirmDelete(i) ==
    /\ EditTable /\ i \in DOMAIN outs
    /\ dlg' = [kind |-> "outDelete", index |-> i, row |-> outs[i]]
    /\ UNCHANGED <<outs, rules, nord, warp, why>>

RunConfirm ==
    /\ dlg.kind = "outDelete"
    /\ outs' = Splice(outs, dlg.index)
    /\ why' = Shift \cup {"deleted"}
    /\ dlg' = NoDialog
    /\ UNCHANGED <<rules, nord, warp, tplEdits>>

SetFirst(i) ==
    /\ EditTable /\ i \in DOMAIN outs
    /\ outs' = <<outs[i]>> \o RemoveAt(outs, i)
    /\ why' = Shift
    /\ UNCHANGED <<rules, dlg, nord, warp>>

MoveDown(i) ==
    /\ EditTable /\ i \in DOMAIN outs /\ i < Len(outs)
    /\ outs' = Swap(outs, i, i + 1)
    /\ why' = Shift
    /\ UNCHANGED <<rules, dlg, nord, warp>>

CloseDialog ==
    /\ dlg.kind # "none" /\ dlg' = NoDialog
    /\ UNCHANGED <<outs, rules, nord, warp, why, tplEdits>>

-----------------------------------------------------------------------------
(* Rule table *)

\* submit: empty lists and an empty tag are left out of the rule
Rule(to, ip, domain) ==
    [to |-> to, ip |-> IF ip = <<>> THEN {} ELSE {ip}, domain |-> IF domain = <<>> THEN {} ELSE {domain}]
outboundTagOptions == Tags \cup {""}

AddRule(r) ==
    /\ EditTable /\ Len(rules) < MaxRules
    /\ rules' = Append(rules, r)
    /\ UNCHANGED <<outs, dlg, nord, warp, why>>

OpenRule(kind, i) ==
    /\ EditTable /\ i \in DOMAIN rules
    /\ dlg' = NoRuleDialog(kind, i, rules[i])
    /\ UNCHANGED <<outs, rules, nord, warp, why>>

OnRuleConfirm(r) ==
    /\ dlg.kind = "ruleEdit"
    /\ rules' = Assign(rules, dlg.index, r, RuleHole)
    /\ dlg' = NoDialog
    /\ UNCHANGED <<outs, nord, warp, why, tplEdits>>

RunDelete ==
    /\ dlg.kind = "ruleDelete"
    /\ rules' = Splice(rules, dlg.index)
    /\ dlg' = NoDialog
    /\ UNCHANGED <<outs, nord, warp, why, tplEdits>>

\* onUp of a drag begun by onHandlePointerDown
Drop(to) ==
    /\ dlg.kind = "drag" /\ dlg' = NoDialog
    /\ to \in 1 .. MaxRules /\ to # dlg.index
    /\ rules' = MoveItem(rules, dlg.index, to, RuleHole)
    /\ UNCHANGED <<outs, nord, warp, why, tplEdits>>

-----------------------------------------------------------------------------
(* Basic routing: lists that stand for every rule of one tag and property *)

Matches(r, tag, prop) == r.to = tag /\ r[prop] # {}
ruleGetter(rs, tag, prop) ==
    FlattenSeq([i \in 1 .. Len(rs) |-> IF Matches(rs[i], tag, prop) THEN CHOOSE d \in rs[i][prop] : TRUE ELSE <<>>])

\* The first matching rule takes the list, the other matching rules go; an
\* empty list drops them all
ruleSetter(rs, tag, prop, data) ==
    IF ruleGetter(rs, tag, prop) = <<>>
    THEN Append(rs, [[to |-> tag, ip |-> {}, domain |-> {}] EXCEPT ![prop] = {data}])
    ELSE LET hits == {i \in DOMAIN rs : Matches(rs[i], tag, prop)}
             first == CHOOSE i \in hits : \A j \in hits : i <= j
             marked == [i \in DOMAIN rs |->
                 IF i \notin hits THEN rs[i]
                 ELSE IF i = first /\ data # <<>> THEN [rs[i] EXCEPT ![prop] = {data}] ELSE Dropped]
         IN SelectSeq(marked, LAMBDA r : r # Dropped)

\* syncOutbound keeps an outbound for the tag exactly while a rule needs it,
\* except that the first outbound (the default route) always stays
syncOutbound(os, rs, tag) ==
    LET haveRules == \E i \in DOMAIN rs : rs[i].to = tag
        at == {i \in DOMAIN os : os[i].tag = tag}
        idx == IF at = {} THEN 0 ELSE CHOOSE i \in at : \A j \in at : i <= j
    IN IF ~haveRules /\ idx > 1 THEN RemoveAt(os, idx)
       ELSE IF haveRules /\ idx = 0 THEN Append(os, Out(tag)) ELSE os

\* The lists of direct and IPv4 keep their outbound; those of blocked do not
SetBasic(tag, prop, data) ==
    /\ EditTable
    /\ data # ruleGetter(rules, tag, prop)
    /\ rules' = ruleSetter(rules, tag, prop, data) /\ Len(rules') <= MaxRules
    /\ IF tag = "direct"
       THEN /\ outs' = syncOutbound(outs, rules', tag)
            /\ why' = IF Len(outs') < Len(outs) /\ LoggingOut THEN why \cup {"shifted"} ELSE why
       ELSE outs' = outs /\ why' = why \cup {"blocked"}
    /\ UNCHANGED <<dlg, nord, warp>>

-----------------------------------------------------------------------------
(* NordVPN dialog.  loading disables its buttons; every answer clears it,  *)
(* whatever else is out: that of fetchServers, whose select stays enabled, *)
(* and that of fetchData, which closing and reopening the dialog sends     *)

FetchServers(c) ==
    /\ EditTable /\ nord.data /\ c # nord.country
    /\ nord' = [nord EXCEPT !.country = c, !.servers = 0, !.asked = @ \cup {c}, !.loading = TRUE]
    /\ UNCHANGED <<outs, rules, dlg, warp, why>>

\* The servers, or an error, which leaves the list as it is
ServersArrive(c) ==
    /\ c \in nord.asked
    /\ \E list \in {c, nord.servers} :
          nord' = [nord EXCEPT !.asked = @ \ {c}, !.servers = list, !.loading = FALSE]
    /\ why' = IF nord.asked # {c} \/ c # nord.country THEN why \cup {"reordered"} ELSE why
    /\ UNCHANGED <<outs, rules, dlg, warp, tplEdits>>

\* fetchData, answered or not
NordOpen ==
    /\ EditTable
    /\ \E data \in {nord.account, nord.data} : nord' = [nord EXCEPT !.data = data, !.loading = FALSE]
    /\ UNCHANGED <<outs, rules, dlg, warp, why>>

nordIndex == LET at == {i \in DOMAIN outs : outs[i].tag \in NordTags}
             IN IF at = {} THEN 0 ELSE CHOOSE i \in at : \A j \in at : i <= j

\* addOutbound, offered while there is no nord outbound
NordAdd(tag) ==
    /\ EditTable /\ nord.data /\ ~nord.loading /\ nord.servers # 0 /\ nordIndex = 0 /\ Len(outs) < MaxOutbounds
    /\ outs' = Append(outs, Out(tag))
    /\ UNCHANGED <<rules, dlg, nord, warp, why>>

\* resetOutbound: the rules follow the outbound to its new tag
NordReset(tag) ==
    /\ EditTable /\ nord.data /\ ~nord.loading /\ nord.servers # 0 /\ nordIndex # 0
    /\ LET old == outs[nordIndex].tag IN
       /\ outs' = [outs EXCEPT ![nordIndex] = Out(tag)]
       /\ rules' = [i \in DOMAIN rules |-> IF rules[i].to = old THEN [rules[i] EXCEPT !.to = tag] ELSE rules[i]]
    /\ UNCHANGED <<dlg, nord, warp, why>>

NordLogout ==
    /\ EditTable /\ nord.data /\ ~nord.loading
    /\ nord' = [nord EXCEPT !.loading = TRUE, !.logouts = Append(@, [index |-> nordIndex, done |-> FALSE])]
    /\ UNCHANGED <<outs, rules, dlg, warp, why>>

NordServerLogsOut(k) ==
    /\ k \in DOMAIN nord.logouts /\ ~nord.logouts[k].done
    /\ nord' = [nord EXCEPT !.account = FALSE, !.logouts[k].done = TRUE]
    /\ UNCHANGED <<outs, rules, dlg, warp, why, tplEdits>>

\* The answer removes the index of the render that asked, and every nord rule
NordLogoutReturns(k) ==
    /\ k \in DOMAIN nord.logouts /\ nord.logouts[k].done
    /\ outs' = Splice(outs, nord.logouts[k].index)
    /\ rules' = SelectSeq(rules, LAMBDA r : r.to \notin NordTags)
    /\ nord' = [nord EXCEPT !.logouts = RemoveAt(@, k), !.data = FALSE, !.country = 0, !.servers = 0, !.loading = FALSE]
    /\ why' = why \cup (IF dlg.kind # "none" THEN {"shifted"} ELSE {})
                   \cup (IF Len(nord.logouts) > 1 THEN {"twice"} ELSE {})
    /\ UNCHANGED <<dlg, warp, tplEdits>>

\* Refused, or done and not answered
NordLogoutFails(k) ==
    /\ k \in DOMAIN nord.logouts
    /\ nord' = [nord EXCEPT !.logouts = RemoveAt(@, k), !.loading = FALSE]
    /\ UNCHANGED <<outs, rules, dlg, warp, why, tplEdits>>

\* login and saveKey
NordLogin ==
    /\ EditTable /\ ~nord.data /\ ~nord.loading
    /\ nord' = [nord EXCEPT !.data = TRUE, !.account = TRUE]
    /\ UNCHANGED <<outs, rules, dlg, warp, why>>

-----------------------------------------------------------------------------
(* WARP dialog.  loading disables its buttons, but closing and reopening   *)
(* the dialog runs fetchData, which clears loading with a deletion out     *)

WarpOpen ==
    /\ EditTable
    /\ warp' = [warp EXCEPT !.data = warp.acct, !.staged = 0, !.config = FALSE, !.loading = FALSE]
    /\ why' = IF warp.deleting # "no" THEN why \cup {"reopened"} ELSE why
    /\ UNCHANGED <<outs, rules, dlg, nord>>

\* register: a new account, staged as an outbound
WarpRegister ==
    /\ EditTable /\ warp.data = 0 /\ ~warp.loading /\ warp.last < MaxAccounts
    /\ LET a == warp.last + 1 IN
       warp' = [warp EXCEPT !.last = a, !.acct = a, !.data = a, !.staged = a, !.config = TRUE]
    /\ UNCHANGED <<outs, rules, dlg, nord, why>>

\* getConfig stages the outbound of the account shown
WarpGetConfig ==
    /\ EditTable /\ warp.data # 0 /\ warp.data = warp.acct /\ ~warp.loading
    /\ warp' = [warp EXCEPT !.staged = warp.data, !.config = TRUE]
    /\ UNCHANGED <<outs, rules, dlg, nord, why>>

\* updateLicense hides the config and with it the outbound's buttons
WarpLicense ==
    /\ EditTable /\ warp.data # 0 /\ warp.data = warp.acct /\ ~warp.loading
    /\ warp' = [warp EXCEPT !.config = FALSE]
    /\ UNCHANGED <<outs, rules, dlg, nord, why>>

WarpAdd ==
    /\ EditTable /\ warp.config /\ warp.staged # 0 /\ ~warp.loading /\ "warp" \notin Tags /\ Len(outs) < MaxOutbounds
    /\ outs' = Append(outs, [tag |-> "warp", acct |-> warp.staged])
    /\ UNCHANGED <<rules, dlg, nord, warp, why>>

WarpReset ==
    /\ EditTable /\ warp.config /\ warp.staged # 0 /\ ~warp.loading /\ "warp" \in Tags
    /\ outs' = [i \in DOMAIN outs |-> IF outs[i].tag = "warp" THEN [tag |-> "warp", acct |-> warp.staged] ELSE outs[i]]
    /\ UNCHANGED <<rules, dlg, nord, warp, why>>

\* Mutant: the account goes before the server has answered.
WarpDeleteOptimistic ==
    /\ EditTable /\ warp.data # 0 /\ ~warp.loading /\ warp.deleting = "no"
    /\ warp' = [warp EXCEPT !.data = 0, !.deleting = "asked"]
    /\ UNCHANGED <<outs, rules, dlg, nord, why>>

WarpDelete ==
    /\ EditTable /\ warp.data # 0 /\ ~warp.loading /\ warp.deleting = "no"
    /\ warp' = [warp EXCEPT !.loading = TRUE, !.deleting = "asked"]
    /\ UNCHANGED <<outs, rules, dlg, nord, why>>

WarpServerDeletes ==
    /\ warp.deleting = "asked"
    /\ warp' = [warp EXCEPT !.acct = 0, !.deleting = "done"]
    /\ UNCHANGED <<outs, rules, dlg, nord, why, tplEdits>>

WarpDeleteFails ==
    /\ warp.deleting = "asked"
    /\ warp' = [warp EXCEPT !.loading = FALSE, !.deleting = "no"]
    /\ UNCHANGED <<outs, rules, dlg, nord, why, tplEdits>>

\* delConfig removes the outbound by its tag and leaves the rules alone
WarpDeleteReturns ==
    /\ warp.deleting = "done"
    /\ warp' = [warp EXCEPT !.data = 0, !.staged = 0, !.config = FALSE, !.loading = FALSE, !.deleting = "no"]
    /\ outs' = SelectSeq(outs, LAMBDA o : o.tag # "warp")
    /\ why' = why \cup {"deleted"} \cup
              (IF "warp" \in Tags /\ (LoggingOut \/ dlg.kind # "none") THEN {"shifted"} ELSE {})
    /\ UNCHANGED <<rules, dlg, nord, tplEdits>>

-----------------------------------------------------------------------------
\* A refetch that differs from what the query held replaces the draft
\* (useXraySetting's seed effect), whatever dialog is open
Reseed ==
    /\ Edit
    /\ outs' = <<Out("direct")>> /\ rules' = <<>>
    /\ why' = IF LoggingOut \/ dlg.kind # "none" THEN why \cup {"shifted"} ELSE why
    /\ UNCHANGED <<dlg, nord, warp>>

OutboundEdits ==
    \/ \E i \in 1 .. MaxOutbounds : OpenEdit(i) \/ ConfirmDelete(i) \/ SetFirst(i) \/ MoveDown(i)
    \/ \E tag \in PlainTags : AddOutbound(tag) \/ ConfirmEdit(tag)
    \/ RunConfirm \/ CloseDialog
RuleEdits ==
    \/ \E to \in outboundTagOptions, ip \in Data, domain \in Data :
          AddRule(Rule(to, ip, domain)) \/ OnRuleConfirm(Rule(to, ip, domain))
    \/ \E i \in 1 .. MaxRules, kind \in {"ruleEdit", "ruleDelete", "drag"} : OpenRule(kind, i)
    \/ RunDelete \/ \E to \in 1 .. MaxRules : Drop(to)
    \/ \E tag \in {"direct", "blocked"}, prop \in Props, data \in Data : SetBasic(tag, prop, data)
NordSteps ==
    \/ \E c \in 1 .. 2 : FetchServers(c) \/ ServersArrive(c)
    \/ \E tag \in NordTags : NordAdd(tag) \/ NordReset(tag)
    \/ NordOpen \/ NordLogin \/ NordLogout
    \/ \E k \in 1 .. MaxTplEdits : NordServerLogsOut(k) \/ NordLogoutReturns(k) \/ NordLogoutFails(k)
WarpSteps ==
    WarpOpen \/ WarpRegister \/ WarpGetConfig \/ WarpLicense \/ WarpAdd \/ WarpReset \/ WarpDelete
    \/ WarpServerDeletes \/ WarpDeleteFails \/ WarpDeleteReturns

Next == OutboundEdits \/ RuleEdits \/ NordSteps \/ WarpSteps \/ Reseed

Spec == Init /\ [][Next]_tplVars

-----------------------------------------------------------------------------
(* Properties *)

Rows == [tag : PlainTags \cup NordTags \cup {"warp", "hole"}, acct : 0 .. MaxAccounts]

\* Variables keep their types.
TypeOK ==
    /\ outs \in Seq(Rows)
    /\ \A i \in DOMAIN rules : rules[i].ip \subseteq Data \cup {<<"a", "a">>} /\ rules[i].domain \subseteq Data \cup {<<"a", "a">>}
    /\ dlg.kind \in {"none", "outEdit", "outDelete", "ruleEdit", "ruleDelete", "drag"}
    /\ nord.servers \in 0 .. 2 /\ warp.deleting \in {"no", "asked", "done"} /\ tplEdits \in 0 .. MaxTplEdits

\* A rule whose outbound does not exist has one of five causes: its outbound
\* was deleted or renamed by hand (the tables do not follow tags), the blocked
\* list was used without a blocked outbound, rows moved under a captured index,
\* or a NordVPN logout was sent twice.  A NordVPN replacement, a single logout
\* and the direct lists never strand a rule (XrayPage.onResetOutbound,
\* onRemoveRoutingRules, syncOutbound).
DanglingHasCause ==
    (\E i \in DOMAIN rules : rules[i].to \notin Tags \cup {"", "hole"})
        => why \cap {"deleted", "renamed", "blocked", "shifted", "twice"} # {}

\* The lists hold a hole, which the rule table cannot render, only when the
\* list was replaced or shortened under an open dialog or drag.
NoHoleUnlessShifted ==
    (\E i \in DOMAIN outs : outs[i] = Hole) \/ (\E i \in DOMAIN rules : rules[i] = RuleHole)
        => "shifted" \in why

\* A dialog writes to or deletes the row it was opened on, and NordVPN's
\* logout removes a NordVPN outbound, unless rows moved in between, as they do
\* when a second logout is sent while the first is out: each removes its index.
RightRow ==
    [][/\ outs' # outs /\ dlg.kind \in {"outEdit", "outDelete"} /\ dlg' = NoDialog /\ nord' = nord /\ warp' = warp
            => "shifted" \in why \/ (dlg.index \in DOMAIN outs /\ outs[dlg.index] = dlg.row)
       /\ outs' # outs /\ Len(nord'.logouts) < Len(nord.logouts)
            => \/ why \cap {"shifted", "twice"} # {}
               \/ \E k \in DOMAIN nord.logouts :
                      LET i == nord.logouts[k].index
                      IN  i \in DOMAIN outs /\ outs[i].tag \in NordTags /\ outs' = Splice(outs, i)]_tplVars

\* The servers offered are those of the country selected, unless two answers
\* were out at once (fetchServers does not tell its answers apart).
ServersMatchCountry ==
    nord.servers \notin {0, nord.country} => "reordered" \in why

\* A finished WARP deletion never removes the outbound of the account the
\* server has now, unless the dialog was reopened during the deletion.
DeletionIsOfDeleted ==
    [][warp.deleting = "done" /\ warp'.deleting = "no" /\ warp.acct # 0
            /\ (\E i \in DOMAIN outs : outs[i] = [tag |-> "warp", acct |-> warp.acct])
        => "reopened" \in why]_tplVars

\* A basic list reads back exactly what was set, and setting it changes no
\* rule of another tag and keeps their order.
SetterIsLens ==
    [][\A tag \in {"direct", "blocked"}, prop \in Props, data \in Data :
          SetBasic(tag, prop, data) =>
            /\ ruleGetter(rules', tag, prop) = data
            /\ SelectSeq(rules', LAMBDA r : r.to # tag) = SelectSeq(rules, LAMBDA r : r.to # tag)]_tplVars
=============================================================================
