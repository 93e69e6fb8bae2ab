--------------------------- MODULE BalancerEditor ---------------------------
(***************************************************************************)
(* The balancers of the Xray template (pages/xray/balancers): a list of    *)
(* balancers, the routing rules that name them, and the two observatories  *)
(* the core probes outbounds with, which must cover what the balancers     *)
(* select.                                                                 *)
(***************************************************************************)
EXTENDS Integers, Sequences, FiniteSets, SequencesExt

CONSTANTS BalTags, Selectors, MaxBalancers, MaxBalEdits

VARIABLES
    balancers,   \* [tag, strategy, selector]
    balRules,    \* the balancerTag of each routing rule
    probes,      \* [observatory, burst]: sets of subjects, {} with flag FALSE when absent
    balDlg,      \* the dialog: [kind, index, row, form]
    balWhy,      \* history
    balEdits

balVars == <<balancers, balRules, probes, balDlg, balWhy, balEdits>>

Strategies == {"random", "leastPing", "leastLoad"}
Bal == [tag : BalTags, strategy : Strategies, selector : SUBSET Selectors]
BalHole == [tag |-> "hole", strategy |-> "random", selector |-> {}]
NoBalDialog == [kind |-> "none", index |-> 0, row |-> BalHole]
Absent == [on |-> FALSE, subjects |-> {}]

Init ==
    /\ balancers = <<>> /\ balRules = <<>>
    /\ probes = [observatory |-> Absent, burst |-> Absent]
    /\ balDlg = NoBalDialog /\ balWhy = {} /\ balEdits = 0

BalEdit == balEdits < MaxBalEdits /\ balEdits' = balEdits + 1

collectSelectors(list, kinds) ==
    UNION {list[i].selector : i \in {j \in DOMAIN list : list[j].strategy \in kinds}}

Probe(list, kinds) ==
    IF \E i \in DOMAIN list : list[i].strategy \in kinds
    THEN [on |-> TRUE, subjects |-> collectSelectors(list, kinds)] ELSE Absent

\* An observatory exists exactly while a balancer needs it, and watches the
\* outbounds those balancers select
syncObservatories(list) ==
    [observatory |-> Probe(list, {"leastPing"}), burst |-> Probe(list, {"random", "leastLoad"})]

-----------------------------------------------------------------------------
OpenBalancer(kind, i) ==
    /\ balDlg.kind = "none" /\ BalEdit
    /\ IF kind = "add" THEN i = 0 ELSE i \in DOMAIN balancers
    /\ balDlg' = [kind |-> kind, index |-> i, row |-> IF i = 0 THEN BalHole ELSE balancers[i]]
    /\ UNCHANGED <<balancers, balRules, probes, balWhy>>

CloseBalancer ==
    /\ balDlg.kind # "none" /\ balDlg' = NoBalDialog
    /\ UNCHANGED <<balancers, balRules, probes, balWhy, balEdits>>

\* otherTags follows the list, not the dialog: submit refuses a tag of another row
OtherTags == {balancers[i].tag : i \in DOMAIN balancers \ {balDlg.index}}
CanSubmit(b) == balDlg.kind \in {"add", "edit"} /\ b.selector # {} /\ b.tag \notin OtherTags

ConfirmAdd(b) ==
    /\ balDlg.kind = "add" /\ CanSubmit(b) /\ Len(balancers) < MaxBalancers
    /\ balancers' = Append(balancers, b)
    /\ probes' = syncObservatories(balancers')
    /\ balDlg' = NoBalDialog
    /\ UNCHANGED <<balRules, balWhy, balEdits>>

\* Mutant: the rules keep the tag the balancer had.
ConfirmEditByOpenedTag(b) ==
    /\ balDlg.kind = "edit" /\ CanSubmit(b)
    /\ balancers' = [k \in 1 .. (IF balDlg.index > Len(balancers) THEN balDlg.index ELSE Len(balancers)) |->
          IF k = balDlg.index THEN b ELSE IF k \in DOMAIN balancers THEN balancers[k] ELSE BalHole]
    /\ balRules' = balRules
    /\ probes' = syncObservatories(balancers')
    /\ balDlg' = NoBalDialog
    /\ UNCHANGED <<balWhy, balEdits>>

\* The rules of the row that is at the index now take the new tag
ConfirmEdit(b) ==
    /\ balDlg.kind = "edit" /\ CanSubmit(b)
    /\ LET i == balDlg.index
           old == IF i \in DOMAIN balancers THEN balancers[i].tag ELSE "none"
       IN /\ balancers' = [k \in 1 .. (IF i > Len(balancers) THEN i ELSE Len(balancers)) |->
                 IF k = i THEN b ELSE IF k \in DOMAIN balancers THEN balancers[k] ELSE BalHole]
          /\ balRules' = [k \in DOMAIN balRules |-> IF balRules[k] = old THEN b.tag ELSE balRules[k]]
    /\ probes' = syncObservatories(balancers')
    /\ balDlg' = NoBalDialog
    /\ UNCHANGED <<balWhy, balEdits>>

RunDelete ==
    /\ balDlg.kind = "delete"
    /\ balancers' = IF balDlg.index \in DOMAIN balancers THEN RemoveAt(balancers, balDlg.index) ELSE balancers
    /\ probes' = syncObservatories(balancers')
    /\ balWhy' = balWhy \cup {"deleted"}
    /\ balDlg' = NoBalDialog
    /\ UNCHANGED <<balRules, balEdits>>

\* onObsTextChange: the observatory shown, written as JSON
EditProbe(which, subjects) ==
    /\ balDlg.kind = "none" /\ BalEdit /\ probes[which].on
    /\ probes' = [probes EXCEPT ![which].subjects = subjects]
    /\ balWhy' = balWhy \cup {"handEdited"}
    /\ UNCHANGED <<balancers, balRules, balDlg>>

\* A rule of the routing tab that names a balancer
AddBalancerRule(i) ==
    /\ balDlg.kind = "none" /\ BalEdit /\ i \in DOMAIN balancers /\ Len(balRules) < 1
    /\ balRules' = Append(balRules, balancers[i].tag)
    /\ UNCHANGED <<balancers, probes, balDlg, balWhy>>

\* The draft is replaced by a template another session saved
ReseedBalancers(b) ==
    /\ BalEdit
    /\ balancers' = <<b>> /\ balRules' = <<>> /\ probes' = syncObservatories(<<b>>)
    /\ balWhy' = IF balDlg.kind # "none" THEN balWhy \cup {"shifted"} ELSE balWhy
    /\ UNCHANGED balDlg

Next ==
    \/ \E kind \in {"add", "edit", "delete"}, i \in 0 .. MaxBalancers : OpenBalancer(kind, i)
    \/ CloseBalancer \/ RunDelete
    \/ \E b \in Bal : ConfirmAdd(b) \/ ConfirmEdit(b) \/ ReseedBalancers(b)
    \/ \E which \in {"observatory", "burst"}, s \in SUBSET Selectors : EditProbe(which, s)
    \/ \E i \in 1 .. MaxBalancers : AddBalancerRule(i)

Spec == Init /\ [][Next]_balVars

-----------------------------------------------------------------------------
TypeOK ==
    /\ \A i \in DOMAIN balancers : balancers[i] \in Bal \cup {BalHole}
    /\ probes.observatory.subjects \subseteq Selectors /\ balEdits \in 0 .. MaxBalEdits

\* The observatories watch exactly what the balancers of their strategies
\* select, until their JSON is edited by hand (syncObservatories after every
\* change of the list).
ObservatoriesCover ==
    "handEdited" \notin balWhy =>
        probes = [observatory |-> Probe(balancers, {"leastPing"}), burst |-> Probe(balancers, {"random", "leastLoad"})]

\* A rule names an existing balancer unless a balancer was deleted, which the
\* page does not follow into the rules, or the list moved under a dialog.
BalancerRulesResolve ==
    (\E k \in DOMAIN balRules : \A i \in DOMAIN balancers : balancers[i].tag # balRules[k])
        => balWhy \cap {"deleted", "shifted"} # {}
=============================================================================
