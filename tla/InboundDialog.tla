---------------------------- MODULE InboundDialog ----------------------------
(***************************************************************************)
(* The inbound dialog over time (pages/inbounds/form/InboundFormModal.tsx  *)
(* with useInboundFallbacks.ts and useSecurityActions.ts).  One mounted    *)
(* dialog serves every inbound: its form, its fallback rows, its saving    *)
(* flag and the refs of the automatic tag outlive a closing, and answers   *)
(* to requests write into whatever they find.  A ghost set names what has  *)
(* happened that makes an answer land beside its question.                 *)
(***************************************************************************)
EXTENDS Integers, Sequences, FiniteSets

CONSTANTS
    MaxOpens,         \* bound on the openings of the dialog
    MaxDialogSteps    \* bound on the openings and the user's changes

VARIABLES
    stored,      \* the server's inbounds
    dlg,         \* [open, id (0 to add), n, tag (as opened), typed, seeded]
    dform,       \* [tag, port, sec, key]: key is the opening its key pair was asked in
    certs,       \* the certificate rows, [c, by]: by is the row its paths were asked for, or -1
    fallbacks,   \* the fallback rows, [k, own, child, vals]
    rowKey,      \* fallbackKeyRef
    dsaving,     \* saving
    dcalls,      \* requests in flight
    autoTag,     \* autoTagRef
    lastTag,     \* lastWrittenTagRef
    excuses,     \* history: what has happened that can misplace an answer
    dsteps

formVars == <<dform, certs, autoTag, lastTag>>
fallbackVars == <<fallbacks, rowKey>>
dialogVars == <<stored, dlg, formVars, fallbackVars, dsaving, dcalls, excuses, dsteps>>

Ids == 1..3     \* 3 is not yet there
Children == {"c1", "c2"}
Absent == [tag |-> <<"none", 0>>, port |-> 0, sec |-> "none", key |-> 0, fb |-> <<>>]

-----------------------------------------------------------------------------
(* Tags: <<"auto", p>> is what composeInboundTag makes of port p, <<"dedup", *)
(* p>> the same with the number the server appends to a taken tag.           *)

composeInboundTag(port) == <<"auto", port>>
isAutoInboundTag(tag, port) == tag \in {<<"none", 0>>, <<"auto", port>>, <<"dedup", port>>}

\* The effect on the inputs of the tag
Recompose(tag, last, auto, port) ==
    IF auto /\ tag # composeInboundTag(port)
    THEN [tag |-> composeInboundTag(port), last |-> composeInboundTag(port)]
    ELSE [tag |-> tag, last |-> last]

\* The three effects of an opening run in one commit: the first resets the form
\* and the refs for the new form f, the other two still see the old form's tag
\* and port.  The next render composes again if the port is another.
OpenEffects(old, f) ==
    LET auto == IF old.tag = f.tag THEN isAutoInboundTag(f.tag, f.port) ELSE isAutoInboundTag(old.tag, old.port)
        seen == Recompose(old.tag, f.tag, auto, old.port)
        first == [tag |-> IF seen.tag = old.tag THEN f.tag ELSE seen.tag, last |-> seen.last]
        then == IF old.port = f.port THEN first ELSE Recompose(first.tag, first.last, auto, f.port)
    IN  /\ dform' = [f EXCEPT !.tag = then.tag]
        /\ lastTag' = then.last /\ autoTag' = auto

-----------------------------------------------------------------------------
(* Fallback rows: own is the inbound a row was loaded from, 0 for one made   *)
(* here; vals is "", "typed" or the child its SNI, ALPN and path come from   *)

deriveFallbackDefaults(child) == IF child = "c1" THEN "c1" ELSE ""
NewRow(k, child, vals) == [k |-> k, own |-> 0, child |-> child, vals |-> vals]
isPristine(r) == r.vals = ""

\* Two operators of SequencesExt: PagesProofs, which proves about this module, is
\* faster without the rest of it
ToSet(s) == {s[i] : i \in DOMAIN s}
RemoveAt(s, i) == SubSeq(s, 1, i - 1) \o SubSeq(s, i + 1, Len(s))

\* filter: the elements of s that are in T, in their order
Only(s, T) ==
    LET kept[n \in 0..Len(s)] ==
            IF n = 0 THEN <<>> ELSE IF s[n] \in T THEN Append(kept[n - 1], s[n]) ELSE kept[n - 1]
    IN  kept[Len(s)]

Own(i) == <<[k |-> 0, own |-> i, child |-> "c2", vals |-> "typed"]>>
Init ==
    /\ stored = <<[tag |-> <<"auto", 1>>, port |-> 1, sec |-> "tls", key |-> 0, fb |-> Own(1)],
                  [tag |-> <<"custom", 0>>, port |-> 2, sec |-> "reality", key |-> 99, fb |-> Own(2)], Absent>>
    /\ dlg = [open |-> FALSE, id |-> 0, n |-> 0, tag |-> <<"none", 0>>, typed |-> FALSE, seeded |-> FALSE]
    /\ dform = [tag |-> <<"none", 0>>, port |-> 3, sec |-> "none", key |-> 0] /\ certs = <<>>
    /\ fallbacks = <<>> /\ rowKey = 0 /\ dsaving = FALSE /\ dcalls = {}
    /\ autoTag = TRUE /\ lastTag = <<"none", 0>> /\ excuses = {} /\ dsteps = 0

\* A save carries the form and the rows of the click, a certificate request its row.
Call(kind, i) ==
    [kind |-> kind, n |-> dlg.n, id |-> dlg.id, i |-> i, row |-> IF i = 0 THEN -1 ELSE certs[i].c,
     form |-> IF kind = "save" THEN dform ELSE Absent, fb |-> IF kind = "save" THEN fallbacks ELSE <<>>]
Kinds == {"keys", "cert", "save", "saveFb"}     \* the calls that hold the saving flag
Ask(c) == dcalls' = dcalls \cup {c}
Asking(kind) == \E c \in dcalls : c.kind = kind

Step == dlg.open /\ dsteps < MaxDialogSteps /\ dsteps' = dsteps + 1
Excuse(S) == excuses' = excuses \cup S

-----------------------------------------------------------------------------
(* Opening and closing *)

FormOf(id) ==
    IF id = 0 THEN [tag |-> <<"none", 0>>, port |-> 3, sec |-> "none", key |-> 0]
    ELSE [tag |-> stored[id].tag, port |-> stored[id].port, sec |-> stored[id].sec, key |-> stored[id].key]

\* Mutant: an added inbound starts with the rows on screen.
loadFallbacksKeeps(id) ==
    /\ dcalls' = IF id = 0 THEN dcalls
                 ELSE dcalls \cup {[kind |-> "load", n |-> dlg.n + 1, id |-> id, i |-> 0, form |-> Absent, fb |-> <<>>, row |-> -1]}
    /\ UNCHANGED fallbackVars

\* loadFallbacks: the rows on screen stay until the answer, unless an inbound is added
loadFallbacks(id) ==
    /\ dcalls' = IF id = 0 THEN dcalls
                 ELSE dcalls \cup {[kind |-> "load", n |-> dlg.n + 1, id |-> id, i |-> 0, form |-> Absent, fb |-> <<>>, row |-> -1]}
    /\ fallbacks' = IF id = 0 THEN <<>> ELSE fallbacks
    /\ UNCHANGED rowKey

Open(id) ==
    /\ ~dlg.open /\ dlg.n < MaxOpens /\ dsteps < MaxDialogSteps /\ dsteps' = dsteps + 1
    /\ id # 0 => stored[id] # Absent
    /\ LET f == FormOf(id)
       IN /\ OpenEffects(dform, f)
          /\ dlg' = [open |-> TRUE, id |-> id, n |-> dlg.n + 1, tag |-> f.tag, typed |-> FALSE,
                     seeded |-> isAutoInboundTag(dform.tag, dform.port) # isAutoInboundTag(f.tag, f.port)]
    /\ certs' = IF FormOf(id).sec = "tls" THEN <<[c |-> 0, by |-> -1]>> ELSE <<>>
    /\ loadFallbacks(id)
    /\ Excuse(IF dcalls = {} THEN {} ELSE {"crossed"})
    /\ UNCHANGED <<stored, dsaving>>

\* The dialog closes while a call is in flight as well.
Close ==
    /\ dlg.open /\ dlg' = [dlg EXCEPT !.open = FALSE]
    /\ UNCHANGED <<stored, formVars, fallbackVars, dsaving, dcalls, excuses, dsteps>>

-----------------------------------------------------------------------------
(* The form *)

TypeTag(tag) ==
    /\ Step /\ tag # dform.tag
    /\ dform' = [dform EXCEPT !.tag = tag] /\ dlg' = [dlg EXCEPT !.typed = TRUE]
    /\ autoTag' = IF tag = lastTag THEN autoTag ELSE isAutoInboundTag(tag, dform.port)
    /\ UNCHANGED <<stored, certs, lastTag, fallbackVars, dsaving, dcalls, excuses>>
SetPort(p) ==
    /\ Step /\ p # dform.port
    /\ LET r == Recompose(dform.tag, lastTag, autoTag, p)
       IN dform' = [dform EXCEPT !.port = p, !.tag = r.tag] /\ lastTag' = r.last
    /\ UNCHANGED <<stored, dlg, certs, autoTag, fallbackVars, dsaving, dcalls, excuses>>

\* Choosing Reality asks for a key pair and does not take the saving flag.
onSecurityChange(s) ==
    /\ Step /\ s # dform.sec
    /\ dform' = [dform EXCEPT !.sec = s, !.key = 0]
    /\ certs' = IF s = "tls" THEN <<[c |-> dsteps', by |-> -1]>> ELSE <<>>
    /\ dcalls' = dcalls \cup (IF s = "reality" THEN {Call("security", 0)} ELSE {})
    /\ Excuse(IF Asking("cert") \/ Asking("keys") \/ Asking("security") THEN {"moved"} ELSE {})
    /\ UNCHANGED <<stored, dlg, autoTag, lastTag, fallbackVars, dsaving>>

Flagged(kind, i) == ~dsaving /\ dsaving' = TRUE /\ Ask(Call(kind, i))
\* genRealityKeypair, genMldsa65, getNewEchCert and getNewVlessEnc alike
genRealityKeypair ==
    /\ Step /\ dform.sec = "reality" /\ Flagged("keys", 0)
    /\ UNCHANGED <<stored, dlg, formVars, fallbackVars, excuses>>
clearRealityKeypair ==
    /\ Step /\ dform.sec = "reality" /\ dform.key # 0
    /\ dform' = [dform EXCEPT !.key = 0] /\ Excuse({"cleared"})
    /\ UNCHANGED <<stored, dlg, certs, autoTag, lastTag, fallbackVars, dsaving, dcalls>>
setCertFromPanel(i) ==
    /\ Step /\ i \in DOMAIN certs /\ Flagged("cert", i)
    /\ UNCHANGED <<stored, dlg, formVars, fallbackVars, excuses>>
EditCerts(new) ==
    /\ Step /\ dform.sec = "tls" /\ certs' = new
    /\ UNCHANGED <<stored, dlg, dform, autoTag, lastTag, fallbackVars, dsaving, dcalls>>
AddCert == EditCerts(Append(certs, [c |-> dsteps', by |-> -1])) /\ Len(certs) < 2 /\ UNCHANGED excuses
RemoveCert(i) == i \in DOMAIN certs /\ EditCerts(RemoveAt(certs, i)) /\ Excuse(IF Asking("cert") THEN {"moved"} ELSE {})

-----------------------------------------------------------------------------
(* The fallback card *)

EditFallbacks(rows, keys) ==
    /\ Step /\ rows # fallbacks /\ Len(rows) <= 3
    /\ fallbacks' = rows /\ rowKey' = rowKey + keys
    /\ UNCHANGED <<stored, dlg, formVars, dsaving, dcalls>>
addFallback == EditFallbacks(Append(fallbacks, NewRow(rowKey + 1, "none", "")), 1) /\ UNCHANGED excuses
\* Picking a child fills the SNI, ALPN and path of a row that has none.
updateFallback(k, child) ==
    LET Patch(r) ==
          IF r.k # k THEN r
          ELSE [r EXCEPT !.child = child,
                         !.vals = IF child \in Children \ {r.child} /\ isPristine(r) THEN deriveFallbackDefaults(child) ELSE @]
        rows == [i \in DOMAIN fallbacks |-> Patch(fallbacks[i])]
    IN  /\ EditFallbacks(rows, 0)
        /\ Excuse(IF \E r \in ToSet(fallbacks) : r.k = k /\ r.vals \in Children \ {child} THEN {"repicked"} ELSE {})
typeFallback(k) ==
    EditFallbacks([i \in DOMAIN fallbacks |-> IF fallbacks[i].k = k THEN [fallbacks[i] EXCEPT !.vals = "typed"] ELSE fallbacks[i]], 0)
    /\ UNCHANGED excuses
removeFallback(i) == EditFallbacks(RemoveAt(fallbacks, i), 0) /\ Excuse({"removed"})
moveFallback(i, d) ==
    /\ i + d \in DOMAIN fallbacks
    /\ EditFallbacks([fallbacks EXCEPT ![i] = fallbacks[i + d], ![i + d] = fallbacks[i]], 0) /\ UNCHANGED excuses
\* A row for every inbound that has none
addAllFallbacks ==
    LET missing == Only(<<"c1", "c2">>, Children \ {r.child : r \in ToSet(fallbacks)})
    IN  /\ EditFallbacks(fallbacks \o [j \in DOMAIN missing |-> NewRow(rowKey + j, missing[j], deriveFallbackDefaults(missing[j]))], Len(missing))
        /\ UNCHANGED excuses

-----------------------------------------------------------------------------
(* Saving: the closure of the click posts the form and the rows of that      *)
(* render.                                                                   *)

isFallbackHost(f) == f.sec # "none"

submit ==
    /\ dlg.open /\ Flagged("save", 0)
    /\ Excuse((IF Asking("load") THEN {"early"} ELSE {}) \cup (IF Asking("security") THEN {"bare"} ELSE {}))
    /\ UNCHANGED <<stored, dlg, formVars, fallbackVars, dsteps>>

Done(c) == dcalls' = dcalls \ {c}
\* onSaved and onClose: whatever is open now is closed.
Finish(c) == Done(c) /\ dsaving' = FALSE /\ dlg' = [dlg EXCEPT !.open = FALSE]

\* The server names an inbound that has no tag, whose tag is taken, or that is
\* saved with the automatic tag of before (AddInbound, UpdateInbound)
resolveInboundTag(id, f) ==
    LET Taken(tag) == \E i \in Ids \ {id} : stored[i].tag = tag
        stale == isAutoInboundTag(stored[id].tag, stored[id].port) /\ f.tag = stored[id].tag
    IN IF f.tag # <<"none", 0>> /\ ~stale /\ ~Taken(f.tag) THEN f.tag
       ELSE IF ~Taken(composeInboundTag(f.port)) THEN composeInboundTag(f.port) ELSE <<"dedup", f.port>>

saveInbound(c) ==
    LET master == IF c.id = 0 THEN 3 ELSE c.id
    IN  /\ c.kind = "save"
        /\ c.id = 0 => stored[3] = Absent    \* bound: one inbound is added
        /\ stored' = [stored EXCEPT ![master] = [tag |-> resolveInboundTag(master, c.form), port |-> c.form.port, sec |-> c.form.sec,
                                                  key |-> c.form.key, fb |-> @.fb]]
        /\ IF isFallbackHost(c.form)
           THEN dcalls' = (dcalls \ {c}) \cup {[c EXCEPT !.kind = "saveFb", !.id = master]} /\ UNCHANGED <<dlg, dsaving>>
           ELSE Finish(c)
        /\ UNCHANGED <<formVars, fallbackVars, excuses, dsteps>>
saveFails(c) ==
    /\ c.kind = "save" /\ Done(c) /\ dsaving' = FALSE
    /\ UNCHANGED <<stored, dlg, formVars, fallbackVars, excuses, dsteps>>
\* The result of this call is not looked at.  Rows with no child are not posted.
saveFallbacks(c, ok) ==
    /\ c.kind = "saveFb" /\ Finish(c)
    /\ stored' = IF ok THEN [stored EXCEPT ![c.id].fb = Only(c.fb, {r \in ToSet(c.fb) : r.child # "none"})] ELSE stored
    /\ UNCHANGED <<formVars, fallbackVars, excuses, dsteps>>

-----------------------------------------------------------------------------
(* Answers *)

KeysArrive(c, ok) ==
    /\ c.kind \in {"keys", "security"} /\ Done(c)
    /\ dform' = IF ok THEN [dform EXCEPT !.key = c.n] ELSE dform
    /\ dsaving' = (c.kind = "security" /\ dsaving)
    /\ Excuse(IF ok THEN {} ELSE {"bare"})
    /\ UNCHANGED <<stored, dlg, certs, autoTag, lastTag, fallbackVars, dsteps>>
\* ctl.set by index: a row that is gone comes back
CertArrives(c, ok) ==
    /\ c.kind = "cert" /\ Done(c) /\ dsaving' = FALSE
    /\ certs' = IF ~ok THEN certs
                ELSE IF c.i \in DOMAIN certs THEN [certs EXCEPT ![c.i].by = c.row]
                ELSE Append(certs, [c |-> -2, by |-> c.row])
    /\ UNCHANGED <<stored, dlg, dform, autoTag, lastTag, fallbackVars, excuses, dsteps>>
LoadArrives(c, ok) ==
    /\ c.kind = "load" /\ Done(c)
    /\ LET rows == stored[c.id].fb
       IN IF ok THEN fallbacks' = [i \in DOMAIN rows |-> [rows[i] EXCEPT !.k = rowKey + i, !.own = c.id]] /\ rowKey' = rowKey + Len(rows)
          ELSE fallbacks' = <<>> /\ UNCHANGED rowKey
    /\ Excuse(IF ok THEN {} ELSE {"failed"})
    /\ UNCHANGED <<stored, dlg, formVars, dsaving, dsteps>>

Next ==
    \/ \E id \in 0..3 : Open(id)
    \/ Close
    \/ TypeTag(<<"custom", 0>>) \/ \E p \in 1..3 : SetPort(p)
    \/ \E s \in {"none", "tls", "reality"} : onSecurityChange(s)
    \/ genRealityKeypair \/ clearRealityKeypair
    \/ \E i \in 1..2 : setCertFromPanel(i) \/ RemoveCert(i)
    \/ AddCert
    \/ addFallback \/ addAllFallbacks
    \/ \E k \in {fallbacks[i].k : i \in DOMAIN fallbacks} : typeFallback(k) \/ \E child \in Children : updateFallback(k, child)
    \/ \E i \in DOMAIN fallbacks : removeFallback(i) \/ \E d \in {-1, 1} : moveFallback(i, d)
    \/ submit
    \/ \E c \in dcalls, ok \in BOOLEAN : KeysArrive(c, ok) \/ CertArrives(c, ok) \/ LoadArrives(c, ok) \/ saveFallbacks(c, ok)
    \/ \E c \in dcalls : saveInbound(c) \/ saveFails(c)

Spec == Init /\ [][Next]_dialogVars

-----------------------------------------------------------------------------
(* Properties *)

TypeOK ==
    /\ dlg.open \in BOOLEAN /\ dlg.id \in 0..3 /\ dlg.n \in 0..MaxOpens
    /\ dsaving \in BOOLEAN /\ autoTag \in BOOLEAN /\ dsteps \in 0..MaxDialogSteps
    /\ excuses \subseteq {"crossed", "moved", "early", "failed", "bare", "cleared", "removed", "repicked"}

\* A tag nobody typed names the port on screen when it is automatic, with or
\* without the server's number, and is kept when it is custom, unless the form
\* the dialog held before was of the other kind.  It may be empty, for the server
\* to fill, while an inbound is added.
TagFollows ==
    dlg.open /\ ~dlg.typed /\ ~dlg.seeded =>
        IF dlg.tag = <<"custom", 0>> THEN dform.tag = dlg.tag
        ELSE isAutoInboundTag(dform.tag, dform.port) /\ (dform.tag = <<"none", 0>> => dlg.id = 0)

\* The saving flag is up exactly while one key, certificate or save call is in
\* flight: no two of them overlap.
OneCallAtATime ==
    /\ Cardinality({c \in dcalls : c.kind \in Kinds}) = IF dsaving THEN 1 ELSE 0

\* Key pairs and fallback rows belong to the inbound on screen, and the paths of
\* a certificate to the row they were asked for, unless the dialog was opened
\* while an earlier opening's call was in flight, or the rows were changed while
\* the request was.
AnswersLand ==
    dlg.open /\ "crossed" \notin excuses =>
        /\ dform.key \in {0, dlg.n} \/ (dlg.id # 0 /\ dform.key = stored[dlg.id].key)
        /\ "moved" \notin excuses => \A r \in ToSet(certs) : r.by \in {-1, r.c}
        /\ Asking("load") \/ \A r \in ToSet(fallbacks) : r.own \in {0, dlg.id}

\* An inbound's stored fallbacks are its own: none comes from another inbound,
\* and its own row is gone only if it was removed, if loading the rows failed,
\* or if the form was saved before they arrived.
FallbacksStay ==
    {"crossed", "early"} \cap excuses = {} =>
        \A i \in Ids : /\ \A r \in ToSet(stored[i].fb) : r.own \in {0, i}
                       /\ i \in 1..2 /\ {"removed", "failed"} \cap excuses = {} => \E r \in ToSet(stored[i].fb) : r.own = i

\* A Reality inbound is stored without a key pair only if it was cleared, if the
\* request for it failed, or if the form was saved before it arrived.
NoBareReality ==
    {"crossed", "moved", "bare", "cleared"} \cap excuses = {} => \A i \in Ids : stored[i].sec = "reality" => stored[i].key # 0

\* Fallback rows are told apart by their keys, and the values a row took from a
\* child are those of its child unless another one was picked afterwards.
RowsAreDistinct ==
    /\ \A i, j \in DOMAIN fallbacks : i # j => fallbacks[i].k # fallbacks[j].k
    /\ "repicked" \notin excuses => \A r \in ToSet(fallbacks) : r.vals \in {"", "typed", r.child}
=============================================================================
