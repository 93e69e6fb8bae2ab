---------------------------- MODULE ClientEditor ----------------------------
(***************************************************************************)
(* Editing one client (pages/clients/ClientsPage.tsx, ClientFormModal.tsx, *)
(* hooks/useClients.ts): the form for adding and editing, the switch that  *)
(* enables, and the log of addresses in the form.  The list holds rows     *)
(* without credentials, so the edit form and the switch first fetch the    *)
(* full record and go on when it comes; the page stays usable meanwhile.   *)
(* Saving an edit is three calls: the record, then the inbounds to attach, *)
(* then those to detach.                                                   *)
(*                                                                         *)
(* ann and bob are clients, cyd is a free name.  A client is its           *)
(* credentials, a comment as the example of what an edit changes, the      *)
(* switch and the inbounds it is on.                                       *)
(***************************************************************************)
EXTENDS Integers, FiniteSets

CONSTANTS MaxEditSteps,    \* bound: acts of the user and of the other administrator
          MaxHydrations    \* bound: hydrations under way at once

Emails == {"ann", "bob", "cyd"}
Inbounds == {"in1", "in2"}
NoRecord == [nothing |-> TRUE]
Unread == [unread |-> TRUE]

VARIABLES
    ledger,      \* the panel's clients: email -> credentials, comment, switch, inbounds
    fmode, fopen,
    fclient,     \* editingClient's email, or "nobody"
    fattached,   \* editingAttachedIds
    fields,      \* the form's own copy
    hydrations,  \* records asked for: for what, of whom, the row clicked, what the server read
    toggles,     \* updates posted by the switch
    saving,      \* onSave: the calls still to make and what they were given, or NoRecord
    saved,       \* what the last save that reported success was to store
    ips, ipLoads,\* whose addresses the form shows; loads under way
    overwritten, \* the other administrator's edits that were written over
    events, esteps

formVars == <<fmode, fopen, fclient, fattached, fields>>
editVars == <<ledger, formVars, hydrations, toggles, saving, saved, ips, ipLoads, overwritten, events, esteps>>

\* Some copy of a client has these credentials
held(k) ==
    \/ \E e \in DOMAIN ledger : ledger[e].cred = k
    \/ \E h \in hydrations : h.full \notin {Unread, NoRecord} /\ h.full.cred = k
    \/ \E p \in toggles : p.cred = k

\* the record a new form starts from: the credentials it draws are nobody's yet
emptyForm ==
    [email |-> "cyd", note |-> "old", enable |-> TRUE, on |-> {},
     cred |-> IF held("drawn") THEN "redrawn" ELSE "drawn"]

Init ==
    /\ ledger = [e \in {"ann", "bob"} |-> [cred |-> e, note |-> "old", enable |-> TRUE, on |-> {"in1"}]]
    /\ hydrations = {} /\ toggles = {}
    /\ fmode = "add" /\ fopen = FALSE /\ fclient = "nobody" /\ fattached = {} /\ fields = emptyForm
    /\ saving = NoRecord /\ saved = NoRecord
    /\ ips = "nobody" /\ ipLoads = {}
    /\ overwritten = {} /\ events = {} /\ esteps = 0

Acts == esteps < MaxEditSteps /\ esteps' = esteps + 1

-----------------------------------------------------------------------------
(* Opening the form *)

onAdd ==
    /\ Acts /\ ~fopen
    /\ fmode' = "add" /\ fopen' = TRUE /\ fclient' = "nobody" /\ fattached' = {} /\ fields' = emptyForm
    /\ events' = IF \E h \in hydrations : h.kind = "edit" THEN events \cup {"overtaken"} ELSE events
    /\ UNCHANGED <<ledger, hydrations, toggles, saving, saved, ips, ipLoads, overwritten>>

\* the columns the list has of a client: no credentials
toClientSlim(r) == [r EXCEPT !.cred = ""]

hydrate(kind, e, next) ==
    /\ Cardinality(hydrations) < MaxHydrations
    /\ hydrations' = hydrations \cup
         {[kind |-> kind, email |-> e, next |-> next, row |-> toClientSlim(ledger[e]), full |-> Unread]}

\* The mode changes at the click; the form opens when the record is there
onEdit(e) ==
    /\ Acts /\ ~fopen /\ e \in DOMAIN ledger
    /\ fmode' = "edit"
    /\ hydrate("edit", e, TRUE)
    /\ UNCHANGED <<ledger, fopen, fclient, fattached, fields, toggles, saving, saved, ips, ipLoads, overwritten, events>>

\* The switch of the row; nothing stops a second click while the first is under way
onToggleEnable(e) ==
    /\ Acts /\ ~fopen /\ e \in DOMAIN ledger
    /\ hydrate("toggle", e, ~ledger[e].enable)
    /\ UNCHANGED <<ledger, formVars, toggles, saving, saved, ips, ipLoads, overwritten, events>>

\* GET clients/get/:email reads the record now, or finds none
HydrateRead(h) ==
    /\ h.full = Unread
    /\ hydrations' = (hydrations \ {h}) \cup
         {[h EXCEPT !.full = IF h.email \in DOMAIN ledger THEN ledger[h.email] ELSE NoRecord]}
    /\ UNCHANGED <<ledger, formVars, toggles, saving, saved, ips, ipLoads, overwritten, events, esteps>>

HydrateLost(h) ==
    /\ h.full = Unread
    /\ hydrations' = (hydrations \ {h}) \cup {[h EXCEPT !.full = NoRecord]}
    /\ UNCHANGED <<ledger, formVars, toggles, saving, saved, ips, ipLoads, overwritten, events, esteps>>

\* the form's fields for a client opened for editing
fieldsOf(e, r) == [email |-> e, cred |-> r.cred, note |-> r.note, enable |-> r.enable, on |-> r.on]

loadIps(e) == ipLoads \cup {e}

\* The record of an edit arrives.  The form is filled when it opens or changes mode, not when
\* the client it is given changes: over an open form only the client and its inbounds change.
EditArrives(h) ==
    /\ h.kind = "edit" /\ h.full # Unread
    /\ hydrations' = hydrations \ {h}
    /\ LET r == IF h.full = NoRecord THEN h.row ELSE h.full
       IN /\ fclient' = h.email /\ fattached' = r.on /\ fopen' = TRUE
          /\ IF fopen THEN UNCHANGED <<fields, ipLoads>>
             ELSE IF fmode = "edit" THEN fields' = fieldsOf(h.email, r) /\ ipLoads' = loadIps(h.email)
             ELSE fields' = emptyForm /\ UNCHANGED ipLoads
    /\ events' = events \cup (IF fopen THEN {"crossed"} ELSE {})
                        \cup (IF h.full = NoRecord THEN {"unread"} ELSE {})
    /\ UNCHANGED <<ledger, fmode, toggles, saving, saved, ips, overwritten>>
    /\ UNCHANGED esteps

-----------------------------------------------------------------------------
(* The form *)

EditFields ==
    /\ Acts /\ fopen /\ saving = NoRecord
    /\ \/ fields.note = "old" /\ fields' = [fields EXCEPT !.note = "mine"]
       \/ fields.email # "cyd" /\ fields' = [fields EXCEPT !.email = "cyd"]
       \/ \E i \in Inbounds :
             fields' = [fields EXCEPT !.on = IF i \in @ THEN @ \ {i} ELSE @ \cup {i}]
    /\ UNCHANGED <<ledger, fmode, fopen, fclient, fattached, hydrations, toggles, saving, saved, ips, ipLoads,
                   overwritten, events>>

\* the dialog stays while it submits
closeForm ==
    /\ Acts /\ fopen /\ saving = NoRecord
    /\ fopen' = FALSE
    /\ UNCHANGED <<ledger, fmode, fclient, fattached, fields, hydrations, toggles, saving, saved, ips, ipLoads,
                   overwritten, events>>

isEdit == fmode = "edit" /\ fclient # "nobody"

onSubmit ==
    /\ Acts /\ fopen /\ saving = NoRecord
    /\ ~isEdit => fields.on # {}
    /\ saving' = IF isEdit
                 THEN [call |-> "update", email |-> fclient, payload |-> fields,
                       attach |-> fields.on \ fattached, detach |-> fattached \ fields.on]
                 ELSE [call |-> "create", email |-> "nobody", payload |-> fields, attach |-> {}, detach |-> {}]
    /\ events' = IF \E h \in hydrations : h.email = fclient THEN events \cup {"outrun"} ELSE events
    /\ UNCHANGED <<ledger, formVars, hydrations, toggles, saved, ips, ipLoads, overwritten>>

-----------------------------------------------------------------------------
(* The panel: clients/add, update/:email, :email/attach, :email/detach *)

\* an empty credential is replaced by a fresh one
stored(p) == [cred |-> IF p.cred = "" THEN "fresh" ELSE p.cred, note |-> p.note, enable |-> p.enable]

taken(name, e) == name \in DOMAIN ledger \ {e}
sameCred(p, e) == \E x \in DOMAIN ledger \ {e} : p.cred # "" /\ ledger[x].cred = p.cred

renamed(e, name) == [x \in (DOMAIN ledger \ {e}) \cup {name} |-> IF x = name THEN ledger[e] ELSE ledger[x]]
\* the record goes with the copy each inbound has of it: a client on none keeps the old one
withRecord(e, p) ==
    IF ledger[e].on = {} THEN renamed(e, p.email)
    ELSE [renamed(e, p.email) EXCEPT ![p.email] =
             [cred |-> stored(p).cred, note |-> stored(p).note, enable |-> stored(p).enable, on |-> @.on]]

UpdateRefused(e, p) == e \notin DOMAIN ledger \/ taken(p.email, e)
\* the name is stored before the credentials are compared
UpdateStores(e, p) == ~UpdateRefused(e, p) /\ ~sameCred(p, e)

written(e, p) ==
    IF e \in DOMAIN ledger /\ ledger[e].on # {} /\ ledger[e].note = "theirs" /\ p.note # "theirs"
    THEN overwritten \cup {e} ELSE overwritten

\* A taken name is refused unless its client has the same credentials: what an
\* earlier attempt of the same form stored
mayCreate(p) ==
    /\ p.email \in DOMAIN ledger => ledger[p.email].cred = p.cred
    /\ ~sameCred(p, p.email)
\* the new client on some of the inbounds, which are stored one after the other
created(p, some) ==
    [x \in DOMAIN ledger \cup {p.email} |->
        IF x = p.email
        THEN [cred |-> p.cred, note |-> p.note, enable |-> p.enable,
              on |-> some \cup (IF x \in DOMAIN ledger THEN ledger[x].on ELSE {})]
        ELSE ledger[x]]

\* the switch's update: the whole record, with its own value of the switch
setEnablePayload(h) == [email |-> h.email, cred |-> h.full.cred, note |-> h.full.note, enable |-> h.next]

\* setEnable: without a record nothing is posted
ToggleArrives(h) ==
    /\ h.kind = "toggle" /\ h.full # Unread
    /\ hydrations' = hydrations \ {h}
    /\ toggles' = IF h.full = NoRecord THEN toggles ELSE toggles \cup {setEnablePayload(h)}
    /\ UNCHANGED <<ledger, formVars, saving, saved, ips, ipLoads, overwritten, events, esteps>>

ToggleStored(p) ==
    /\ toggles' = toggles \ {p}
    /\ \/ /\ UpdateStores(p.email, p)
          /\ ledger' = withRecord(p.email, p) /\ overwritten' = written(p.email, p)
       \/ UNCHANGED <<ledger, overwritten>>
    /\ UNCHANGED <<formVars, hydrations, saving, saved, ips, ipLoads, events, esteps>>

\* The call after this one; the dialog closes when the last has succeeded
saveContinues(call) ==
    /\ saving' = [saving EXCEPT !.call = call]
    /\ UNCHANGED <<fopen, saved>>
saveSucceeds ==
    /\ saving' = NoRecord /\ fopen' = FALSE
    /\ saved' = [email |-> saving.payload.email, on |-> saving.payload.on]
afterUpdate ==
    IF saving.attach # {} THEN saveContinues("attach")
    ELSE IF saving.detach # {} THEN saveContinues("detach") ELSE saveSucceeds
afterAttach == IF saving.detach # {} THEN saveContinues("detach") ELSE saveSucceeds

restOfSave == <<fmode, fclient, fattached, fields, hydrations, toggles, ips, ipLoads, esteps>>

CreateStored ==
    /\ saving # NoRecord /\ saving.call = "create" /\ mayCreate(saving.payload)
    /\ ledger' = created(saving.payload, saving.payload.on)
    /\ overwritten' = written(saving.payload.email, saving.payload)
    /\ saveSucceeds
    /\ UNCHANGED <<events, restOfSave>>

UpdateStored ==
    /\ saving # NoRecord /\ saving.call = "update" /\ UpdateStores(saving.email, saving.payload)
    /\ ledger' = withRecord(saving.email, saving.payload)
    /\ overwritten' = written(saving.email, saving.payload)
    /\ afterUpdate
    /\ UNCHANGED <<events, restOfSave>>

AttachStored ==
    /\ saving # NoRecord /\ saving.call = "attach" /\ saving.email \in DOMAIN ledger
    /\ ledger' = [ledger EXCEPT ![saving.email].on = @ \cup saving.attach]
    /\ afterAttach
    /\ UNCHANGED <<overwritten, events, restOfSave>>

DetachStored ==
    /\ saving # NoRecord /\ saving.call = "detach" /\ saving.email \in DOMAIN ledger
    /\ ledger' = [ledger EXCEPT ![saving.email].on = @ \ saving.detach]
    /\ saveSucceeds
    /\ UNCHANGED <<overwritten, events, restOfSave>>

(* What a call leaves behind that is refused on its way or answered to nobody *)

CreatePartly ==
    /\ saving.call = "create" /\ mayCreate(saving.payload)
    /\ \E some \in SUBSET saving.payload.on \ {{}} : ledger' = created(saving.payload, some)
    /\ overwritten' = written(saving.payload.email, saving.payload)

UpdatePartly ==
    /\ saving.call = "update" /\ ~UpdateRefused(saving.email, saving.payload)
    /\ \/ ledger' = renamed(saving.email, saving.payload.email) /\ UNCHANGED overwritten
       \/ /\ UpdateStores(saving.email, saving.payload)
          /\ ledger' = withRecord(saving.email, saving.payload)
          /\ overwritten' = written(saving.email, saving.payload)

AttachPartly ==
    /\ saving.call = "attach" /\ saving.email \in DOMAIN ledger
    /\ \E some \in SUBSET saving.attach : ledger' = [ledger EXCEPT ![saving.email].on = @ \cup some]
    /\ UNCHANGED overwritten

DetachPartly ==
    /\ saving.call = "detach" /\ saving.email \in DOMAIN ledger
    /\ \E some \in SUBSET saving.detach : ledger' = [ledger EXCEPT ![saving.email].on = @ \ some]
    /\ UNCHANGED overwritten

Partly == UNCHANGED <<ledger, overwritten>> \/ CreatePartly \/ UpdatePartly \/ AttachPartly \/ DetachPartly

\* A call of the save is refused or gets no answer: the form stays, with what it was opened with
SaveRefused ==
    /\ saving # NoRecord /\ Partly
    /\ saving' = NoRecord
    /\ events' = events \cup
         (IF \/ saving.call = "detach" /\ saving.attach # {}
             \/ saving.call # "update" /\ ledger' # ledger
          THEN {"partly"} ELSE {})
    /\ UNCHANGED <<fopen, saved, restOfSave>>

\* Some copy of the record of e has been read and may still be written back
Read(e) ==
    \/ \E h \in hydrations : h.email = e /\ h.full # Unread
    \/ \E p \in toggles : p.email = e
    \/ fopen /\ fclient = e
    \/ saving # NoRecord /\ e \in {saving.email, saving.payload.email}

OtherAdminEdits(e) ==
    /\ Acts /\ e \in DOMAIN ledger /\ ledger[e].note # "theirs"
    /\ ledger' = [ledger EXCEPT ![e].note = "theirs"]
    /\ events' = IF Read(e) THEN events \cup {"raced"} ELSE events
    /\ UNCHANGED <<formVars, hydrations, toggles, saving, saved, ips, ipLoads, overwritten>>

-----------------------------------------------------------------------------
(* The addresses *)

ipsArrive(e) ==
    /\ e \in ipLoads /\ ipLoads' = ipLoads \ {e}
    /\ \/ ips' = e
       \/ ips' = "nobody"
    /\ events' = IF e # fclient THEN events \cup {"lateIps"} ELSE events
    /\ UNCHANGED <<ledger, formVars, hydrations, toggles, saving, saved, overwritten, esteps>>

\* "Clear all" empties the log of the client the form has now
clearIps ==
    /\ Acts /\ fopen /\ isEdit /\ ips # "nobody"
    /\ ips' = "nobody"
    /\ UNCHANGED <<ledger, formVars, hydrations, toggles, saving, saved, ipLoads, overwritten, events>>

-----------------------------------------------------------------------------
Next ==
    \/ onAdd \/ EditFields \/ closeForm \/ onSubmit
    \/ \E e \in Emails : onEdit(e) \/ onToggleEnable(e) \/ OtherAdminEdits(e) \/ ipsArrive(e)
    \/ \E h \in hydrations : HydrateRead(h) \/ HydrateLost(h) \/ EditArrives(h) \/ ToggleArrives(h)
    \/ \E p \in toggles : ToggleStored(p)
    \/ CreateStored \/ UpdateStored \/ AttachStored \/ DetachStored \/ SaveRefused
    \/ clearIps

Spec == Init /\ [][Next]_editVars

-----------------------------------------------------------------------------
Creds == {"", "ann", "bob", "drawn", "redrawn", "fresh"}
Records == [cred : Creds \ {""}, note : {"old", "mine", "theirs"}, enable : BOOLEAN, on : SUBSET Inbounds]
Causes == {"overtaken", "crossed", "unread", "raced", "lateIps", "outrun", "partly"}

\* Every variable has its type.
TypeOK ==
    /\ DOMAIN ledger \subseteq Emails /\ \A e \in DOMAIN ledger : ledger[e] \in Records
    /\ fmode \in {"add", "edit"} /\ fopen \in BOOLEAN /\ fclient \in Emails \cup {"nobody"}
    /\ fattached \subseteq Inbounds /\ fields.cred \in Creds /\ fields.on \subseteq Inbounds
    /\ \A h \in hydrations : h.kind \in {"edit", "toggle"} /\ h.email \in Emails
    /\ \A p \in toggles : p.email \in Emails
    /\ ips \in Emails \cup {"nobody"} /\ ipLoads \subseteq Emails
    /\ events \subseteq Causes /\ esteps \in 0 .. MaxEditSteps

\* No edit and no switch takes a client's credentials away or gives them to another client, save
\* a form filled for one client and then handed another, or opened without the full record.
CredentialsKept ==
    events \cap {"crossed", "unread"} = {} =>
        \A k \in {"ann", "bob"} : Cardinality({e \in DOMAIN ledger : ledger[e].cred = k}) = 1

\* Another administrator's edit is written over only when it was made after the record that is
\* written back had been read: neither the form nor the switch starts from an older copy.  A form
\* for adding has read nothing, and sends a client it half stored once more.
OverwrittenHasCause == overwritten # {} => events \cap {"raced", "crossed", "unread", "partly"} # {}

\* A save that closed the form has stored all three parts: the client is on the inbounds the
\* form showed.  A second click on edit, answered with what was there before the save, opens a
\* form that compares its choice with inbounds long changed, and so does a form left open by a
\* save of which a part was stored before it failed.
SavedMeansAttached ==
    saved # NoRecord /\ events \cap {"crossed", "outrun", "partly"} = {} /\ saved.email \in DOMAIN ledger
        /\ saving = NoRecord /\ ~fopen
        => ledger[saved.email].on = saved.on

\* An edit form has the addresses of its own client, and a form for adding has no client behind
\* it; only a late answer mixes two.
FormOfOneClient ==
    /\ fopen /\ fmode = "add" /\ fclient # "nobody" => "overtaken" \in events
    /\ fopen /\ isEdit /\ events \cap {"crossed", "overtaken", "lateIps"} = {} =>
            ips = "nobody" \/ ips = fclient \/ fclient \in ipLoads

=============================================================================
