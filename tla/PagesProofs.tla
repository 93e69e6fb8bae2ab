---------------------------- MODULE PagesProofs -----------------------------
(***************************************************************************)
(* The forms and pages of PagesAndDialogs for every value of its           *)
(* constants: the client's form, the inbound dialog and the pages of the   *)
(* inbounds, the nodes and the groups, and what ties each call under way   *)
(* to the form, the dialog or the selection that it was made from.         *)
(***************************************************************************)
EXTENDS PagesAndDialogs, FiniteSetTheorems, WellFoundedInduction, TLAPS

-----------------------------------------------------------------------------
(* Filtered sequences *)

LEMMA LeastNumber ==
    ASSUME NEW T, T \subseteq Nat, T # {}
    PROVE  \E n \in T : \A m \in T : n <= m
<1>1. PICK n \in T : \A m \in T : ~(<<m, n>> \in OpToRel(<, Nat))
    BY NatLessThanWellFounded, WFMin
<1>2. \A m \in T : ~(m < n)
    BY <1>1 DEF OpToRel
<1> QED
    BY <1>2

\* k[m] is what a filter keeps of the first m elements of s, for m up to n.
Filters(k, s, T, n) ==
    k = [m \in 0..n |-> IF m = 0 THEN <<>> ELSE IF s[m] \in T THEN Append(k[m - 1], s[m]) ELSE k[m - 1]]

LEMMA FilterExists ==
    ASSUME NEW s, NEW T, NEW n \in Nat
    PROVE  \E k : Filters(k, s, T, n)
<1> DEFINE Bad == {m \in Nat : ~\E k : Filters(k, s, T, m)}
<1>1. Bad = {}
    <2> SUFFICES ASSUME Bad # {} PROVE FALSE
        OBVIOUS
    <2>1. PICK m \in Bad : \A x \in Bad : m <= x
        <3> HIDE DEF Bad
        <3>1. Bad \subseteq Nat
            BY DEF Bad
        <3> QED BY <3>1, LeastNumber
    <2>2. m # 0
        <3>1. Filters([x \in 0..0 |-> <<>>], s, T, 0)
            BY DEF Filters
        <3> QED BY <3>1
    <2>3. m \in Nat /\ m - 1 \in Nat /\ m - 1 \notin Bad
        BY <2>1, <2>2
    <2>4. PICK k : Filters(k, s, T, m - 1)
        BY <2>3
    <2> DEFINE New(x) == IF s[x] \in T THEN Append(k[x - 1], s[x]) ELSE k[x - 1]
               g == [x \in 0..m |-> IF x = m THEN New(m) ELSE k[x]]
    <2>5. \A x \in 0..m : x # m => x \in 0..(m - 1)
        BY <2>3
    <2>6. \A x \in 0..m : x # 0 => x - 1 \in 0..m /\ x - 1 # m /\ g[x - 1] = k[x - 1]
        BY <2>3
    <2>7. \A x \in 0..(m - 1) : k[x] = IF x = 0 THEN <<>> ELSE New(x)
        BY <2>4 DEF Filters
    <2>8. \A x \in 0..m : g[x] = IF x = 0 THEN <<>> ELSE New(x)
        BY <2>2, <2>5, <2>7
    <2>9. \A x \in 0..m : g[x] = IF x = 0 THEN <<>>
                                 ELSE IF s[x] \in T THEN Append(g[x - 1], s[x]) ELSE g[x - 1]
        BY <2>6, <2>8
    <2>10. Filters(g, s, T, m)
        <3> DEFINE h == [x \in 0..m |-> IF x = 0 THEN <<>>
                            ELSE IF s[x] \in T THEN Append(g[x - 1], s[x]) ELSE g[x - 1]]
        <3>1. DOMAIN g = 0..m /\ g = [x \in 0..m |-> g[x]]
            OBVIOUS
        <3>2. \A x \in 0..m : g[x] = h[x]
            BY <2>9
        <3> HIDE DEF g
        <3>3. g = h
            BY <3>1, <3>2
        <3> QED BY <3>3 DEF Filters
    <2> QED BY <2>3, <2>10
<1> QED
    BY <1>1

Distinct(s, n) == \A i, j \in 1..n : s[i] = s[j] => i = j

\* q holds the elements of T among the first n of s, each as often.
Keeps(q, s, S, T, n) ==
    /\ q \in Seq(S) /\ Len(q) <= n
    /\ \A j \in 1..Len(q) : q[j] \in T /\ \E i \in 1..n : s[i] = q[j]
    /\ \A i \in 1..n : s[i] \in T => \E j \in 1..Len(q) : q[j] = s[i]
    /\ Distinct(s, n) => Distinct(q, Len(q))

LEMMA KeepsNext ==
    ASSUME NEW S, NEW s \in Seq(S), NEW T, NEW n \in 1..Len(s), NEW p, Keeps(p, s, S, T, n - 1)
    PROVE  Keeps(IF s[n] \in T THEN Append(p, s[n]) ELSE p, s, S, T, n)
<1>1. n \in Nat /\ n - 1 \in Nat /\ s[n] \in S /\ p \in Seq(S) /\ Len(p) \in Nat
    BY DEF Keeps
<1>2. \A i \in 1..n : i # n => i \in 1..(n - 1)
    BY <1>1
<1>3. \A i \in 1..(n - 1) : i \in 1..n /\ i # n
    BY <1>1
<1>4. Distinct(s, n) => Distinct(s, n - 1)
    BY <1>3 DEF Distinct
<1>5. CASE s[n] \notin T
    BY <1>1, <1>2, <1>3, <1>4, <1>5 DEF Keeps
<1>6. CASE s[n] \in T
    <2> DEFINE q == Append(p, s[n])
    <2>1. q \in Seq(S) /\ Len(q) = Len(p) + 1 /\ q[Len(p) + 1] = s[n] /\ \A j \in 1..Len(p) : q[j] = p[j]
        BY <1>1
    <2> HIDE DEF q
    <2>2. \A j \in 1..Len(q) : j = Len(p) + 1 \/ j \in 1..Len(p)
        BY <1>1, <2>1
    <2>3. Len(p) + 1 \in 1..Len(q) /\ \A j \in 1..Len(p) : j \in 1..Len(q)
        BY <1>1, <2>1
    <2>4. Len(q) <= n
        BY <1>1, <2>1 DEF Keeps
    <2>5. \A j \in 1..Len(q) : q[j] \in T /\ \E i \in 1..n : s[i] = q[j]
        <3>1. \A j \in 1..Len(p) : q[j] \in T /\ \E i \in 1..n : s[i] = q[j]
            <4>1. \A j \in 1..Len(p) : p[j] \in T /\ \E i \in 1..(n - 1) : s[i] = p[j]
                BY DEF Keeps
            <4> QED BY <1>3, <2>1, <4>1
        <3>2. n \in 1..n /\ q[Len(p) + 1] \in T /\ s[n] = q[Len(p) + 1]
            BY <1>1, <1>6, <2>1
        <3> QED BY <2>2, <3>1, <3>2
    <2>6. \A i \in 1..n : s[i] \in T => \E j \in 1..Len(q) : q[j] = s[i]
        BY <1>2, <2>1, <2>3 DEF Keeps
    <2>7. ASSUME Distinct(s, n) PROVE Distinct(q, Len(q))
        <3>1. Distinct(p, Len(p))
            BY <1>4, <2>7 DEF Keeps
        <3>2. \A j \in 1..Len(p) : p[j] # s[n]
            BY <1>1, <1>3, <2>7 DEF Keeps, Distinct
        <3>3. \A i, j \in 1..Len(p) : q[i] = q[j] => i = j
            BY <2>1, <3>1 DEF Distinct
        <3>4. \A i \in 1..Len(p) : q[i] # q[Len(p) + 1]
            BY <2>1, <3>2
        <3> QED BY <2>2, <3>3, <3>4 DEF Distinct
    <2>8. Keeps(q, s, S, T, n)
        BY <2>1, <2>4, <2>5, <2>6, <2>7 DEF Keeps
    <2> QED BY <1>6, <2>8 DEF q
<1> QED
    BY <1>5, <1>6

\* What a filter of a sequence keeps.
LEMMA FilteredSays ==
    ASSUME NEW S, NEW s \in Seq(S), NEW T, NEW k, Filters(k, s, T, Len(s))
    PROVE  Keeps(k[Len(s)], s, S, T, Len(s))
<1>1. Len(s) \in Nat
    OBVIOUS
<1>2. \A m \in 0..Len(s) : k[m] = IF m = 0 THEN <<>>
                                  ELSE IF s[m] \in T THEN Append(k[m - 1], s[m]) ELSE k[m - 1]
    BY DEF Filters
<1> DEFINE Bad == {m \in 0..Len(s) : ~Keeps(k[m], s, S, T, m)}
<1>3. Bad = {}
    <2> SUFFICES ASSUME Bad # {} PROVE FALSE
        OBVIOUS
    <2>1. PICK m \in Bad : \A x \in Bad : m <= x
        <3> HIDE DEF Bad
        <3>1. Bad \subseteq Nat
            BY <1>1 DEF Bad
        <3> QED BY <3>1, LeastNumber
    <2>2. CASE m = 0
        <3>1. k[0] = <<>>
            BY <1>1, <1>2
        <3>2. Keeps(<<>>, s, S, T, 0)
            BY DEF Keeps, Distinct
        <3> QED BY <2>1, <2>2, <3>1, <3>2
    <2>3. CASE m # 0
        <3>1. m \in 1..Len(s) /\ m - 1 \in 0..Len(s) /\ m - 1 \notin Bad
            BY <1>1, <2>1, <2>3
        <3>2. Keeps(k[m - 1], s, S, T, m - 1)
            BY <3>1
        <3>3. k[m] = IF s[m] \in T THEN Append(k[m - 1], s[m]) ELSE k[m - 1]
            BY <1>2, <2>3
        <3>4. Keeps(k[m], s, S, T, m)
            BY <3>1, <3>2, <3>3, KeepsNext
        <3> QED BY <3>4
    <2> QED BY <2>2, <2>3
<1> QED
    BY <1>1, <1>3

\* The elements of two sequences put together.
LEMMA JoinSays ==
    ASSUME NEW S, NEW p \in Seq(S), NEW q \in Seq(S)
    PROVE  /\ p \o q \in Seq(S) /\ Len(p \o q) = Len(p) + Len(q)
           /\ \A i \in 1..Len(p) : (p \o q)[i] = p[i]
           /\ \A i \in 1..Len(p \o q) : i \notin 1..Len(p) =>
                i - Len(p) \in 1..Len(q) /\ (p \o q)[i] = q[i - Len(p)]
    OBVIOUS

-----------------------------------------------------------------------------
(* The client's form *)

\* The records of the editor have their fields, the dialog stays open while it saves, and what it
\* saves is what it shows.
IsRec(r) == r = [cred |-> r.cred, note |-> r.note, enable |-> r.enable, on |-> r.on]
IsHydration(h) == h = [kind |-> h.kind, email |-> h.email, next |-> h.next, row |-> h.row, full |-> h.full]
IsSave(s) == s = [call |-> s.call, email |-> s.email, payload |-> s.payload, attach |-> s.attach, detach |-> s.detach]
LedgerTyped == ledger = [x \in DOMAIN ledger |-> ledger[x]] /\ \A e \in DOMAIN ledger : IsRec(ledger[e])
FormTyped ==
    /\ \A h \in hydrations : IsHydration(h)
    /\ fields = [email |-> fields.email, cred |-> fields.cred, note |-> fields.note, enable |-> fields.enable, on |-> fields.on]
SaveTyped ==
    saving # ClEdit!NoRecord =>
        /\ IsSave(saving) /\ saving.call \in {"create", "update", "attach", "detach"}
        /\ fopen
        /\ saving.payload = fields

\* None of the three causes that SavedMeansAttached excuses has happened.
Unexcused == events \cap {"crossed", "outrun", "partly"} = {}

\* A record asked for, an open form and a save agree with the ledger on the inbounds of their client,
\* as far as the save has come; and a client that took the free name keeps it.
Named(e) == e = "cyd" => "cyd" \in DOMAIN ledger
OnNow(e, on) == e \in DOMAIN ledger => on = ledger[e].on
HalfSaved == saving # ClEdit!NoRecord /\ ClEdit!isEdit /\ saving.call = "detach" /\ saving.attach # {}
HydrationsFresh ==
    /\ "nobody" \notin DOMAIN ledger
    /\ \A h \in hydrations :
        /\ h.email # "nobody" /\ Named(h.email) /\ OnNow(h.email, h.row.on)
        /\ h.full \in {ClEdit!Unread, ClEdit!NoRecord} \/ OnNow(h.email, h.full.on)
        /\ saving # ClEdit!NoRecord => h.email # saving.email
FormFresh ==
    /\ fopen /\ ~ClEdit!isEdit => fields.email = "cyd"
    /\ fopen /\ ClEdit!isEdit =>
        /\ Named(fclient) /\ fields.email \in {fclient, "cyd"}
        /\ ~HalfSaved => OnNow(fclient, fattached)
SaveFresh ==
    /\ saving # ClEdit!NoRecord => (ClEdit!isEdit <=> saving.call # "create")
    /\ saving # ClEdit!NoRecord /\ ClEdit!isEdit =>
        /\ saving.email = fclient
        /\ saving.attach = fields.on \ fattached /\ saving.detach = fattached \ fields.on
        /\ saving.call \in {"attach", "detach"} =>
               Named(fields.email) /\ (fclient \in DOMAIN ledger => fields.email = fclient)
        /\ saving.call = "detach" => OnNow(fclient, fattached \cup saving.attach)
SavedFresh ==
    cleditSaved # ClEdit!NoRecord =>
        /\ Named(cleditSaved.email)
        /\ OnNow(cleditSaved.email, cleditSaved.on) \/ (HalfSaved /\ saving.email = cleditSaved.email)

\* What a form for adding draws is nobody's: no copy has it, and a second draw finds the free name
\* taken for good.  This does not survive a form filled for one client and handed another, nor a
\* form left open by a save of which a part was stored.
Undisturbed == events \cap {"crossed", "partly"} = {}
DrawnTrue ==
    /\ \A h \in hydrations : h.email # "nobody" /\ h.row.cred = ""
    /\ ~ClEdit!held("redrawn") /\ (ClEdit!held("drawn") => "cyd" \in DOMAIN ledger)
    /\ fopen /\ ~ClEdit!isEdit =>
        /\ fields.email = "cyd" /\ fields.cred \in {"drawn", "redrawn"} /\ ~ClEdit!held(fields.cred)
        /\ fields.cred = "redrawn" => "cyd" \in DOMAIN ledger
    /\ fopen /\ ClEdit!isEdit =>
        /\ fields.email \in {fclient, "cyd"} /\ fields.cred # "redrawn"
        /\ fields.cred = "drawn" => "cyd" \in DOMAIN ledger
    /\ saving # ClEdit!NoRecord =>
        /\ ClEdit!isEdit <=> saving.call # "create"
        /\ ClEdit!isEdit => saving.email = fclient
DrawnKnown == Undisturbed => DrawnTrue

ClientTyped == LedgerTyped /\ FormTyped /\ SaveTyped
ClientFresh == HydrationsFresh /\ FormFresh /\ SaveFresh /\ SavedFresh
ClientInv == ClientTyped /\ (Unexcused => ClientFresh)

LEMMA ClientInvSays == ASSUME ClientInv PROVE ClEdit!SavedMeansAttached
<1> SUFFICES ASSUME cleditSaved # ClEdit!NoRecord, Unexcused, cleditSaved.email \in DOMAIN ledger, saving = ClEdit!NoRecord
             PROVE  ledger[cleditSaved.email].on = cleditSaved.on
    BY DEF ClEdit!SavedMeansAttached, Unexcused
<1> QED
    BY DEF ClientInv, ClientFresh, SavedFresh, HalfSaved, OnNow

\* The record a form for adding starts from.
LEMMA EmptySays ==
    /\ \E k \in {"drawn", "redrawn"} :
          ClEdit!emptyForm = [email |-> "cyd", cred |-> k, note |-> "old", enable |-> TRUE, on |-> {}]
    /\ ClEdit!emptyForm.email = "cyd"
    /\ ClEdit!emptyForm.cred = (IF ClEdit!held("drawn") THEN "redrawn" ELSE "drawn")
    BY DEF ClEdit!emptyForm

LEMMA InitClient == ASSUME ClEdit!Init PROVE ClientInv
<1>1. /\ ledger = [e \in {"ann", "bob"} |-> [cred |-> e, note |-> "old", enable |-> TRUE, on |-> {"in1"}]]
      /\ fopen = FALSE /\ hydrations = {} /\ saving = ClEdit!NoRecord /\ cleditSaved = ClEdit!NoRecord
      /\ \E k \in {"drawn", "redrawn"} :
            fields = [email |-> "cyd", cred |-> k, note |-> "old", enable |-> TRUE, on |-> {}]
    BY EmptySays DEF ClEdit!Init
<1>2. LedgerTyped
    BY <1>1 DEF LedgerTyped, IsRec
<1>3. FormTyped /\ SaveTyped
    BY <1>1 DEF FormTyped, SaveTyped
<1>4. HydrationsFresh /\ FormFresh /\ SaveFresh /\ SavedFresh
    BY <1>1 DEF HydrationsFresh, FormFresh, SaveFresh, SavedFresh
<1> QED
    BY <1>2, <1>3, <1>4 DEF ClientInv, ClientTyped, ClientFresh

\* A step that moves no inbound of any client, and neither form nor save.
SameOn == DOMAIN ledger' = DOMAIN ledger /\ \A e \in DOMAIN ledger : ledger'[e].on = ledger[e].on

LEMMA SameOnKeeps ==
    ASSUME ClientInv, LedgerTyped', SameOn, events \subseteq events',
           UNCHANGED <<fmode, fopen, fclient, fattached, fields, hydrations, saving, cleditSaved>>
    PROVE  ClientInv'
<1>1. FormTyped' /\ SaveTyped'
    BY DEF ClientInv, ClientTyped, FormTyped, SaveTyped, ClEdit!isEdit
<1>2. Unexcused' => ClientFresh
    BY DEF ClientInv, Unexcused
<1>3. \A e, on : (Named(e) => Named(e)') /\ (OnNow(e, on) => (e \in DOMAIN ledger' => on = ledger'[e].on))
    BY DEF SameOn, Named, OnNow
<1>4. HydrationsFresh => HydrationsFresh'
    BY <1>3 DEF HydrationsFresh, Named, OnNow
<1>5. HalfSaved' <=> HalfSaved
    BY DEF HalfSaved, ClEdit!isEdit
<1>6. FormFresh => FormFresh'
    BY <1>3, <1>5 DEF FormFresh, Named, OnNow, ClEdit!isEdit
<1>7. SaveFresh => SaveFresh'
    BY <1>3 DEF SaveFresh, Named, OnNow, SameOn, ClEdit!isEdit
<1>8. SavedFresh => SavedFresh'
    BY <1>3, <1>5 DEF SavedFresh, Named, OnNow
<1> QED
    BY <1>1, <1>2, <1>4, <1>6, <1>7, <1>8 DEF ClientInv, ClientTyped, ClientFresh

\* What the panel's updates do to the ledger.
LEMMA RenamedSays ==
    ASSUME LedgerTyped, NEW e \in DOMAIN ledger, NEW name, name \notin DOMAIN ledger \ {e}
    PROVE  LET led == ClEdit!renamed(e, name) IN
           /\ DOMAIN led = (DOMAIN ledger \ {e}) \cup {name}
           /\ led = [x \in DOMAIN led |-> led[x]]
           /\ led[name] = ledger[e] /\ \A x \in DOMAIN ledger \ {e, name} : led[x] = ledger[x]
           /\ \A x \in DOMAIN led : IsRec(led[x])
<1> DEFINE D == (DOMAIN ledger \ {e}) \cup {name}
           led == [x \in D |-> IF x = name THEN ledger[e] ELSE ledger[x]]
<1>1. ClEdit!renamed(e, name) = led
    BY DEF ClEdit!renamed
<1>2. /\ DOMAIN led = D /\ led = [x \in DOMAIN led |-> led[x]]
      /\ led[name] = ledger[e] /\ \A x \in DOMAIN ledger \ {e, name} : led[x] = ledger[x]
    OBVIOUS
<1>3. ASSUME NEW x \in D PROVE IsRec(led[x])
    <2>1. IsRec(ledger[e]) /\ (x # name => x \in DOMAIN ledger)
        BY DEF LedgerTyped
    <2>2. CASE x = name
        BY <2>1, <2>2
    <2>3. CASE x # name
        BY <2>1, <2>3 DEF LedgerTyped
    <2> QED BY <2>2, <2>3
<1> QED
    <2> HIDE DEF led
    <2> QED BY <1>1, <1>2, <1>3

LEMMA RecordSays ==
    ASSUME LedgerTyped, NEW e \in DOMAIN ledger, NEW p, p.email \notin DOMAIN ledger \ {e}
    PROVE  LET led == ClEdit!withRecord(e, p) IN
           /\ DOMAIN led = (DOMAIN ledger \ {e}) \cup {p.email}
           /\ led = [x \in DOMAIN led |-> led[x]]
           /\ led[p.email].on = ledger[e].on /\ \A x \in DOMAIN ledger \ {e, p.email} : led[x] = ledger[x]
           /\ \/ led[p.email].cred = ledger[e].cred /\ led[p.email].note = ledger[e].note
              \/ led[p.email].cred = ClEdit!stored(p).cred /\ led[p.email].note = ClEdit!stored(p).note
           /\ \A x \in DOMAIN led : IsRec(led[x])
<1> DEFINE was == ClEdit!renamed(e, p.email)
           c == ClEdit!stored(p).cred
           n == ClEdit!stored(p).note
           b == ClEdit!stored(p).enable
           rec == [cred |-> c, note |-> n, enable |-> b, on |-> was[p.email].on]
           led == [was EXCEPT ![p.email] = rec]
<1>1. /\ DOMAIN was = (DOMAIN ledger \ {e}) \cup {p.email}
      /\ was = [x \in DOMAIN was |-> was[x]]
      /\ was[p.email] = ledger[e] /\ \A x \in DOMAIN ledger \ {e, p.email} : was[x] = ledger[x]
      /\ \A x \in DOMAIN was : IsRec(was[x])
    BY RenamedSays
<1>2. ClEdit!withRecord(e, p) = (IF ledger[e].on = {} THEN was ELSE led)
    BY DEF ClEdit!withRecord
<1> HIDE DEF was, c, n, b
<1>3. IsRec(rec) /\ rec.on = ledger[e].on /\ rec.cred = c /\ rec.note = n
    BY <1>1 DEF IsRec
<1> HIDE DEF rec
<1>4. /\ DOMAIN led = DOMAIN was /\ led = [x \in DOMAIN led |-> led[x]]
      /\ led[p.email] = rec /\ \A x \in DOMAIN was : x # p.email => led[x] = was[x]
    BY <1>1
<1> HIDE DEF led
<1>5. \A x \in DOMAIN led : IsRec(led[x])
    BY <1>1, <1>3, <1>4
<1>6. CASE ledger[e].on = {}
    <2>1. ClEdit!withRecord(e, p) = was
        BY <1>2, <1>6
    <2> QED BY <1>1, <2>1
<1>7. CASE ledger[e].on # {}
    <2>1. ClEdit!withRecord(e, p) = led
        BY <1>2, <1>7
    <2> QED BY <1>1, <1>3, <1>4, <1>5, <2>1 DEF c, n
<1> QED
    BY <1>6, <1>7

\* A client is added, or sent once more after it was half stored.
LEMMA CreatedSays ==
    ASSUME LedgerTyped, NEW p, NEW some, ledger' = ClEdit!created(p, some)
    PROVE  /\ LedgerTyped' /\ DOMAIN ledger' = DOMAIN ledger \cup {p.email}
           /\ ledger'[p.email].cred = p.cred /\ ledger'[p.email].note = p.note
           /\ p.email \notin DOMAIN ledger => ledger'[p.email].on = some
           /\ \A x \in DOMAIN ledger : x # p.email => ledger'[x] = ledger[x]
<1> DEFINE on == some \cup (IF p.email \in DOMAIN ledger THEN ledger[p.email].on ELSE {})
           new == [cred |-> p.cred, note |-> p.note, enable |-> p.enable, on |-> on]
<1>1. ledger' = [x \in DOMAIN ledger \cup {p.email} |-> IF x = p.email THEN new ELSE ledger[x]]
    BY DEF ClEdit!created
<1>2. p.email \notin DOMAIN ledger => on = some
    OBVIOUS
<1> HIDE DEF on
<1>3. IsRec(new) /\ new.cred = p.cred /\ new.note = p.note /\ new.on = on
    BY DEF IsRec
<1> HIDE DEF new
<1>4. /\ DOMAIN ledger' = DOMAIN ledger \cup {p.email} /\ ledger' = [x \in DOMAIN ledger' |-> ledger'[x]]
      /\ ledger'[p.email] = new /\ \A x \in DOMAIN ledger : x # p.email => ledger'[x] = ledger[x]
    BY <1>1
<1>5. \A x \in DOMAIN ledger' : IsRec(ledger'[x])
    BY <1>3, <1>4 DEF LedgerTyped
<1>6. LedgerTyped'
    BY <1>4, <1>5 DEF LedgerTyped, IsRec
<1> QED
    BY <1>2, <1>3, <1>4, <1>6

LEMMA OnSetSays ==
    ASSUME LedgerTyped, NEW e \in DOMAIN ledger, NEW S, ledger' = [ledger EXCEPT ![e].on = S]
    PROVE  /\ LedgerTyped' /\ DOMAIN ledger' = DOMAIN ledger
           /\ ledger'[e].on = S /\ \A x \in DOMAIN ledger : x # e => ledger'[x] = ledger[x]
<1> DEFINE r == ledger[e]
           rec == [r EXCEPT !.on = S]
<1>1. r = [cred |-> r.cred, note |-> r.note, enable |-> r.enable, on |-> r.on]
    BY DEF LedgerTyped, IsRec
<1>2. IsRec(rec) /\ rec.on = S
    BY <1>1 DEF IsRec
<1>3. ledger' = [ledger EXCEPT ![e] = rec]
    OBVIOUS
<1> HIDE DEF rec
<1>4. DOMAIN ledger' = DOMAIN ledger /\ ledger'[e] = rec /\ \A x \in DOMAIN ledger : x # e => ledger'[x] = ledger[x]
    BY <1>3
<1>5. ledger' = [x \in DOMAIN ledger' |-> ledger'[x]]
    BY <1>3, <1>4
<1>6. \A x \in DOMAIN ledger' : IsRec(ledger'[x])
    BY <1>2, <1>4 DEF LedgerTyped
<1>7. LedgerTyped'
    BY <1>5, <1>6 DEF LedgerTyped, IsRec
<1> QED BY <1>2, <1>4, <1>7

LEMMA OtherAdminClient == ASSUME ClientInv, NEW e, ClEdit!OtherAdminEdits(e) PROVE ClientInv'
<1>1. e \in DOMAIN ledger /\ ledger' = [ledger EXCEPT ![e].note = "theirs"] /\ events \subseteq events'
      /\ UNCHANGED <<fmode, fopen, fclient, fattached, fields, hydrations, saving, cleditSaved>>
    BY DEF ClEdit!OtherAdminEdits, ClEdit!formVars
<1> DEFINE r == ledger[e]
           rec == [r EXCEPT !.note = "theirs"]
<1>0. LedgerTyped
    BY DEF ClientInv, ClientTyped
<1>2. r = [cred |-> r.cred, note |-> r.note, enable |-> r.enable, on |-> r.on]
    BY <1>0, <1>1 DEF LedgerTyped, IsRec
<1>3. IsRec(rec) /\ rec.on = ledger[e].on
    BY <1>2 DEF IsRec
<1>4. ledger' = [ledger EXCEPT ![e] = rec]
    BY <1>1
<1> HIDE DEF rec
<1>5. DOMAIN ledger' = DOMAIN ledger /\ ledger'[e] = rec /\ \A x \in DOMAIN ledger : x # e => ledger'[x] = ledger[x]
    BY <1>1, <1>4
<1>6. ledger' = [x \in DOMAIN ledger' |-> ledger'[x]]
    BY <1>4, <1>5
<1>7. \A x \in DOMAIN ledger' : IsRec(ledger'[x])
    BY <1>0, <1>3, <1>5 DEF LedgerTyped
<1>8. LedgerTyped'
    BY <1>6, <1>7 DEF LedgerTyped, IsRec
<1>9. SameOn
    BY <1>3, <1>5 DEF SameOn
<1> QED BY <1>1, <1>8, <1>9, SameOnKeeps

LEMMA ToggleClient == ASSUME ClientInv, NEW p, ClEdit!ToggleStored(p) PROVE ClientInv'
<1>0. LedgerTyped
    BY DEF ClientInv, ClientTyped
<1>1. events' = events /\ UNCHANGED <<fmode, fopen, fclient, fattached, fields, hydrations, saving, cleditSaved>>
    BY DEF ClEdit!ToggleStored, ClEdit!formVars
<1>2. CASE UNCHANGED ledger
    BY <1>0, <1>1, <1>2, SameOnKeeps DEF SameOn, LedgerTyped
<1>3. CASE ClEdit!UpdateStores(p.email, p) /\ ledger' = ClEdit!withRecord(p.email, p)
    <2>1. p.email \in DOMAIN ledger
        BY <1>3 DEF ClEdit!UpdateStores, ClEdit!UpdateRefused
    <2>2. /\ DOMAIN ledger' = (DOMAIN ledger \ {p.email}) \cup {p.email}
          /\ ledger' = [x \in DOMAIN ledger' |-> ledger'[x]]
          /\ ledger'[p.email].on = ledger[p.email].on
          /\ \A x \in DOMAIN ledger \ {p.email} : ledger'[x] = ledger[x]
          /\ \A x \in DOMAIN ledger' : IsRec(ledger'[x])
        BY <1>0, <1>3, <2>1, RecordSays
    <2>3. LedgerTyped'
        BY <2>2 DEF LedgerTyped, IsRec
    <2>4. SameOn
        BY <2>1, <2>2 DEF SameOn
    <2> QED BY <1>1, <2>3, <2>4, SameOnKeeps
<1> QED
    BY <1>2, <1>3 DEF ClEdit!ToggleStored

LEMMA StillClient ==
    ASSUME ClientInv, events \subseteq events',
           UNCHANGED <<ledger, fmode, fopen, fclient, fattached, fields, hydrations, saving, cleditSaved>>
    PROVE  ClientInv'
<1>1. LedgerTyped' /\ SameOn
    BY DEF ClientInv, ClientTyped, LedgerTyped, SameOn
<1> QED BY <1>1, SameOnKeeps

\* The acts that leave the ledger alone; the same facts of each conjunct follow from the ones before.
LEMMA LedgerStill == ASSUME LedgerTyped, UNCHANGED ledger PROVE LedgerTyped'
    BY DEF LedgerTyped

\* What is asked for: the record of a client, not read yet.
LEMMA HydrateAdds ==
    ASSUME NEW kind, NEW e, NEW next, ClEdit!hydrate(kind, e, next)
    PROVE  \E r : /\ hydrations' = hydrations \cup {r} /\ r.kind = kind /\ r.email = e /\ r.full = ClEdit!Unread
                  /\ r.row = ClEdit!toClientSlim(ledger[e])
<1> DEFINE r == [kind |-> kind, email |-> e, next |-> next, row |-> ClEdit!toClientSlim(ledger[e]), full |-> ClEdit!Unread]
<1>1. hydrations' = hydrations \cup {r}
    BY DEF ClEdit!hydrate
<1>2. r.kind = kind /\ r.email = e /\ r.full = ClEdit!Unread /\ r.row = ClEdit!toClientSlim(ledger[e])
    OBVIOUS
<1> HIDE DEF r
<1> QED BY <1>1, <1>2

\* The record that was read is the hydration with its answer.
LEMMA ReadIs ==
    ASSUME FormTyped, NEW h \in hydrations, NEW full, NEW r, r = [h EXCEPT !.full = full]
    PROVE  r.kind = h.kind /\ r.email = h.email /\ r.full = full
<1>1. h = [kind |-> h.kind, email |-> h.email, next |-> h.next, row |-> h.row, full |-> h.full]
    BY DEF FormTyped, IsHydration
<1> QED BY <1>1

LEMMA AddClient == ASSUME ClientInv, ClEdit!onAdd PROVE ClientInv'
<1>1. /\ ~fopen /\ fmode' = "add" /\ fopen' = TRUE /\ fclient' = "nobody"
      /\ \E k \in {"drawn", "redrawn"} :
            fields' = [email |-> "cyd", cred |-> k, note |-> "old", enable |-> TRUE, on |-> {}]
      /\ events \subseteq events' /\ UNCHANGED <<ledger, hydrations, saving, cleditSaved>>
    BY EmptySays DEF ClEdit!onAdd
<1>2. saving = ClEdit!NoRecord
    BY <1>1 DEF ClientInv, ClientTyped, SaveTyped
<1>3. ClientTyped'
    BY <1>1, <1>2, LedgerStill DEF ClientInv, ClientTyped, FormTyped, SaveTyped
<1>4. ASSUME Unexcused' PROVE ClientFresh'
    <2>1. ClientFresh
        BY <1>1, <1>4 DEF ClientInv, Unexcused
    <2>2. HydrationsFresh'
        BY <1>1, <2>1 DEF ClientFresh, HydrationsFresh, Named, OnNow
    <2>3. FormFresh' /\ SaveFresh'
        BY <1>1, <1>2 DEF FormFresh, SaveFresh, ClEdit!isEdit
    <2>4. SavedFresh'
        BY <1>1, <1>2, <2>1 DEF ClientFresh, SavedFresh, HalfSaved, Named, OnNow
    <2> QED BY <2>2, <2>3, <2>4 DEF ClientFresh
<1> QED BY <1>3, <1>4 DEF ClientInv

LEMMA FieldsClient == ASSUME ClientInv, ClEdit!EditFields PROVE ClientInv'
<1>1. /\ fopen /\ saving = ClEdit!NoRecord
      /\ UNCHANGED <<ledger, fmode, fopen, fclient, fattached, hydrations, saving, cleditSaved, events>>
      /\ \/ fields' = [fields EXCEPT !.note = "mine"]
         \/ fields' = [fields EXCEPT !.email = "cyd"]
         \/ \E on : fields' = [fields EXCEPT !.on = on]
    BY DEF ClEdit!EditFields
<1>2. fields = [email |-> fields.email, cred |-> fields.cred, note |-> fields.note, enable |-> fields.enable, on |-> fields.on]
    BY DEF ClientInv, ClientTyped, FormTyped
<1>3. /\ fields' = [email |-> fields'.email, cred |-> fields'.cred, note |-> fields'.note, enable |-> fields'.enable, on |-> fields'.on]
      /\ fields'.email \in {fields.email, "cyd"}
    BY <1>1, <1>2
<1>4. ClientTyped'
    BY <1>1, <1>3, LedgerStill DEF ClientInv, ClientTyped, FormTyped, SaveTyped
<1>5. ASSUME Unexcused' PROVE ClientFresh'
    <2>1. ClientFresh
        BY <1>1, <1>5 DEF ClientInv, Unexcused
    <2>2. HydrationsFresh'
        BY <1>1, <2>1 DEF ClientFresh, HydrationsFresh, Named, OnNow
    <2>3. FormFresh'
        BY <1>1, <1>3, <2>1 DEF ClientFresh, FormFresh, HalfSaved, Named, OnNow, ClEdit!isEdit
    <2>4. SaveFresh'
        BY <1>1 DEF SaveFresh
    <2>5. SavedFresh'
        BY <1>1, <2>1 DEF ClientFresh, SavedFresh, HalfSaved, Named, OnNow
    <2> QED BY <2>2, <2>3, <2>4, <2>5 DEF ClientFresh
<1> QED BY <1>4, <1>5 DEF ClientInv

LEMMA CloseClient == ASSUME ClientInv, ClEdit!closeForm PROVE ClientInv'
<1>1. /\ fopen' = FALSE /\ saving = ClEdit!NoRecord
      /\ UNCHANGED <<ledger, fmode, fclient, fattached, fields, hydrations, saving, cleditSaved, events>>
    BY DEF ClEdit!closeForm
<1>2. ClientTyped'
    BY <1>1, LedgerStill DEF ClientInv, ClientTyped, FormTyped, SaveTyped
<1>3. ASSUME Unexcused' PROVE ClientFresh'
    <2>1. ClientFresh
        BY <1>1, <1>3 DEF ClientInv, Unexcused
    <2>2. HydrationsFresh'
        BY <1>1, <2>1 DEF ClientFresh, HydrationsFresh, Named, OnNow
    <2>3. FormFresh' /\ SaveFresh'
        BY <1>1 DEF FormFresh, SaveFresh
    <2>4. SavedFresh'
        BY <1>1, <2>1 DEF ClientFresh, SavedFresh, HalfSaved, Named, OnNow
    <2> QED BY <2>2, <2>3, <2>4 DEF ClientFresh
<1> QED BY <1>2, <1>3 DEF ClientInv

LEMMA SubmitClient == ASSUME ClientInv, ClEdit!onSubmit PROVE ClientInv'
<1> DEFINE edit == [call |-> "update", email |-> fclient, payload |-> fields,
                    attach |-> fields.on \ fattached, detach |-> fattached \ fields.on]
           new == [call |-> "create", email |-> "nobody", payload |-> fields, attach |-> {}, detach |-> {}]
<1>1. /\ fopen /\ saving = ClEdit!NoRecord /\ saving' = (IF ClEdit!isEdit THEN edit ELSE new)
      /\ events' = (IF \E h \in hydrations : h.email = fclient THEN events \cup {"outrun"} ELSE events)
      /\ UNCHANGED <<ledger, fmode, fopen, fclient, fattached, fields, hydrations, cleditSaved>>
    BY DEF ClEdit!onSubmit, ClEdit!formVars
<1>2. ClEdit!isEdit' <=> ClEdit!isEdit
    BY <1>1 DEF ClEdit!isEdit
<1>3. IsSave(saving') /\ saving'.call \in {"create", "update"} /\ saving'.payload = fields
      /\ (ClEdit!isEdit <=> saving'.call # "create")
    BY <1>1 DEF IsSave
<1>4. ClientTyped'
    BY <1>1, <1>2, <1>3, LedgerStill DEF ClientInv, ClientTyped, FormTyped, SaveTyped, IsSave
<1>5. ASSUME Unexcused' PROVE ClientFresh'
    <2>1. ClientFresh /\ ~(\E h \in hydrations : h.email = fclient)
        BY <1>1, <1>5 DEF ClientInv, Unexcused
    <2>2. HydrationsFresh'
        <3> SUFFICES ASSUME NEW h \in hydrations PROVE h.email # saving'.email
            BY <1>1, <2>1 DEF ClientFresh, HydrationsFresh, Named, OnNow
        <3>1. CASE ClEdit!isEdit
            BY <1>1, <2>1, <3>1
        <3>2. CASE ~ClEdit!isEdit
            <4>1. saving'.email = "nobody"
                BY <1>1, <3>2
            <4> QED BY <2>1, <4>1 DEF ClientFresh, HydrationsFresh
        <3> QED BY <3>1, <3>2
    <2>3. FormFresh'
        BY <1>1, <1>2, <1>3, <2>1 DEF ClientFresh, FormFresh, HalfSaved, Named, OnNow
    <2>4. SaveFresh'
        BY <1>1, <1>2, <1>3 DEF SaveFresh
    <2>5. SavedFresh'
        BY <1>1, <2>1 DEF ClientFresh, SavedFresh, HalfSaved, Named, OnNow
    <2> QED BY <2>2, <2>3, <2>4, <2>5 DEF ClientFresh
<1> QED BY <1>4, <1>5 DEF ClientInv

\* A record is asked for, read, and arrives.
LEMMA AskClient ==
    ASSUME ClientInv, NEW kind, NEW e \in DOMAIN ledger, NEW next, ClEdit!hydrate(kind, e, next), ~fopen,
           UNCHANGED <<ledger, fopen, fclient, fattached, fields, saving, cleditSaved, events>>
    PROVE  ClientInv'
<1> DEFINE g == [kind |-> kind, email |-> e, next |-> next, row |-> ClEdit!toClientSlim(ledger[e]), full |-> ClEdit!Unread]
<1>1. hydrations' = hydrations \cup {g}
    BY DEF ClEdit!hydrate
<1>2. saving = ClEdit!NoRecord
    BY DEF ClientInv, ClientTyped, SaveTyped
<1>3. ClEdit!toClientSlim(ledger[e]).on = ledger[e].on
    BY DEF ClientInv, ClientTyped, LedgerTyped, IsRec, ClEdit!toClientSlim
<1>4. IsHydration(g) /\ g.email = e /\ g.row.on = ledger[e].on /\ g.full = ClEdit!Unread
    BY <1>3 DEF IsHydration
<1> HIDE DEF g
<1>5. ClientTyped'
    BY <1>1, <1>2, <1>4, LedgerStill DEF ClientInv, ClientTyped, FormTyped, SaveTyped
<1>6. ASSUME Unexcused' PROVE ClientFresh'
    <2>1. ClientFresh
        BY <1>6 DEF ClientInv, Unexcused
    <2>2. HydrationsFresh'
        BY <1>1, <1>2, <1>4, <2>1 DEF ClientFresh, HydrationsFresh, Named, OnNow
    <2>3. FormFresh' /\ SaveFresh'
        BY <1>2 DEF FormFresh, SaveFresh
    <2>4. SavedFresh'
        BY <1>2, <2>1 DEF ClientFresh, SavedFresh, HalfSaved, Named, OnNow
    <2> QED BY <2>2, <2>3, <2>4 DEF ClientFresh
<1> QED BY <1>5, <1>6 DEF ClientInv

LEMMA ReadClient ==
    ASSUME ClientInv, NEW h \in hydrations, NEW full, hydrations' = (hydrations \ {h}) \cup {[h EXCEPT !.full = full]},
           full = ClEdit!NoRecord \/ OnNow(h.email, full.on),
           UNCHANGED <<ledger, fmode, fopen, fclient, fattached, fields, saving, cleditSaved, events>>
    PROVE  ClientInv'
<1> DEFINE g == [h EXCEPT !.full = full]
<1>1. h = [kind |-> h.kind, email |-> h.email, next |-> h.next, row |-> h.row, full |-> h.full]
    BY DEF ClientInv, ClientTyped, FormTyped, IsHydration
<1>2. IsHydration(g) /\ g.email = h.email /\ g.row = h.row /\ g.full = full
    BY <1>1 DEF IsHydration
<1> HIDE DEF g
<1>3. hydrations' = (hydrations \ {h}) \cup {g}
    BY DEF g
<1>4. ClientTyped'
    BY <1>2, <1>3, LedgerStill DEF ClientInv, ClientTyped, FormTyped, SaveTyped, ClEdit!isEdit
<1>5. ASSUME Unexcused' PROVE ClientFresh'
    <2>1. ClientFresh
        BY <1>5 DEF ClientInv, Unexcused
    <2>2. HydrationsFresh'
        BY <1>2, <1>3, <2>1 DEF ClientFresh, HydrationsFresh, Named, OnNow
    <2>3. FormFresh' /\ SaveFresh'
        BY <2>1 DEF ClientFresh, FormFresh, SaveFresh, HalfSaved, Named, OnNow, ClEdit!isEdit
    <2>4. SavedFresh'
        BY <2>1 DEF ClientFresh, SavedFresh, HalfSaved, Named, OnNow, ClEdit!isEdit
    <2> QED BY <2>2, <2>3, <2>4 DEF ClientFresh
<1> QED BY <1>4, <1>5 DEF ClientInv

LEMMA HydrateClient ==
    ASSUME ClientInv, NEW h \in hydrations, ClEdit!HydrateRead(h) \/ ClEdit!HydrateLost(h) PROVE ClientInv'
<1> DEFINE full == IF h.email \in DOMAIN ledger THEN ledger[h.email] ELSE ClEdit!NoRecord
<1>1. UNCHANGED <<ledger, fmode, fopen, fclient, fattached, fields, saving, cleditSaved, events>>
    BY DEF ClEdit!HydrateRead, ClEdit!HydrateLost, ClEdit!formVars
<1>2. CASE ClEdit!HydrateRead(h)
    <2>1. hydrations' = (hydrations \ {h}) \cup {[h EXCEPT !.full = full]}
        BY <1>2 DEF ClEdit!HydrateRead
    <2>2. full = ClEdit!NoRecord \/ OnNow(h.email, full.on)
        BY DEF OnNow
    <2> HIDE DEF full
    <2> QED BY <1>1, <2>1, <2>2, ReadClient
<1>3. CASE ClEdit!HydrateLost(h)
    <2>1. hydrations' = (hydrations \ {h}) \cup {[h EXCEPT !.full = ClEdit!NoRecord]}
        BY <1>3 DEF ClEdit!HydrateLost
    <2> QED BY <1>1, <2>1, ReadClient
<1> QED BY <1>2, <1>3

LEMMA ArriveToggleClient == ASSUME ClientInv, NEW h \in hydrations, ClEdit!ToggleArrives(h) PROVE ClientInv'
<1>1. /\ hydrations' = hydrations \ {h}
      /\ UNCHANGED <<ledger, fmode, fopen, fclient, fattached, fields, saving, cleditSaved, events>>
    BY DEF ClEdit!ToggleArrives, ClEdit!formVars
<1>2. ClientTyped'
    BY <1>1, LedgerStill DEF ClientInv, ClientTyped, FormTyped, SaveTyped, ClEdit!isEdit
<1>3. ASSUME Unexcused' PROVE ClientFresh'
    <2>1. ClientFresh
        BY <1>1, <1>3 DEF ClientInv, Unexcused
    <2>2. HydrationsFresh'
        BY <1>1, <2>1 DEF ClientFresh, HydrationsFresh, Named, OnNow
    <2>3. FormFresh' /\ SaveFresh'
        BY <1>1, <2>1 DEF ClientFresh, FormFresh, SaveFresh, HalfSaved, Named, OnNow, ClEdit!isEdit
    <2>4. SavedFresh'
        BY <1>1, <2>1 DEF ClientFresh, SavedFresh, HalfSaved, Named, OnNow, ClEdit!isEdit
    <2> QED BY <2>2, <2>3, <2>4 DEF ClientFresh
<1> QED BY <1>2, <1>3 DEF ClientInv

LEMMA ArriveEditClient == ASSUME ClientInv, NEW h \in hydrations, ClEdit!EditArrives(h) PROVE ClientInv'
<1> DEFINE r == IF h.full = ClEdit!NoRecord THEN h.row ELSE h.full
           filled == [email |-> h.email, cred |-> r.cred, note |-> r.note, enable |-> r.enable, on |-> r.on]
           empty(k) == [email |-> "cyd", cred |-> k, note |-> "old", enable |-> TRUE, on |-> {}]
<1>1. /\ h.full # ClEdit!Unread /\ hydrations' = hydrations \ {h}
      /\ fclient' = h.email /\ fattached' = r.on /\ fopen' = TRUE
      /\ IF fopen THEN fields' = fields ELSE IF fmode = "edit" THEN fields' = filled
         ELSE \E k \in {"drawn", "redrawn"} : fields' = empty(k)
      /\ events \subseteq events' /\ (fopen => "crossed" \in events')
      /\ UNCHANGED <<ledger, fmode, saving, cleditSaved>>
    BY EmptySays DEF ClEdit!EditArrives, ClEdit!fieldsOf
<1>2. CASE fopen
    <2>1. ~Unexcused'
        BY <1>1, <1>2 DEF Unexcused
    <2>3. ClientTyped'
        BY <1>1, <1>2, LedgerStill DEF ClientInv, ClientTyped, FormTyped, SaveTyped, ClEdit!isEdit
    <2> QED BY <2>1, <2>3 DEF ClientInv
<1>3. CASE ~fopen
    <2>1. saving = ClEdit!NoRecord
        BY <1>3 DEF ClientInv, ClientTyped, SaveTyped
    <2>2. /\ fields' = [email |-> fields'.email, cred |-> fields'.cred, note |-> fields'.note, enable |-> fields'.enable, on |-> fields'.on]
          /\ fields'.email = (IF fmode = "edit" THEN h.email ELSE "cyd")
        BY <1>1, <1>3
    <2>3. ClientTyped'
        BY <1>1, <2>1, <2>2, LedgerStill DEF ClientInv, ClientTyped, FormTyped, SaveTyped
    <2>4. ASSUME Unexcused' PROVE ClientFresh'
        <3>1. ClientFresh
            BY <1>1, <2>4 DEF ClientInv, Unexcused
        <3>2. HydrationsFresh'
            BY <1>1, <3>1 DEF ClientFresh, HydrationsFresh, Named, OnNow
        <3>3. h.email # "nobody" /\ Named(h.email) /\ OnNow(h.email, r.on)
            BY <1>1, <3>1 DEF ClientFresh, HydrationsFresh
        <3> HIDE DEF r
        <3>4. FormFresh'
            BY <1>1, <2>2, <3>3 DEF FormFresh, Named, OnNow, ClEdit!isEdit
        <3>5. SaveFresh'
            BY <1>1, <2>1 DEF SaveFresh
        <3>6. SavedFresh'
            BY <1>1, <2>1, <3>1 DEF ClientFresh, SavedFresh, HalfSaved, Named, OnNow
        <3> QED BY <3>2, <3>4, <3>5, <3>6 DEF ClientFresh
    <2> QED BY <2>3, <2>4 DEF ClientInv
<1> QED BY <1>2, <1>3

\* The calls of a save.  An update moves a client to its new name, which is its own or the free one.
MovedTo(e, name) ==
    /\ e \in DOMAIN ledger /\ name \in {e, "cyd"} \ (DOMAIN ledger \ {e})
    /\ DOMAIN ledger' = (DOMAIN ledger \ {e}) \cup {name}
    /\ ledger'[name].on = ledger[e].on
    /\ \A x \in DOMAIN ledger \ {e, name} : ledger'[x].on = ledger[x].on

LEMMA MovedSays ==
    ASSUME NEW e, NEW name, MovedTo(e, name)
    PROVE  /\ \A x : Named(x) => Named(x)'
           /\ \A x, on : Named(x) /\ OnNow(x, on) => (x \in DOMAIN ledger' => on = ledger'[x].on)
<1>1. ASSUME NEW x, Named(x) PROVE Named(x)'
    BY <1>1 DEF MovedTo, Named
<1>2. ASSUME NEW x, NEW on, Named(x), OnNow(x, on), x \in DOMAIN ledger' PROVE on = ledger'[x].on
    <2>1. CASE x = name
        <3>1. x = e
            BY <1>2, <2>1 DEF MovedTo, Named
        <3> QED BY <1>2, <2>1, <3>1 DEF MovedTo, OnNow
    <2>2. CASE x # name
        BY <1>2, <2>2 DEF MovedTo, OnNow
    <2> QED BY <2>1, <2>2
<1> QED BY <1>1, <1>2

LEMMA MovedHydrations ==
    ASSUME NEW e, NEW name, MovedTo(e, name), HydrationsFresh, hydrations' = hydrations,
           saving' = ClEdit!NoRecord \/ (saving # ClEdit!NoRecord /\ saving'.email = saving.email)
    PROVE  HydrationsFresh'
<1>1. "nobody" \notin DOMAIN ledger'
    BY DEF HydrationsFresh, MovedTo
<1>2. ASSUME NEW h \in hydrations
      PROVE  /\ h.email # "nobody" /\ Named(h.email)' /\ OnNow(h.email, h.row.on)'
             /\ h.full \in {ClEdit!Unread, ClEdit!NoRecord} \/ OnNow(h.email, h.full.on)'
             /\ saving' # ClEdit!NoRecord => h.email # saving'.email
    BY MovedSays DEF HydrationsFresh, OnNow
<1> QED BY <1>1, <1>2 DEF HydrationsFresh, Named, OnNow

\* The save goes on to its next call, or has ended well.
LEMMA CallSays ==
    ASSUME IsSave(saving), NEW call, saving' = [saving EXCEPT !.call = call]
    PROVE  /\ IsSave(saving)' /\ saving' # ClEdit!NoRecord
           /\ saving'.call = call /\ saving'.email = saving.email /\ saving'.payload = saving.payload
           /\ saving'.attach = saving.attach /\ saving'.detach = saving.detach
<1>1. saving' = [call |-> call, email |-> saving.email, payload |-> saving.payload,
                 attach |-> saving.attach, detach |-> saving.detach]
    BY DEF IsSave
<1>2. "call" \in DOMAIN saving' /\ "call" \notin DOMAIN ClEdit!NoRecord
    BY <1>1 DEF ClEdit!NoRecord
<1>3. saving' # ClEdit!NoRecord
    BY <1>2
<1> QED BY <1>1, <1>3 DEF IsSave

LEMMA SavingSays ==
    ASSUME ClientInv, saving # ClEdit!NoRecord
    PROVE  /\ IsSave(saving) /\ fopen /\ saving.payload = fields
           /\ ClientFresh /\ saving.call # "create" =>
                  /\ ClEdit!isEdit /\ saving.email = fclient
                  /\ saving.attach = fields.on \ fattached /\ saving.detach = fattached \ fields.on
                  /\ Named(fclient) /\ fields.email \in {fclient, "cyd"}
    BY DEF ClientInv, ClientTyped, SaveTyped, ClientFresh, SaveFresh, FormFresh

\* A form for adding that was not disturbed creates a client nobody has.
LEMMA CreateIsFirst ==
    ASSUME ClientTyped, DrawnTrue, saving # ClEdit!NoRecord, saving.call = "create", ClEdit!mayCreate(saving.payload)
    PROVE  saving.payload.email = "cyd" /\ "cyd" \notin DOMAIN ledger /\ saving.payload.cred = "drawn"
<1>1. fopen /\ saving.payload = fields /\ ~ClEdit!isEdit
    BY DEF ClientTyped, SaveTyped, DrawnTrue
<1>2. fields.email = "cyd" /\ fields.cred \in {"drawn", "redrawn"} /\ ~ClEdit!held(fields.cred)
      /\ (fields.cred = "redrawn" => "cyd" \in DOMAIN ledger)
    BY <1>1 DEF DrawnTrue
<1>3. "cyd" \notin DOMAIN ledger
    BY <1>1, <1>2 DEF ClEdit!mayCreate, ClEdit!held
<1> QED
    BY <1>1, <1>2, <1>3

LEMMA CreateClient == ASSUME ClientInv, DrawnKnown, ClEdit!CreateStored PROVE ClientInv'
<1> DEFINE p == saving.payload
<1>1. /\ saving # ClEdit!NoRecord /\ saving.call = "create" /\ ClEdit!mayCreate(p)
      /\ ledger' = ClEdit!created(p, p.on)
      /\ saving' = ClEdit!NoRecord /\ fopen' = FALSE /\ cleditSaved' = [email |-> p.email, on |-> p.on]
      /\ UNCHANGED <<fmode, fclient, fattached, fields, hydrations, events>>
    BY DEF ClEdit!CreateStored, ClEdit!saveSucceeds, ClEdit!restOfSave
<1>2. LedgerTyped
    BY DEF ClientInv, ClientTyped
<1>4. /\ LedgerTyped' /\ DOMAIN ledger' = DOMAIN ledger \cup {p.email}
      /\ p.email \notin DOMAIN ledger => ledger'[p.email].on = p.on
      /\ \A x \in DOMAIN ledger : x # p.email => ledger'[x] = ledger[x]
    BY <1>1, <1>2, CreatedSays
<1>6. ClientTyped'
    BY <1>1, <1>4 DEF ClientInv, ClientTyped, FormTyped, SaveTyped
<1>7. ASSUME Unexcused' PROVE ClientFresh'
    <2>1. ClientFresh /\ DrawnTrue
        BY <1>1, <1>7 DEF ClientInv, DrawnKnown, Unexcused, Undisturbed
    <2>2. p.email = "cyd" /\ "cyd" \notin DOMAIN ledger
        BY <1>1, <2>1, CreateIsFirst DEF ClientInv
    <2> HIDE DEF p
    <2>3. HydrationsFresh'
        BY <1>1, <1>4, <2>1, <2>2 DEF ClientFresh, HydrationsFresh, Named, OnNow
    <2>4. FormFresh' /\ SaveFresh'
        BY <1>1 DEF FormFresh, SaveFresh
    <2>5. SavedFresh'
        BY <1>1, <1>4, <2>2 DEF SavedFresh, Named, OnNow
    <2> QED BY <2>3, <2>4, <2>5 DEF ClientFresh
<1> QED BY <1>6, <1>7 DEF ClientInv

LEMMA UpdateClient == ASSUME ClientInv, ClEdit!UpdateStored PROVE ClientInv'
<1> DEFINE e == saving.email
           name == saving.payload.email
<1>1. /\ saving # ClEdit!NoRecord /\ saving.call = "update"
      /\ e \in DOMAIN ledger /\ name \notin DOMAIN ledger \ {e}
      /\ ledger' = ClEdit!withRecord(e, saving.payload)
      /\ UNCHANGED <<fmode, fclient, fattached, fields, hydrations, events>>
    BY DEF ClEdit!UpdateStored, ClEdit!UpdateStores, ClEdit!UpdateRefused, ClEdit!taken, ClEdit!restOfSave
<1>2. \/ saving' = [saving EXCEPT !.call = "attach"] /\ UNCHANGED <<fopen, cleditSaved>>
      \/ saving' = [saving EXCEPT !.call = "detach"] /\ saving.attach = {} /\ UNCHANGED <<fopen, cleditSaved>>
      \/ /\ saving' = ClEdit!NoRecord /\ fopen' = FALSE /\ saving.attach = {} /\ saving.detach = {}
         /\ cleditSaved' = [email |-> name, on |-> saving.payload.on]
    BY DEF ClEdit!UpdateStored, ClEdit!afterUpdate, ClEdit!saveContinues, ClEdit!saveSucceeds
<1>3. IsSave(saving) /\ fopen /\ saving.payload = fields
    BY <1>1, SavingSays
<1>4. /\ DOMAIN ledger' = (DOMAIN ledger \ {e}) \cup {name}
      /\ ledger' = [x \in DOMAIN ledger' |-> ledger'[x]]
      /\ ledger'[name].on = ledger[e].on /\ \A x \in DOMAIN ledger \ {e, name} : ledger'[x] = ledger[x]
      /\ \A x \in DOMAIN ledger' : IsRec(ledger'[x])
    <2> DEFINE pay == saving.payload
               led == ClEdit!withRecord(e, pay)
    <2>1. LedgerTyped /\ e \in DOMAIN ledger /\ pay.email \notin DOMAIN ledger \ {e}
        BY <1>1 DEF ClientInv, ClientTyped
    <2> HIDE DEF pay
    <2>2. /\ DOMAIN led = (DOMAIN ledger \ {e}) \cup {pay.email} /\ led = [x \in DOMAIN led |-> led[x]]
          /\ led[pay.email].on = ledger[e].on /\ \A x \in DOMAIN ledger \ {e, pay.email} : led[x] = ledger[x]
          /\ \A x \in DOMAIN led : IsRec(led[x])
        BY <2>1, RecordSays, Zenon
    <2>3. ledger' = led
        BY <1>1 DEF pay
    <2> HIDE DEF led
    <2> QED BY <2>2, <2>3 DEF pay
<1>5. LedgerTyped' /\ FormTyped'
    BY <1>1, <1>4 DEF LedgerTyped, IsRec, ClientInv, ClientTyped, FormTyped
<1>6. SaveTyped'
    <2>1. CASE saving' = ClEdit!NoRecord
        BY <2>1 DEF SaveTyped
    <2>2. ASSUME NEW call \in {"attach", "detach"}, saving' = [saving EXCEPT !.call = call], fopen' = fopen PROVE SaveTyped'
        BY <1>1, <1>3, <2>2, CallSays DEF SaveTyped
    <2> QED BY <1>2, <2>1, <2>2
<1>7. ASSUME Unexcused' PROVE ClientFresh'
    <2>1. ClientFresh
        BY <1>1, <1>7 DEF ClientInv, Unexcused
    <2>2. /\ ClEdit!isEdit /\ e = fclient /\ name \in {fclient, "cyd"} /\ fields.email = name
          /\ saving.attach = fields.on \ fattached /\ saving.detach = fattached \ fields.on
          /\ Named(fclient)
        BY <1>1, <1>3, <2>1, SavingSays
    <2>3. ledger[e].on = fattached
        BY <1>1, <1>3, <2>1, <2>2 DEF ClientFresh, FormFresh, HalfSaved, OnNow
    <2>4. MovedTo(e, name)
        BY <1>1, <1>4, <2>2 DEF MovedTo
    <2>5. SavedFresh /\ cleditSaved # ClEdit!NoRecord => Named(cleditSaved.email) /\ OnNow(cleditSaved.email, cleditSaved.on)
        BY <1>1 DEF SavedFresh, HalfSaved
    <2>6. /\ name = "cyd" \/ fclient = "cyd" => "cyd" \in DOMAIN ledger'
          /\ (fclient \in DOMAIN ledger' => name = fclient /\ ledger'[fclient].on = fattached)
        <3>1. "cyd" \in {name, fclient} => "cyd" \in DOMAIN ledger'
            BY <1>4, <2>2 DEF Named
        <3>2. fclient \in DOMAIN ledger' => name = fclient /\ ledger'[fclient].on = fattached
            BY <1>4, <2>2, <2>3
        <3> QED BY <3>1, <3>2
    <2>7. ASSUME NEW call \in {"attach", "detach"}, saving' = [saving EXCEPT !.call = call],
                 call = "detach" => saving.attach = {}, UNCHANGED <<fopen, cleditSaved>>
          PROVE  ClientFresh'
        <3>1. /\ saving' # ClEdit!NoRecord
              /\ saving'.call = call /\ saving'.email = saving.email /\ saving'.payload = saving.payload
              /\ saving'.attach = saving.attach /\ saving'.detach = saving.detach
            BY <1>3, <2>7, CallSays
        <3>2. ClEdit!isEdit' /\ ~HalfSaved'
            BY <1>1, <2>2, <2>7, <3>1 DEF ClEdit!isEdit, HalfSaved
        <3>3. HydrationsFresh'
            BY <1>1, <2>1, <2>4, <3>1, MovedHydrations DEF ClientFresh
        <3>4. FormFresh'
            BY <1>1, <2>2, <2>6, <3>2 DEF FormFresh, Named, OnNow
        <3>5. SaveFresh'
            <4>1. call = "detach" => OnNow(fclient, fattached \cup saving.attach)'
                BY <1>1, <2>6, <2>7, <3>1 DEF OnNow
            <4> QED BY <1>1, <2>2, <2>6, <2>7, <3>1, <3>2, <4>1 DEF SaveFresh, Named, OnNow
        <3>6. SavedFresh'
            BY <2>1, <2>4, <2>5, <2>7, MovedSays DEF ClientFresh, SavedFresh, Named, OnNow
        <3> QED BY <3>3, <3>4, <3>5, <3>6 DEF ClientFresh
    <2>8. ASSUME saving' = ClEdit!NoRecord, fopen' = FALSE, saving.attach = {}, saving.detach = {},
                 cleditSaved' = [email |-> name, on |-> saving.payload.on]
          PROVE  ClientFresh'
        <3>1. HydrationsFresh'
            BY <1>1, <2>1, <2>4, <2>8, MovedHydrations DEF ClientFresh
        <3>2. FormFresh' /\ SaveFresh'
            BY <2>8 DEF FormFresh, SaveFresh
        <3>3. fields.on = fattached
            BY <2>2, <2>8
        <3>4. cleditSaved'.email = name /\ cleditSaved'.on = ledger'[name].on
            BY <1>3, <1>4, <2>3, <2>8, <3>3
        <3>5. SavedFresh'
            BY <2>6, <3>4 DEF SavedFresh, Named, OnNow
        <3> QED BY <3>1, <3>2, <3>5 DEF ClientFresh
    <2> QED BY <1>2, <2>7, <2>8
<1> QED BY <1>5, <1>6, <1>7 DEF ClientInv, ClientTyped

LEMMA AttachClient == ASSUME ClientInv, ClEdit!AttachStored PROVE ClientInv'
<1> DEFINE e == saving.email
           on == ledger[e].on \cup saving.attach
<1>1. /\ saving # ClEdit!NoRecord /\ saving.call = "attach" /\ e \in DOMAIN ledger
      /\ ledger' = [ledger EXCEPT ![e].on = on]
      /\ UNCHANGED <<fmode, fclient, fattached, fields, hydrations, events>>
    BY DEF ClEdit!AttachStored, ClEdit!restOfSave
<1>2. \/ saving' = [saving EXCEPT !.call = "detach"] /\ UNCHANGED <<fopen, cleditSaved>>
      \/ /\ saving' = ClEdit!NoRecord /\ fopen' = FALSE /\ saving.detach = {}
         /\ cleditSaved' = [email |-> saving.payload.email, on |-> saving.payload.on]
    BY DEF ClEdit!AttachStored, ClEdit!afterAttach, ClEdit!saveContinues, ClEdit!saveSucceeds
<1>3. IsSave(saving) /\ fopen /\ saving.payload = fields
    BY <1>1, SavingSays
<1>4. /\ LedgerTyped' /\ DOMAIN ledger' = DOMAIN ledger
      /\ ledger'[e].on = on /\ \A x \in DOMAIN ledger : x # e => ledger'[x] = ledger[x]
    <2>1. LedgerTyped
        BY DEF ClientInv, ClientTyped
    <2> HIDE DEF on
    <2> QED BY <1>1, <2>1, OnSetSays
<1>5. FormTyped'
    BY <1>1 DEF ClientInv, ClientTyped, FormTyped
<1>6. SaveTyped'
    <2>1. CASE saving' = ClEdit!NoRecord
        BY <2>1 DEF SaveTyped
    <2>2. ASSUME saving' = [saving EXCEPT !.call = "detach"], fopen' = fopen PROVE SaveTyped'
        BY <1>1, <1>3, <2>2, CallSays DEF SaveTyped
    <2> QED BY <1>2, <2>1, <2>2
<1>7. ASSUME Unexcused' PROVE ClientFresh'
    <2>1. ClientFresh
        BY <1>1, <1>7 DEF ClientInv, Unexcused
    <2>2. /\ ClEdit!isEdit /\ e = fclient
          /\ saving.attach = fields.on \ fattached /\ saving.detach = fattached \ fields.on /\ Named(fclient)
        BY <1>1, <1>3, <2>1, SavingSays
    <2>3. fields.email = fclient
        BY <1>1, <2>1, <2>2 DEF ClientFresh, SaveFresh
    <2>4. ledger[e].on = fattached
        BY <1>1, <1>3, <2>1, <2>2 DEF ClientFresh, FormFresh, HalfSaved, OnNow
    <2>5. \A x : Named(x) => (x = "cyd" => "cyd" \in DOMAIN ledger')
        BY <1>4 DEF Named
    <2>6. \A h \in hydrations : h.email # e
        BY <1>1, <2>1 DEF ClientFresh, HydrationsFresh
    <2>7. /\ "nobody" \notin DOMAIN ledger'
          /\ \A h \in hydrations : OnNow(h.email, h.row.on) => (h.email \in DOMAIN ledger' => h.row.on = ledger'[h.email].on)
          /\ \A h \in hydrations : OnNow(h.email, h.full.on) => (h.email \in DOMAIN ledger' => h.full.on = ledger'[h.email].on)
        BY <1>4, <2>1, <2>6 DEF ClientFresh, HydrationsFresh, OnNow
    <2>8. HydrationsFresh'
        <3>1. saving' # ClEdit!NoRecord => saving'.email = e
            BY <1>2, <1>3, CallSays
        <3> QED BY <1>1, <2>1, <2>5, <2>6, <2>7, <3>1 DEF ClientFresh, HydrationsFresh, Named, OnNow
    <2>9. cleditSaved # ClEdit!NoRecord =>
              Named(cleditSaved.email) /\ OnNow(cleditSaved.email, cleditSaved.on)
        BY <1>1, <2>1 DEF ClientFresh, SavedFresh, HalfSaved
    <2>10. ASSUME saving' = [saving EXCEPT !.call = "detach"], UNCHANGED <<fopen, cleditSaved>>
           PROVE  ClientFresh'
        <3>1. /\ saving' # ClEdit!NoRecord
              /\ saving'.call = "detach" /\ saving'.email = saving.email /\ saving'.payload = saving.payload
              /\ saving'.attach = saving.attach /\ saving'.detach = saving.detach
            BY <1>3, <2>10, CallSays
        <3>2. ClEdit!isEdit' /\ (HalfSaved' <=> saving.attach # {})
            BY <1>1, <2>2, <2>10, <3>1 DEF ClEdit!isEdit, HalfSaved
        <3>3. FormFresh'
            BY <1>1, <1>4, <2>2, <2>3, <2>4, <2>5, <3>2 DEF FormFresh, Named, OnNow
        <3>4. SaveFresh'
            BY <1>1, <1>4, <2>2, <2>3, <2>4, <2>5, <3>1, <3>2 DEF SaveFresh, Named, OnNow
        <3>5. SavedFresh'
            <4> SUFFICES ASSUME cleditSaved # ClEdit!NoRecord, saving.attach = {} \/ cleditSaved.email # e
                         PROVE  cleditSaved.email \in DOMAIN ledger' => cleditSaved.on = ledger'[cleditSaved.email].on
                BY <2>5, <2>9, <2>10, <3>1, <3>2 DEF SavedFresh, Named, OnNow
            <4> QED BY <1>4, <2>9 DEF OnNow
        <3> QED BY <2>8, <3>3, <3>4, <3>5 DEF ClientFresh
    <2>11. ASSUME saving' = ClEdit!NoRecord, fopen' = FALSE, saving.detach = {},
                  cleditSaved' = [email |-> saving.payload.email, on |-> saving.payload.on]
           PROVE  ClientFresh'
        <3>1. FormFresh' /\ SaveFresh'
            BY <2>11 DEF FormFresh, SaveFresh
        <3>2. on = fields.on
            BY <2>2, <2>4, <2>11
        <3>3. cleditSaved'.email = e /\ cleditSaved'.on = ledger'[e].on
            BY <1>3, <1>4, <2>2, <2>3, <2>11, <3>2
        <3>4. SavedFresh'
            BY <2>2, <2>5, <3>3 DEF SavedFresh, Named, OnNow
        <3> QED BY <2>8, <3>1, <3>4 DEF ClientFresh
    <2> QED BY <1>2, <2>10, <2>11
<1> QED BY <1>4, <1>5, <1>6, <1>7 DEF ClientInv, ClientTyped

LEMMA DetachClient == ASSUME ClientInv, ClEdit!DetachStored PROVE ClientInv'
<1> DEFINE e == saving.email
           on == ledger[e].on \ saving.detach
<1>1. /\ saving # ClEdit!NoRecord /\ saving.call = "detach" /\ e \in DOMAIN ledger
      /\ ledger' = [ledger EXCEPT ![e].on = on]
      /\ saving' = ClEdit!NoRecord /\ fopen' = FALSE
      /\ cleditSaved' = [email |-> saving.payload.email, on |-> saving.payload.on]
      /\ UNCHANGED <<fmode, fclient, fattached, fields, hydrations, events>>
    BY DEF ClEdit!DetachStored, ClEdit!restOfSave, ClEdit!saveSucceeds
<1>2. IsSave(saving) /\ fopen /\ saving.payload = fields
    BY <1>1, SavingSays
<1>3. /\ LedgerTyped' /\ DOMAIN ledger' = DOMAIN ledger
      /\ ledger'[e].on = on /\ \A x \in DOMAIN ledger : x # e => ledger'[x] = ledger[x]
    <2>1. LedgerTyped
        BY DEF ClientInv, ClientTyped
    <2> HIDE DEF on
    <2> QED BY <1>1, <2>1, OnSetSays
<1>4. ClientTyped'
    BY <1>1, <1>3 DEF ClientInv, ClientTyped, FormTyped, SaveTyped
<1>5. ASSUME Unexcused' PROVE ClientFresh'
    <2>1. ClientFresh
        BY <1>1, <1>5 DEF ClientInv, Unexcused
    <2>2. /\ ClEdit!isEdit /\ e = fclient
          /\ saving.attach = fields.on \ fattached /\ saving.detach = fattached \ fields.on /\ Named(fclient)
        BY <1>1, <1>2, <2>1, SavingSays
    <2>3. fields.email = fclient /\ ledger[e].on = fattached \cup saving.attach
        BY <1>1, <2>1, <2>2 DEF ClientFresh, SaveFresh, OnNow
    <2>4. on = fields.on
        BY <2>2, <2>3
    <2>5. HydrationsFresh'
        BY <1>1, <1>3, <2>1 DEF ClientFresh, HydrationsFresh, Named, OnNow
    <2>6. FormFresh' /\ SaveFresh'
        BY <1>1 DEF FormFresh, SaveFresh
    <2>7. cleditSaved'.email = e /\ cleditSaved'.on = ledger'[e].on
        BY <1>1, <1>2, <1>3, <2>2, <2>3, <2>4
    <2>8. SavedFresh'
        BY <1>3, <2>2, <2>7 DEF SavedFresh, Named, OnNow
    <2> QED BY <2>5, <2>6, <2>8 DEF ClientFresh
<1> QED BY <1>4, <1>5 DEF ClientInv

\* What is left of a call that was refused or not answered: nothing, or a part of it.
Half(e, name) ==
    \/ ledger' = ClEdit!renamed(e, name) \/ ledger' = ClEdit!withRecord(e, saving.payload)

LEMMA PartlySays ==
    ASSUME ClEdit!Partly
    PROVE  \/ ledger' = ledger /\ overwritten' = overwritten
           \/ /\ saving.call = "create" /\ ClEdit!mayCreate(saving.payload)
              /\ \E some : ledger' = ClEdit!created(saving.payload, some)
              /\ overwritten' = ClEdit!written(saving.payload.email, saving.payload)
           \/ /\ saving.call = "update" /\ ~ClEdit!UpdateRefused(saving.email, saving.payload)
              /\ Half(saving.email, saving.payload.email)
              /\ overwritten' \in {overwritten, ClEdit!written(saving.email, saving.payload)}
           \/ /\ saving.call \in {"attach", "detach"} /\ saving.email \in DOMAIN ledger
              /\ \E S : ledger' = [ledger EXCEPT ![saving.email].on = S]
              /\ overwritten' = overwritten
<1>1. CASE UNCHANGED <<ledger, overwritten>>
    BY <1>1
<1>2. CASE ClEdit!CreatePartly
    <2>1. \E some : ledger' = ClEdit!created(saving.payload, some)
        BY <1>2 DEF ClEdit!CreatePartly
    <2> QED BY <1>2, <2>1 DEF ClEdit!CreatePartly
<1>3. CASE ClEdit!UpdatePartly
    BY <1>3 DEF ClEdit!UpdatePartly, Half
<1>4. CASE ClEdit!AttachPartly
    <2>1. PICK some : ledger' = [ledger EXCEPT ![saving.email].on = @ \cup some]
        BY <1>4 DEF ClEdit!AttachPartly
    <2>2. ledger' = [ledger EXCEPT ![saving.email].on = ledger[saving.email].on \cup some]
        BY <2>1
    <2>3. \E S : ledger' = [ledger EXCEPT ![saving.email].on = S]
        BY <2>2
    <2> QED BY <1>4, <2>3 DEF ClEdit!AttachPartly
<1>5. CASE ClEdit!DetachPartly
    <2>1. PICK some : ledger' = [ledger EXCEPT ![saving.email].on = @ \ some]
        BY <1>5 DEF ClEdit!DetachPartly
    <2>2. ledger' = [ledger EXCEPT ![saving.email].on = ledger[saving.email].on \ some]
        BY <2>1
    <2>3. \E S : ledger' = [ledger EXCEPT ![saving.email].on = S]
        BY <2>2
    <2> QED BY <1>5, <2>3 DEF ClEdit!DetachPartly
<1> QED
    BY <1>1, <1>2, <1>3, <1>4, <1>5 DEF ClEdit!Partly

LEMMA RenamedTo ==
    ASSUME LedgerTyped, NEW e \in DOMAIN ledger, NEW name, name \notin DOMAIN ledger \ {e}, ledger' = ClEdit!renamed(e, name)
    PROVE  /\ LedgerTyped' /\ DOMAIN ledger' = (DOMAIN ledger \ {e}) \cup {name}
           /\ ledger'[name] = ledger[e] /\ \A x \in DOMAIN ledger \ {e, name} : ledger'[x] = ledger[x]
<1> DEFINE led == ClEdit!renamed(e, name)
<1>1. /\ DOMAIN led = (DOMAIN ledger \ {e}) \cup {name} /\ led = [x \in DOMAIN led |-> led[x]]
      /\ led[name] = ledger[e] /\ \A x \in DOMAIN ledger \ {e, name} : led[x] = ledger[x]
      /\ \A x \in DOMAIN led : IsRec(led[x])
    BY RenamedSays, Zenon
<1>2. ledger' = led
    OBVIOUS
<1> HIDE DEF led
<1>3. LedgerTyped'
    BY <1>1, <1>2 DEF LedgerTyped, IsRec
<1> QED BY <1>1, <1>2, <1>3

\* A half of an update moves its client, record or no record.
LEMMA HalfSays ==
    ASSUME LedgerTyped, NEW e, NEW name, name = saving.payload.email, e \in DOMAIN ledger,
           name \notin DOMAIN ledger \ {e}, Half(e, name)
    PROVE  /\ LedgerTyped' /\ DOMAIN ledger' = (DOMAIN ledger \ {e}) \cup {name}
           /\ ledger'[name].on = ledger[e].on /\ \A x \in DOMAIN ledger \ {e, name} : ledger'[x] = ledger[x]
           /\ \/ ledger'[name].cred = ledger[e].cred /\ ledger'[name].note = ledger[e].note
              \/ ledger'[name].cred = ClEdit!stored(saving.payload).cred /\ ledger'[name].note = ClEdit!stored(saving.payload).note
<1>1. CASE ledger' = ClEdit!renamed(e, name)
    BY <1>1, RenamedTo
<1>2. CASE ledger' = ClEdit!withRecord(e, saving.payload)
    <2> DEFINE led == ClEdit!withRecord(e, saving.payload)
               pay == saving.payload
    <2>1. /\ DOMAIN led = (DOMAIN ledger \ {e}) \cup {pay.email} /\ led = [x \in DOMAIN led |-> led[x]]
          /\ led[pay.email].on = ledger[e].on /\ \A x \in DOMAIN ledger \ {e, pay.email} : led[x] = ledger[x]
          /\ \/ led[pay.email].cred = ledger[e].cred /\ led[pay.email].note = ledger[e].note
             \/ led[pay.email].cred = ClEdit!stored(pay).cred /\ led[pay.email].note = ClEdit!stored(pay).note
          /\ \A x \in DOMAIN led : IsRec(led[x])
        BY RecordSays, Zenon
    <2>2. ledger' = led
        BY <1>2
    <2> HIDE DEF led
    <2>3. LedgerTyped'
        BY <2>1, <2>2 DEF LedgerTyped, IsRec
    <2> QED BY <2>1, <2>2, <2>3
<1> QED
    BY <1>1, <1>2 DEF Half

LEMMA RefusedClient == ASSUME ClientInv, ClEdit!SaveRefused PROVE ClientInv'
<1> DEFINE e == saving.email
           name == saving.payload.email
<1>1. /\ saving # ClEdit!NoRecord /\ saving' = ClEdit!NoRecord /\ events \subseteq events' /\ ClEdit!Partly
      /\ (saving.call = "detach" /\ saving.attach # {}) \/ (saving.call # "update" /\ ledger' # ledger) => "partly" \in events'
      /\ UNCHANGED <<fmode, fopen, fclient, fattached, fields, hydrations, cleditSaved>>
    BY DEF ClEdit!SaveRefused, ClEdit!restOfSave
<1>2. IsSave(saving) /\ fopen /\ saving.payload = fields
    BY <1>1, SavingSays
<1>3. LedgerTyped
    BY DEF ClientInv, ClientTyped
<1>4. ASSUME saving.call = "update", ~ClEdit!UpdateRefused(e, saving.payload), Half(e, name)
      PROVE  /\ LedgerTyped' /\ e \in DOMAIN ledger /\ name \notin DOMAIN ledger \ {e}
             /\ DOMAIN ledger' = (DOMAIN ledger \ {e}) \cup {name}
             /\ ledger'[name].on = ledger[e].on /\ \A x \in DOMAIN ledger \ {e, name} : ledger'[x] = ledger[x]
    <2>1. e \in DOMAIN ledger /\ name \notin DOMAIN ledger \ {e}
        BY <1>4 DEF ClEdit!UpdateRefused, ClEdit!taken
    <2> HIDE DEF e
    <2> QED BY <1>3, <1>4, <2>1, HalfSays
<1>5. LedgerTyped'
    <2>1. CASE ledger' = ledger
        BY <1>3, <2>1, LedgerStill
    <2>2. CASE \E some : ledger' = ClEdit!created(saving.payload, some)
        BY <1>3, <2>2, CreatedSays
    <2>3. CASE e \in DOMAIN ledger /\ \E S : ledger' = [ledger EXCEPT ![e].on = S]
        BY <1>3, <2>3, OnSetSays
    <2> QED BY <1>1, <1>4, <2>1, <2>2, <2>3, PartlySays
<1>6. ClientTyped'
    BY <1>1, <1>5 DEF ClientInv, ClientTyped, FormTyped, SaveTyped
<1>7. ASSUME Unexcused' PROVE ClientFresh'
    <2>1. ClientFresh
        BY <1>1, <1>7 DEF ClientInv, Unexcused
    <2>2. ~HalfSaved
        BY <1>1, <1>7 DEF HalfSaved, Unexcused
    <2>0. saving.call = "update" \/ ledger' = ledger
        BY <1>1, <1>7 DEF Unexcused
    <2>3. /\ \A x : Named(x) => (x = "cyd" => "cyd" \in DOMAIN ledger')
          /\ \A x, on : Named(x) /\ OnNow(x, on) => (x \in DOMAIN ledger' => on = ledger'[x].on)
          /\ HydrationsFresh'
        <3>1. CASE ledger' = ledger
            BY <1>1, <2>1, <3>1 DEF ClientFresh, HydrationsFresh, Named, OnNow
        <3>2. CASE ledger' # ledger
            <4>0. saving.call = "update" /\ ~ClEdit!UpdateRefused(e, saving.payload) /\ Half(e, name)
                BY <1>1, <2>0, <3>2, PartlySays
            <4>1. name \in {e, "cyd"}
                BY <1>1, <1>2, <2>1, <4>0, SavingSays
            <4>2. MovedTo(e, name)
                BY <1>4, <4>0, <4>1 DEF MovedTo
            <4>3. HydrationsFresh'
                BY <1>1, <2>1, <4>2, MovedHydrations DEF ClientFresh
            <4> QED BY <4>2, <4>3, MovedSays DEF Named
        <3> QED BY <3>1, <3>2
    <2>4. FormFresh'
        BY <1>1, <2>1, <2>2, <2>3 DEF ClientFresh, FormFresh, Named, OnNow, ClEdit!isEdit
    <2>5. SaveFresh'
        BY <1>1 DEF SaveFresh
    <2>6. SavedFresh'
        BY <1>1, <2>1, <2>2, <2>3 DEF ClientFresh, SavedFresh, Named, OnNow
    <2> QED BY <2>3, <2>4, <2>5, <2>6 DEF ClientFresh
<1> QED BY <1>6, <1>7 DEF ClientInv

LEMMA NextClient == ASSUME ClientInv, DrawnKnown, [ClEdit!Next]_cleditVars PROVE ClientInv'
<1>1. ASSUME NEW e, ClEdit!onEdit(e) \/ ClEdit!onToggleEnable(e) PROVE ClientInv'
    <2>1. /\ ~fopen /\ e \in DOMAIN ledger
          /\ UNCHANGED <<ledger, fopen, fclient, fattached, fields, saving, cleditSaved, events>>
          /\ ClEdit!hydrate("edit", e, TRUE) \/ ClEdit!hydrate("toggle", e, ~ledger[e].enable)
        BY <1>1 DEF ClEdit!onEdit, ClEdit!onToggleEnable, ClEdit!formVars
    <2> QED BY <2>1, AskClient
<1>2. ASSUME NEW e, ClEdit!ipsArrive(e) \/ ClEdit!clearIps PROVE ClientInv'
    BY <1>2, StillClient DEF ClEdit!ipsArrive, ClEdit!clearIps, ClEdit!formVars
<1>3. CASE UNCHANGED cleditVars
    BY <1>3, StillClient DEF cleditVars
<1>4. CASE ClEdit!onAdd \/ ClEdit!EditFields \/ ClEdit!closeForm \/ ClEdit!onSubmit
    BY <1>4, AddClient, FieldsClient, CloseClient, SubmitClient
<1>5. ASSUME NEW h \in hydrations,
             ClEdit!HydrateRead(h) \/ ClEdit!HydrateLost(h) \/ ClEdit!EditArrives(h) \/ ClEdit!ToggleArrives(h)
      PROVE  ClientInv'
    BY <1>5, HydrateClient, ArriveEditClient, ArriveToggleClient
<1>6. CASE ClEdit!CreateStored \/ ClEdit!UpdateStored \/ ClEdit!AttachStored \/ ClEdit!DetachStored \/ ClEdit!SaveRefused
    BY <1>6, CreateClient, UpdateClient, AttachClient, DetachClient, RefusedClient
<1> QED
    BY <1>1, <1>2, <1>3, <1>4, <1>5, <1>6, OtherAdminClient, ToggleClient DEF ClEdit!Next

-----------------------------------------------------------------------------
(* The credentials of the client's form *)

\* A copy agrees with the ledger on the credentials, and, but for a race or a client that was half
\* stored and sent once more, on whether the other administrator has edited the record.
Uncrossed == events \cap {"crossed", "unread"} = {}
Unraced == events \cap {"raced", "partly"} = {}
Agrees(e, r) ==
    e \in DOMAIN ledger =>
        /\ r.cred = ledger[e].cred
        /\ Unraced => (r.note = "theirs" <=> ledger[e].note = "theirs")
OneOwner(k) == \E x \in DOMAIN ledger : \A y \in DOMAIN ledger : ledger[y].cred = k <=> y = x

CopiesTrue ==
    /\ \A h \in hydrations :
        /\ h.email # "nobody" /\ Named(h.email)
        /\ h.full \in {ClEdit!Unread, ClEdit!NoRecord} \/ Agrees(h.email, h.full)
    /\ \A p \in toggles : Named(p.email) /\ Agrees(p.email, p)
FormTrue ==
    /\ fopen /\ ~ClEdit!isEdit => fields.email = "cyd" /\ fields.cred \in {"drawn", "redrawn"}
    /\ fopen /\ ClEdit!isEdit => Named(fclient) /\ fields.email \in {fclient, "cyd"} /\ Agrees(fclient, fields)
SaveTrue ==
    saving # ClEdit!NoRecord =>
        /\ ClEdit!isEdit <=> saving.call # "create"
        /\ ClEdit!isEdit => saving.email = fclient
LedgerOwn ==
    /\ \A e \in DOMAIN ledger : ledger[e].cred # ""
    /\ OneOwner("ann") /\ OneOwner("bob")
CredentialsTrue == CopiesTrue /\ FormTrue /\ SaveTrue /\ LedgerOwn /\ (overwritten # {} => ~Unraced)

\* A form for adding has no client behind it and none on its way, an edit form its client's addresses.
FormOwn ==
    /\ fmode = "add" /\ (\E h \in hydrations : h.kind = "edit") => "overtaken" \in events
    /\ fmode = "add" /\ fclient # "nobody" => "overtaken" \in events
    /\ ClEdit!FormOfOneClient

LedgerKnown == Uncrossed => CredentialsTrue
ClientKnown == FormOwn /\ DrawnKnown /\ LedgerKnown

LEMMA SameCardC == \A S : ClEdit!Cardinality(S) = Cardinality(S)
    BY DEF ClEdit!Cardinality, Cardinality

LEMMA ClientKnownSays ==
    ASSUME ClientKnown
    PROVE  ClEdit!CredentialsKept /\ ClEdit!OverwrittenHasCause /\ ClEdit!FormOfOneClient
<1>1. ASSUME Uncrossed, NEW k \in {"ann", "bob"} PROVE ClEdit!Cardinality({e \in DOMAIN ledger : ledger[e].cred = k}) = 1
    <2>1. OneOwner(k)
        BY <1>1 DEF ClientKnown, LedgerKnown, CredentialsTrue, LedgerOwn, Unraced
    <2>2. PICK x \in DOMAIN ledger : \A y \in DOMAIN ledger : ledger[y].cred = k <=> y = x
        BY <2>1 DEF OneOwner
    <2>3. {e \in DOMAIN ledger : ledger[e].cred = k} = {x}
        BY <2>2
    <2> QED BY <2>3, SameCardC, FS_Singleton
<1>2. ClEdit!CredentialsKept
    BY <1>1 DEF ClEdit!CredentialsKept, Uncrossed
<1>3. ClEdit!OverwrittenHasCause
    BY DEF ClEdit!OverwrittenHasCause, ClientKnown, LedgerKnown, CredentialsTrue, Uncrossed, Unraced
<1> QED BY <1>2, <1>3 DEF ClientKnown, FormOwn

LEMMA InitDrawn == ASSUME ClEdit!Init PROVE DrawnKnown
<1>1. /\ ledger = [e \in {"ann", "bob"} |-> [cred |-> e, note |-> "old", enable |-> TRUE, on |-> {"in1"}]]
      /\ fopen = FALSE /\ hydrations = {} /\ toggles = {} /\ saving = ClEdit!NoRecord
    BY DEF ClEdit!Init
<1>2. \A e \in DOMAIN ledger : ledger[e].cred \notin {"drawn", "redrawn"}
    BY <1>1
<1>3. ~ClEdit!held("drawn") /\ ~ClEdit!held("redrawn")
    BY <1>1, <1>2 DEF ClEdit!held
<1> QED BY <1>1, <1>3 DEF DrawnKnown, DrawnTrue

LEMMA InitClientKnown == ASSUME ClEdit!Init PROVE ClientKnown
<1>1. /\ ledger = [e \in {"ann", "bob"} |-> [cred |-> e, note |-> "old", enable |-> TRUE, on |-> {"in1"}]]
      /\ fopen = FALSE /\ hydrations = {} /\ toggles = {} /\ saving = ClEdit!NoRecord /\ fclient = "nobody"
      /\ overwritten = {}
    BY DEF ClEdit!Init
<1>2. DOMAIN ledger = {"ann", "bob"} /\ \A e \in {"ann", "bob"} : ledger[e].cred = e
    BY <1>1
<1>3. LedgerOwn
    BY <1>2 DEF LedgerOwn, OneOwner
<1>4. CopiesTrue /\ FormTrue /\ SaveTrue
    BY <1>1 DEF CopiesTrue, FormTrue, SaveTrue
<1>5. FormOwn
    BY <1>1 DEF FormOwn, ClEdit!FormOfOneClient
<1> QED BY <1>1, <1>3, <1>4, <1>5, InitDrawn DEF ClientKnown, LedgerKnown, CredentialsTrue, Unraced

-----------------------------------------------------------------------------
(* What becomes of the ledger *)

\* A client keeps its credentials and the other administrator's edit, under its name or the free one.
MovedAs(e, name) ==
    /\ e \in DOMAIN ledger /\ name \in {e, "cyd"} \ (DOMAIN ledger \ {e})
    /\ DOMAIN ledger' = (DOMAIN ledger \ {e}) \cup {name}
    /\ ledger'[name].cred = ledger[e].cred
    /\ Unraced => (ledger'[name].note = "theirs" <=> ledger[e].note = "theirs")
    /\ \A x \in DOMAIN ledger \ {e, name} : ledger'[x].cred = ledger[x].cred /\ ledger'[x].note = ledger[x].note

LEMMA MovedAgrees ==
    ASSUME NEW e, NEW name, MovedAs(e, name), events \subseteq events',
           NEW x, NEW r, Named(x), Agrees(x, r)
    PROVE  Named(x)' /\ Agrees(x, r)'
<1>1. Named(x)'
    BY DEF MovedAs, Named, Unraced
<1>2. ASSUME x \in DOMAIN ledger' 
      PROVE  x \in DOMAIN ledger /\ ledger'[x].cred = ledger[x].cred
             /\ (Unraced => (ledger'[x].note = "theirs" <=> ledger[x].note = "theirs"))
    <2>1. CASE x = name
        <3>1. x = e
            BY <1>2, <2>1 DEF MovedAs, Named, Unraced
        <3> QED BY <1>2, <2>1, <3>1 DEF MovedAs, Unraced
    <2>2. CASE x # name
        BY <1>2, <2>2 DEF MovedAs, Unraced
    <2> QED BY <2>1, <2>2
<1>3. Agrees(x, r)'
    BY <1>2 DEF Agrees, Unraced
<1> QED BY <1>1, <1>3

LEMMA MovedOwner ==
    ASSUME NEW e, NEW name, MovedAs(e, name), NEW k, OneOwner(k) PROVE OneOwner(k)'
<1>1. PICK x \in DOMAIN ledger : \A y \in DOMAIN ledger : ledger[y].cred = k <=> y = x
    BY DEF OneOwner
<1> DEFINE z == IF x = e THEN name ELSE x
<1>2. ASSUME NEW y \in DOMAIN ledger' PROVE ledger'[y].cred = k <=> y = z
    <2>1. CASE y = name
        <3>1. ledger'[y].cred = k <=> e = x
            BY <1>1, <2>1 DEF MovedAs, Unraced
        <3>2. x # e => x # name
            BY <1>1 DEF MovedAs, Unraced
        <3> QED BY <2>1, <3>1, <3>2
    <2>2. CASE y # name
        <3>1. y \in DOMAIN ledger \ {e, name} /\ ledger'[y].cred = ledger[y].cred
            BY <1>2, <2>2 DEF MovedAs, Unraced
        <3> QED BY <1>1, <2>2, <3>1
    <2> QED BY <2>1, <2>2
<1>3. z \in DOMAIN ledger'
    BY <1>1 DEF MovedAs, Unraced
<1> QED BY <1>2, <1>3 DEF OneOwner

LEMMA MovedLedger ==
    ASSUME NEW e, NEW name, MovedAs(e, name), LedgerOwn PROVE LedgerOwn'
<1>1. OneOwner("ann")' /\ OneOwner("bob")'
    BY MovedOwner DEF LedgerOwn
<1>2. ASSUME NEW y \in DOMAIN ledger' PROVE ledger'[y].cred # ""
    <2>1. CASE y = name
        BY <2>1 DEF MovedAs, LedgerOwn, Unraced
    <2>2. CASE y # name
        BY <1>2, <2>2 DEF MovedAs, LedgerOwn, Unraced
    <2> QED BY <2>1, <2>2
<1> QED BY <1>1, <1>2 DEF LedgerOwn, OneOwner

LEMMA MovedCopies ==
    ASSUME NEW e, NEW name, MovedAs(e, name), events \subseteq events', CopiesTrue,
           hydrations' = hydrations, toggles' \subseteq toggles
    PROVE  CopiesTrue'
<1>1. ASSUME NEW h \in hydrations'
      PROVE  /\ h.email # "nobody" /\ Named(h.email)'
             /\ h.full \in {ClEdit!Unread, ClEdit!NoRecord} \/ Agrees(h.email, h.full)'
    <2>1. h.email # "nobody" /\ Named(h.email)
        BY DEF CopiesTrue
    <2>2. Named(h.email)'
        BY <2>1 DEF Named, MovedAs, Unraced
    <2>3. h.full \in {ClEdit!Unread, ClEdit!NoRecord} \/ Agrees(h.email, h.full)
        BY DEF CopiesTrue
    <2> QED BY <2>1, <2>2, <2>3, MovedAgrees
<1>2. ASSUME NEW p \in toggles' PROVE Named(p.email)' /\ Agrees(p.email, p)'
    BY MovedAgrees DEF CopiesTrue
<1> QED BY <1>1, <1>2 DEF CopiesTrue, Named, Agrees, Unraced

\* Storing a copy that agrees moves the client.
LEMMA StoredMoves ==
    ASSUME LedgerTyped, NEW e \in DOMAIN ledger, NEW p, p.email \in {e, "cyd"} \ (DOMAIN ledger \ {e}),
           ledger[e].cred # "", Agrees(e, p), ledger' = ClEdit!withRecord(e, p)
    PROVE  MovedAs(e, p.email)
<1> DEFINE led == ClEdit!withRecord(e, p)
<1>1. /\ DOMAIN led = (DOMAIN ledger \ {e}) \cup {p.email}
      /\ \A x \in DOMAIN ledger \ {e, p.email} : led[x] = ledger[x]
      /\ \/ led[p.email].cred = ledger[e].cred /\ led[p.email].note = ledger[e].note
         \/ led[p.email].cred = ClEdit!stored(p).cred /\ led[p.email].note = ClEdit!stored(p).note
    BY RecordSays, Zenon
<1>2. ClEdit!stored(p).cred = p.cred /\ ClEdit!stored(p).note = p.note
    BY DEF Agrees, ClEdit!stored
<1>3. ledger' = led
    OBVIOUS
<1> HIDE DEF led
<1> QED BY <1>1, <1>2, <1>3 DEF MovedAs, Agrees

LEMMA OnSetMoves ==
    ASSUME LedgerTyped, NEW e \in DOMAIN ledger, NEW S, ledger' = [ledger EXCEPT ![e].on = S]
    PROVE  MovedAs(e, e)
<1> DEFINE r == ledger[e]
           rec == [r EXCEPT !.on = S]
<1>1. r = [cred |-> r.cred, note |-> r.note, enable |-> r.enable, on |-> r.on]
    BY DEF LedgerTyped, IsRec
<1>2. rec.cred = r.cred /\ rec.note = r.note
    BY <1>1
<1>3. ledger' = [ledger EXCEPT ![e] = rec]
    OBVIOUS
<1> HIDE DEF rec
<1>4. DOMAIN ledger' = DOMAIN ledger /\ ledger'[e] = rec /\ \A x \in DOMAIN ledger : x # e => ledger'[x] = ledger[x]
    BY <1>3
<1> QED BY <1>2, <1>4 DEF MovedAs, Unraced

-----------------------------------------------------------------------------
(* The form's client and its addresses *)

LEMMA OwnStill ==
    ASSUME FormOwn, UNCHANGED <<fmode, fclient, ips, ipLoads>>, fopen' => fopen, events \subseteq events',
           \A h \in hydrations' : \E g \in hydrations : g.kind = h.kind
    PROVE  FormOwn'
    BY DEF FormOwn, ClEdit!FormOfOneClient, ClEdit!isEdit

LEMMA OpensOwn ==
    ASSUME FormOwn, ClEdit!onAdd \/ \E e \in ClEdit!Emails : ClEdit!onEdit(e) \/ ClEdit!onToggleEnable(e)
    PROVE  FormOwn'
<1>1. CASE ClEdit!onAdd
    <2>1. /\ fclient' = "nobody" /\ hydrations' = hydrations
          /\ (\E h \in hydrations : h.kind = "edit") => "overtaken" \in events'
        BY <1>1 DEF ClEdit!onAdd
    <2> QED BY <2>1 DEF FormOwn, ClEdit!FormOfOneClient, ClEdit!isEdit
<1>2. ASSUME NEW e, ClEdit!onEdit(e) PROVE FormOwn'
    <2>1. fmode' = "edit" /\ ~fopen'
        BY <1>2 DEF ClEdit!onEdit
    <2> QED BY <2>1 DEF FormOwn, ClEdit!FormOfOneClient
<1>3. ASSUME NEW e, ClEdit!onToggleEnable(e) PROVE FormOwn'
    <2>1. ~fopen' /\ UNCHANGED <<fmode, fclient, events>>
        BY <1>3 DEF ClEdit!onToggleEnable, ClEdit!formVars
    <2>0. ClEdit!hydrate("toggle", e, ~ledger[e].enable)
        BY <1>3 DEF ClEdit!onToggleEnable
    <2>2. PICK r : hydrations' = hydrations \cup {r} /\ r.kind = "toggle"
        BY <2>0, HydrateAdds
    <2> QED BY <2>1, <2>2 DEF FormOwn, ClEdit!FormOfOneClient
<1> QED BY <1>1, <1>2, <1>3

LEMMA ArrivesOwn == ASSUME FormOwn, NEW h \in hydrations, ClEdit!EditArrives(h) PROVE FormOwn'
<1>1. /\ h.kind = "edit" /\ hydrations' = hydrations \ {h} /\ fmode' = fmode /\ ips' = ips
      /\ fclient' = h.email /\ events \subseteq events'
      /\ fopen => "crossed" \in events'
      /\ ~fopen /\ fmode = "edit" => ipLoads' = ipLoads \cup {h.email}
    BY DEF ClEdit!EditArrives, ClEdit!loadIps
<1>2. fmode = "add" => "overtaken" \in events'
    BY <1>1 DEF FormOwn
<1>3. ClEdit!FormOfOneClient'
    BY <1>1, <1>2 DEF ClEdit!FormOfOneClient, ClEdit!isEdit
<1> QED BY <1>1, <1>2, <1>3 DEF FormOwn

LEMMA AddressesOwn ==
    ASSUME FormOwn, ClEdit!clearIps \/ \E e \in ClEdit!Emails : ClEdit!ipsArrive(e)
    PROVE  FormOwn'
<1>1. CASE ClEdit!clearIps
    <2>1. ips' = "nobody" /\ UNCHANGED <<fmode, fopen, fclient, hydrations, ipLoads, events>>
        BY <1>1 DEF ClEdit!clearIps, ClEdit!formVars
    <2> QED BY <2>1 DEF FormOwn, ClEdit!FormOfOneClient, ClEdit!isEdit
<1>2. ASSUME NEW e, ClEdit!ipsArrive(e) PROVE FormOwn'
    <2>1. /\ ipLoads' = ipLoads \ {e} /\ ips' \in {e, "nobody"}
          /\ events \subseteq events' /\ (e # fclient => "lateIps" \in events')
          /\ UNCHANGED <<fmode, fopen, fclient, hydrations>>
        BY <1>2 DEF ClEdit!ipsArrive, ClEdit!formVars
    <2> QED BY <2>1 DEF FormOwn, ClEdit!FormOfOneClient, ClEdit!isEdit
<1> QED BY <1>1, <1>2

LEMMA NextOwn == ASSUME FormOwn, ClientTyped, [ClEdit!Next]_cleditVars PROVE FormOwn'
<1>1. ASSUME ClEdit!EditFields \/ ClEdit!closeForm \/ ClEdit!onSubmit
               \/ (\E e \in ClEdit!Emails : ClEdit!OtherAdminEdits(e)) \/ (\E p \in toggles : ClEdit!ToggleStored(p))
      PROVE  FormOwn'
    <2>1. /\ UNCHANGED <<fmode, fclient, ips, ipLoads, hydrations>> /\ events \subseteq events'
          /\ fopen' => fopen
        BY <1>1 DEF ClEdit!EditFields, ClEdit!closeForm, ClEdit!onSubmit, ClEdit!OtherAdminEdits, ClEdit!ToggleStored,
                    ClEdit!formVars
    <2> QED BY <2>1, OwnStill
<1>2. CASE ClEdit!CreateStored \/ ClEdit!UpdateStored \/ ClEdit!AttachStored \/ ClEdit!DetachStored \/ ClEdit!SaveRefused
    <2>1. /\ UNCHANGED <<fmode, fclient, ips, ipLoads, hydrations>> /\ events \subseteq events'
        BY <1>2 DEF ClEdit!CreateStored, ClEdit!UpdateStored, ClEdit!AttachStored, ClEdit!DetachStored, ClEdit!SaveRefused,
                    ClEdit!restOfSave
    <2>2. fopen' => fopen
        BY <1>2 DEF ClEdit!CreateStored, ClEdit!UpdateStored, ClEdit!AttachStored, ClEdit!DetachStored, ClEdit!SaveRefused,
                    ClEdit!afterUpdate, ClEdit!afterAttach, ClEdit!saveContinues, ClEdit!saveSucceeds
    <2> QED BY <2>1, <2>2, OwnStill
<1>3. ASSUME NEW h \in hydrations, ClEdit!HydrateRead(h) \/ ClEdit!HydrateLost(h) \/ ClEdit!ToggleArrives(h)
      PROVE  FormOwn'
    <2>1. UNCHANGED <<fmode, fclient, fopen, ips, ipLoads, events>>
        BY <1>3 DEF ClEdit!HydrateRead, ClEdit!HydrateLost, ClEdit!ToggleArrives, ClEdit!formVars
    <2>2. \/ hydrations' = hydrations \ {h}
          \/ \E full : hydrations' = (hydrations \ {h}) \cup {[h EXCEPT !.full = full]}
        BY <1>3 DEF ClEdit!HydrateRead, ClEdit!HydrateLost, ClEdit!ToggleArrives
    <2>3. \A g \in hydrations' : \E k \in hydrations : k.kind = g.kind
        BY <2>2, ReadIs DEF ClientTyped
    <2> QED BY <2>1, <2>3, OwnStill
<1>4. CASE UNCHANGED cleditVars
    BY <1>4, OwnStill DEF cleditVars
<1> QED
    BY <1>1, <1>2, <1>3, <1>4, OpensOwn, ArrivesOwn, AddressesOwn DEF ClEdit!Next

-----------------------------------------------------------------------------
(* The copies and the ledger *)

\* The ledger is as before, and so is each copy that was read.
LEMMA KnownSame ==
    ASSUME CredentialsTrue, ledger' = ledger, events \subseteq events', overwritten' = overwritten
    PROVE  /\ LedgerOwn' /\ (overwritten' # {} => ~Unraced')
           /\ \A x : Named(x) => Named(x)'
           /\ \A x, r : Agrees(x, r) => Agrees(x, r)'
<1>1. LedgerOwn'
    <2>1. LedgerOwn
        BY DEF CredentialsTrue, Unraced
    <2>2. ASSUME NEW k, OneOwner(k) PROVE OneOwner(k)'
        BY <2>2 DEF OneOwner
    <2> QED BY <2>1, <2>2 DEF LedgerOwn
<1>2. \A x : Named(x) => Named(x)'
    BY DEF Named
<1>3. \A x, r : Agrees(x, r) => Agrees(x, r)'
    BY DEF Agrees, Unraced
<1>4. overwritten' # {} => ~Unraced'
    BY DEF CredentialsTrue, Unraced
<1> QED BY <1>1, <1>2, <1>3, <1>4

LEMMA KnownStill ==
    ASSUME LedgerKnown, events \subseteq events', ledger' = ledger, overwritten' = overwritten,
           UNCHANGED <<fmode, fopen, fclient, fields, hydrations, toggles, saving>>
    PROVE  LedgerKnown'
<1> SUFFICES ASSUME Uncrossed' PROVE CredentialsTrue'
    BY DEF LedgerKnown
<1>1. CredentialsTrue
    BY DEF LedgerKnown, Uncrossed
<1>2. /\ LedgerOwn' /\ (overwritten' # {} => ~Unraced')
      /\ \A x : Named(x) => Named(x)'
      /\ \A x, r : Agrees(x, r) => Agrees(x, r)'
    BY <1>1, KnownSame
<1>3. CopiesTrue'
    BY <1>1, <1>2 DEF CredentialsTrue, CopiesTrue, Unraced
<1>4. FormTrue' /\ SaveTrue'
    BY <1>1, <1>2 DEF CredentialsTrue, FormTrue, SaveTrue, ClEdit!isEdit, Unraced
<1> QED BY <1>2, <1>3, <1>4 DEF CredentialsTrue, Unraced

LEMMA FormActsKnown ==
    ASSUME ClientTyped, LedgerKnown, ClEdit!onAdd \/ ClEdit!EditFields \/ ClEdit!closeForm \/ ClEdit!onSubmit
    PROVE  LedgerKnown'
<1>1. ledger' = ledger /\ events \subseteq events' /\ overwritten' = overwritten /\ UNCHANGED <<hydrations, toggles>>
    BY DEF ClEdit!onAdd, ClEdit!EditFields, ClEdit!closeForm, ClEdit!onSubmit, ClEdit!formVars
<1> SUFFICES ASSUME Uncrossed' PROVE CredentialsTrue'
    BY DEF LedgerKnown
<1>2. CredentialsTrue
    BY <1>1 DEF LedgerKnown, Uncrossed
<1>3. /\ LedgerOwn' /\ (overwritten' # {} => ~Unraced')
      /\ \A x : Named(x) => Named(x)'
      /\ \A x, r : Agrees(x, r) => Agrees(x, r)'
    BY <1>1, <1>2, KnownSame
<1>4. CopiesTrue'
    BY <1>1, <1>2, <1>3 DEF CredentialsTrue, CopiesTrue, Agrees, Named, Unraced
<1>5. FormTrue' /\ SaveTrue'
    <2>1. CASE ClEdit!onAdd
        <3>1. fopen = FALSE /\ fclient' = "nobody" /\ fields' = ClEdit!emptyForm /\ saving' = saving
            BY <2>1 DEF ClEdit!onAdd
        <3>2. fields'.email = "cyd" /\ fields'.cred \in {"drawn", "redrawn"}
            BY <3>1, EmptySays
        <3>3. saving = ClEdit!NoRecord
            BY <3>1 DEF ClientTyped, SaveTyped
        <3> QED BY <3>1, <3>2, <3>3 DEF FormTrue, SaveTrue, ClEdit!isEdit
    <2>2. CASE ClEdit!EditFields
        <3>1. fopen /\ UNCHANGED <<fopen, fmode, fclient, saving, events>> /\ saving = ClEdit!NoRecord
            BY <2>2 DEF ClEdit!EditFields
        <3>2. fields = [email |-> fields.email, cred |-> fields.cred, note |-> fields.note, enable |-> fields.enable, on |-> fields.on]
            BY DEF ClientTyped, FormTyped
        <3>3. /\ fields'.cred = fields.cred /\ fields'.email \in {fields.email, "cyd"}
              /\ fields'.note = "theirs" <=> fields.note = "theirs"
            <4>1. CASE fields.note = "old" /\ fields' = [fields EXCEPT !.note = "mine"]
                BY <3>2, <4>1
            <4>2. CASE fields' = [fields EXCEPT !.email = "cyd"]
                BY <3>2, <4>2
            <4>3. CASE \E i \in ClEdit!Inbounds : fields' = [fields EXCEPT !.on = IF i \in @ THEN @ \ {i} ELSE @ \cup {i}]
                BY <3>2, <4>3
            <4> QED BY <2>2, <4>1, <4>2, <4>3 DEF ClEdit!EditFields
        <3> QED BY <1>1, <1>2, <3>1, <3>3 DEF CredentialsTrue, FormTrue, SaveTrue, Agrees, Named, ClEdit!isEdit, Unraced
    <2>3. CASE ClEdit!closeForm
        <3>1. ~fopen' /\ saving' = ClEdit!NoRecord
            BY <2>3 DEF ClEdit!closeForm
        <3> QED BY <3>1 DEF FormTrue, SaveTrue
    <2>4. CASE ClEdit!onSubmit
        <3>1. /\ UNCHANGED <<fopen, fmode, fclient, fields>>
              /\ saving' = IF ClEdit!isEdit
                           THEN [call |-> "update", email |-> fclient, payload |-> fields,
                                 attach |-> fields.on \ fattached, detach |-> fattached \ fields.on]
                           ELSE [call |-> "create", email |-> "nobody", payload |-> fields, attach |-> {}, detach |-> {}]
            BY <2>4 DEF ClEdit!onSubmit, ClEdit!formVars
        <3>2. ClEdit!isEdit' <=> ClEdit!isEdit
            BY <3>1 DEF ClEdit!isEdit
        <3>3. SaveTrue'
            BY <3>1, <3>2 DEF SaveTrue
        <3>4. FormTrue'
            BY <1>2, <1>3, <3>1, <3>2 DEF CredentialsTrue, FormTrue, Unraced
        <3> QED BY <3>3, <3>4
    <2> QED BY <2>1, <2>2, <2>3, <2>4
<1> QED BY <1>3, <1>4, <1>5 DEF CredentialsTrue, Unraced

LEMMA AskKnown ==
    ASSUME LedgerKnown, NEW kind, NEW e \in ClEdit!Emails \cap DOMAIN ledger, NEW next, ClEdit!hydrate(kind, e, next), ~fopen,
           ClientTyped, UNCHANGED <<ledger, fopen, fclient, fields, toggles, saving, overwritten, events>>
    PROVE  LedgerKnown'
<1> SUFFICES ASSUME Uncrossed' PROVE CredentialsTrue'
    BY DEF LedgerKnown
<1>2. CredentialsTrue
    BY DEF LedgerKnown, Uncrossed
<1>3. /\ LedgerOwn' /\ (overwritten' # {} => ~Unraced')
      /\ \A x : Named(x) => Named(x)'
      /\ \A x, r : Agrees(x, r) => Agrees(x, r)'
    BY <1>2, KnownSame
<1>4. PICK r : hydrations' = hydrations \cup {r} /\ r.kind = kind /\ r.email = e /\ r.full = ClEdit!Unread
    BY HydrateAdds
<1>5. e # "nobody" /\ Named(e)
    BY DEF ClEdit!Emails, Named
<1>6. CopiesTrue'
    BY <1>2, <1>3, <1>4, <1>5 DEF CredentialsTrue, CopiesTrue, Agrees, Named, Unraced
<1>7. FormTrue' /\ SaveTrue'
    BY DEF FormTrue, SaveTrue, ClientTyped, SaveTyped
<1> QED BY <1>3, <1>6, <1>7 DEF CredentialsTrue, Unraced

LEMMA HydrateKnown ==
    ASSUME ClientTyped, LedgerKnown, NEW h \in hydrations,
           ClEdit!HydrateRead(h) \/ ClEdit!HydrateLost(h) \/ ClEdit!ToggleArrives(h)
    PROVE  LedgerKnown'
<1>1. ledger' = ledger /\ UNCHANGED <<fopen, fmode, fclient, fields, saving, overwritten, events>>
    BY DEF ClEdit!HydrateRead, ClEdit!HydrateLost, ClEdit!ToggleArrives, ClEdit!formVars
<1> SUFFICES ASSUME Uncrossed' PROVE CredentialsTrue'
    BY DEF LedgerKnown
<1>2. CredentialsTrue
    BY <1>1 DEF LedgerKnown, Uncrossed
<1>3. /\ LedgerOwn' /\ (overwritten' # {} => ~Unraced')
      /\ \A x : Named(x) => Named(x)'
      /\ \A x, r : Agrees(x, r) => Agrees(x, r)'
    BY <1>1, <1>2, KnownSame
<1>4. FormTrue' /\ SaveTrue'
    BY <1>1, <1>2, <1>3 DEF CredentialsTrue, FormTrue, SaveTrue, ClEdit!isEdit, Unraced
<1>5. ASSUME NEW full, hydrations' = (hydrations \ {h}) \cup {[h EXCEPT !.full = full]}, toggles' = toggles,
             full = ClEdit!NoRecord \/ (h.email \in DOMAIN ledger /\ full = ledger[h.email])
      PROVE  CopiesTrue'
    <2> DEFINE r == [h EXCEPT !.full = full]
    <2>1. r.email = h.email /\ r.full = full
        BY ReadIs DEF ClientTyped
    <2>2. full = ClEdit!NoRecord \/ Agrees(h.email, full)
        BY <1>5 DEF Agrees, Unraced
    <2>3. hydrations' = (hydrations \ {h}) \cup {r}
        BY <1>5
    <2> HIDE DEF r
    <2>4. ASSUME NEW g \in hydrations'
          PROVE  /\ g.email # "nobody" /\ Named(g.email)'
                 /\ g.full \in {ClEdit!Unread, ClEdit!NoRecord} \/ Agrees(g.email, g.full)'
        <3>1. CASE g \in hydrations
            BY <1>2, <1>3, <3>1 DEF CredentialsTrue, CopiesTrue, Unraced
        <3>2. CASE g = r
            BY <1>2, <1>3, <2>1, <2>2, <3>2 DEF CredentialsTrue, CopiesTrue, Unraced
        <3> QED BY <2>3, <3>1, <3>2
    <2> QED BY <1>2, <1>3, <1>5, <2>4 DEF CredentialsTrue, CopiesTrue, Named, Agrees, Unraced
<1>6. CASE ClEdit!HydrateRead(h)
    <2> DEFINE full == IF h.email \in DOMAIN ledger THEN ledger[h.email] ELSE ClEdit!NoRecord
    <2>1. hydrations' = (hydrations \ {h}) \cup {[h EXCEPT !.full = full]} /\ toggles' = toggles
        BY <1>6 DEF ClEdit!HydrateRead
    <2>2. full = ClEdit!NoRecord \/ (h.email \in DOMAIN ledger /\ full = ledger[h.email])
        OBVIOUS
    <2> HIDE DEF full
    <2> QED BY <1>3, <1>4, <1>5, <2>1, <2>2 DEF CredentialsTrue, Unraced
<1>7. CASE ClEdit!HydrateLost(h)
    <2>1. hydrations' = (hydrations \ {h}) \cup {[h EXCEPT !.full = ClEdit!NoRecord]} /\ toggles' = toggles
        BY <1>7 DEF ClEdit!HydrateLost
    <2> QED BY <1>3, <1>4, <1>5, <2>1 DEF CredentialsTrue, Unraced
<1>8. CASE ClEdit!ToggleArrives(h)
    <2> DEFINE p == ClEdit!setEnablePayload(h)
    <2>1. /\ hydrations' = hydrations \ {h} /\ h.full # ClEdit!Unread
          /\ toggles' = IF h.full = ClEdit!NoRecord THEN toggles ELSE toggles \cup {p}
        BY <1>8 DEF ClEdit!ToggleArrives
    <2>2. p.email = h.email /\ p.cred = h.full.cred /\ p.note = h.full.note
        BY DEF ClEdit!setEnablePayload
    <2> HIDE DEF p
    <2>3. h.full # ClEdit!NoRecord => Named(p.email) /\ Agrees(p.email, p)
        BY <1>2, <2>1, <2>2 DEF CredentialsTrue, CopiesTrue, Agrees, Unraced
    <2>4. CopiesTrue'
        BY <1>2, <1>3, <2>1, <2>3 DEF CredentialsTrue, CopiesTrue, Unraced
    <2> QED BY <1>3, <1>4, <2>4 DEF CredentialsTrue, Unraced
<1> QED BY <1>6, <1>7, <1>8

LEMMA EditArrivesKnown == ASSUME ClientTyped, LedgerKnown, NEW h \in hydrations, ClEdit!EditArrives(h) PROVE LedgerKnown'
<1>1. /\ ledger' = ledger /\ events \subseteq events' /\ UNCHANGED <<fmode, toggles, saving, overwritten>>
      /\ hydrations' = hydrations \ {h} /\ fclient' = h.email /\ h.full # ClEdit!Unread
      /\ fopen => "crossed" \in events'
      /\ h.full = ClEdit!NoRecord => "unread" \in events'
      /\ ~fopen /\ h.full # ClEdit!NoRecord =>
            fields' = IF fmode = "edit" THEN ClEdit!fieldsOf(h.email, h.full) ELSE ClEdit!emptyForm
    BY DEF ClEdit!EditArrives
<1> SUFFICES ASSUME Uncrossed' PROVE CredentialsTrue'
    BY DEF LedgerKnown
<1>2. CredentialsTrue /\ ~fopen /\ h.full # ClEdit!NoRecord
    BY <1>1 DEF LedgerKnown, Uncrossed
<1>3. /\ LedgerOwn' /\ (overwritten' # {} => ~Unraced')
      /\ \A x : Named(x) => Named(x)'
      /\ \A x, r : Agrees(x, r) => Agrees(x, r)'
    BY <1>1, <1>2, KnownSame
<1>4. CopiesTrue'
    BY <1>1, <1>2, <1>3 DEF CredentialsTrue, CopiesTrue, Unraced
<1>5. h.email # "nobody" /\ Named(h.email) /\ Agrees(h.email, h.full)
    BY <1>1, <1>2 DEF CredentialsTrue, CopiesTrue, Unraced
<1>6. SaveTrue'
    BY <1>1, <1>2 DEF ClientTyped, SaveTyped, SaveTrue
<1>7. FormTrue'
    <2>1. CASE fmode = "edit"
        <3>1. fields'.email = h.email /\ fields'.cred = h.full.cred /\ fields'.note = h.full.note
            BY <1>1, <1>2, <2>1 DEF ClEdit!fieldsOf
        <3>2. ClEdit!isEdit'
            BY <1>1, <1>5, <2>1 DEF ClEdit!isEdit
        <3>3. Agrees(h.email, fields') 
            BY <1>5, <3>1 DEF Agrees, Unraced
        <3> QED BY <1>1, <1>3, <1>5, <3>1, <3>2, <3>3 DEF FormTrue, Agrees, Unraced
    <2>2. CASE fmode # "edit"
        <3>1. fields'.email = "cyd" /\ fields'.cred \in {"drawn", "redrawn"} /\ ~ClEdit!isEdit'
            BY <1>1, <1>2, <2>2, EmptySays DEF ClEdit!isEdit
        <3> QED BY <3>1 DEF FormTrue
    <2> QED BY <2>1, <2>2
<1> QED BY <1>3, <1>4, <1>6, <1>7 DEF CredentialsTrue, Unraced

\* Another administrator's edit touches no copy, but for a race.
LEMMA OtherAdminKnown ==
    ASSUME ClientTyped, LedgerKnown, NEW e, ClEdit!OtherAdminEdits(e) PROVE LedgerKnown'
<1>1. /\ e \in DOMAIN ledger /\ ledger' = [ledger EXCEPT ![e].note = "theirs"]
      /\ events' = IF ClEdit!Read(e) THEN events \cup {"raced"} ELSE events
      /\ UNCHANGED <<fmode, fopen, fclient, fields, hydrations, toggles, saving, overwritten>>
    BY DEF ClEdit!OtherAdminEdits, ClEdit!formVars
<1> DEFINE r == ledger[e]
           rec == [r EXCEPT !.note = "theirs"]
<1>2. r = [cred |-> r.cred, note |-> r.note, enable |-> r.enable, on |-> r.on]
    BY <1>1 DEF ClientTyped, LedgerTyped, IsRec
<1>3. rec.cred = r.cred
    BY <1>2
<1>4. ledger' = [ledger EXCEPT ![e] = rec]
    BY <1>1
<1> HIDE DEF rec
<1>5. DOMAIN ledger' = DOMAIN ledger /\ ledger'[e].cred = ledger[e].cred
      /\ \A x \in DOMAIN ledger : x # e => ledger'[x] = ledger[x]
    BY <1>1, <1>3, <1>4
<1> SUFFICES ASSUME Uncrossed' PROVE CredentialsTrue'
    BY DEF LedgerKnown
<1>6. CredentialsTrue
    BY <1>1 DEF LedgerKnown, Uncrossed
<1>7. LedgerOwn'
    <2>1. LedgerOwn
        BY <1>6 DEF CredentialsTrue, Unraced
    <2>2. \A x \in DOMAIN ledger : ledger'[x].cred = ledger[x].cred
        BY <1>5
    <2>3. ASSUME NEW k, OneOwner(k) PROVE OneOwner(k)'
        BY <1>5, <2>2, <2>3 DEF OneOwner
    <2> QED BY <1>5, <2>1, <2>2, <2>3 DEF LedgerOwn
<1>8. \A x : Named(x) => Named(x)'
    BY <1>5 DEF Named
<1>9. \A x, c : Agrees(x, c) /\ (x = e => ClEdit!Read(e)) => Agrees(x, c)'
    <2> SUFFICES ASSUME NEW x, NEW c, Agrees(x, c), x = e => ClEdit!Read(e) PROVE Agrees(x, c)'
        OBVIOUS
    <2>1. CASE x = e
        BY <1>1, <1>5, <2>1 DEF Agrees, Unraced
    <2>2. CASE x # e
        BY <1>1, <1>5, <2>2 DEF Agrees, Unraced
    <2> QED BY <2>1, <2>2
<1>10. CopiesTrue'
    <2>1. \A h \in hydrations : h.email = e /\ h.full # ClEdit!Unread => ClEdit!Read(e)
        BY DEF ClEdit!Read
    <2>2. \A p \in toggles : p.email = e => ClEdit!Read(e)
        BY DEF ClEdit!Read
    <2> QED BY <1>1, <1>6, <1>8, <1>9, <2>1, <2>2 DEF CredentialsTrue, CopiesTrue, Unraced
<1>11. FormTrue' /\ SaveTrue'
    <2>1. fopen /\ fclient = e => ClEdit!Read(e)
        BY DEF ClEdit!Read
    <2>2. ClEdit!isEdit' <=> ClEdit!isEdit
        BY <1>1 DEF ClEdit!isEdit
    <2>3. fopen /\ ClEdit!isEdit => Agrees(fclient, fields)'
        BY <1>1, <1>6, <1>9, <2>1 DEF CredentialsTrue, FormTrue, Unraced
    <2> QED BY <1>1, <1>6, <1>8, <2>2, <2>3 DEF CredentialsTrue, FormTrue, SaveTrue, Unraced
<1>12. overwritten' # {} => ~Unraced'
    BY <1>1, <1>6 DEF CredentialsTrue, Unraced
<1> QED BY <1>7, <1>10, <1>11, <1>12 DEF CredentialsTrue, Unraced

\* A client is stored or moved, the form closes or stays with its save, and what it writes over was raced.
LEMMA MovedKnown ==
    ASSUME CredentialsTrue, NEW e, NEW name, MovedAs(e, name), events \subseteq events',
           hydrations' = hydrations, toggles' \subseteq toggles, UNCHANGED <<fmode, fclient, fields>>, fopen' => fopen,
           \/ saving' = ClEdit!NoRecord
           \/ saving # ClEdit!NoRecord /\ saving'.email = saving.email /\ (saving'.call = "create" <=> saving.call = "create"),
           overwritten' = overwritten \/ ~Unraced
    PROVE  CredentialsTrue'
<1>1. LedgerOwn' /\ CopiesTrue'
    BY MovedLedger, MovedCopies DEF CredentialsTrue, Unraced
<1>2. FormTrue' 
    <2>1. ASSUME fopen, ClEdit!isEdit PROVE Named(fclient)' /\ Agrees(fclient, fields)'
        BY <2>1, MovedAgrees DEF CredentialsTrue, FormTrue, Unraced
    <2> QED BY <2>1 DEF CredentialsTrue, FormTrue, ClEdit!isEdit, Unraced
<1>3. SaveTrue'
    BY DEF CredentialsTrue, SaveTrue, ClEdit!isEdit, Unraced
<1>4. overwritten' # {} => ~Unraced'
    BY DEF CredentialsTrue, Unraced
<1> QED BY <1>1, <1>2, <1>3, <1>4 DEF CredentialsTrue, Unraced

\* What is written over by a copy that agrees was edited in a race.
LEMMA WrittenRaced ==
    ASSUME NEW e \in DOMAIN ledger, NEW p, Agrees(e, p)
    PROVE  ClEdit!written(e, p) = overwritten \/ ~Unraced
    BY DEF Agrees, ClEdit!written, Unraced

LEMMA ToggleKnown == ASSUME ClientTyped, LedgerKnown, NEW p \in toggles, ClEdit!ToggleStored(p) PROVE LedgerKnown'
<1>1. /\ toggles' = toggles \ {p} /\ UNCHANGED <<fmode, fopen, fclient, fields, hydrations, saving, events>>
      /\ \/ UNCHANGED <<ledger, overwritten>>
         \/ /\ ClEdit!UpdateStores(p.email, p) /\ ledger' = ClEdit!withRecord(p.email, p)
            /\ overwritten' = ClEdit!written(p.email, p)
    BY DEF ClEdit!ToggleStored, ClEdit!formVars
<1> SUFFICES ASSUME Uncrossed' PROVE CredentialsTrue'
    BY DEF LedgerKnown
<1>2. CredentialsTrue
    BY <1>1 DEF LedgerKnown, Uncrossed
<1>3. CASE UNCHANGED <<ledger, overwritten>>
    <2>1. /\ LedgerOwn' /\ (overwritten' # {} => ~Unraced')
          /\ \A x : Named(x) => Named(x)'
          /\ \A x, r : Agrees(x, r) => Agrees(x, r)'
        BY <1>1, <1>2, <1>3, KnownSame
    <2>2. CopiesTrue' /\ FormTrue' /\ SaveTrue'
        BY <1>1, <1>2, <2>1 DEF CredentialsTrue, CopiesTrue, FormTrue, SaveTrue, ClEdit!isEdit, Unraced
    <2> QED BY <2>1, <2>2 DEF CredentialsTrue, Unraced
<1>4. CASE ClEdit!UpdateStores(p.email, p) /\ ledger' = ClEdit!withRecord(p.email, p) /\ overwritten' = ClEdit!written(p.email, p)
    <2> DEFINE e == p.email
    <2>1. e \in DOMAIN ledger
        BY <1>4 DEF ClEdit!UpdateStores, ClEdit!UpdateRefused
    <2>2. Agrees(e, p) /\ ledger[e].cred # ""
        BY <1>2, <2>1 DEF CredentialsTrue, CopiesTrue, LedgerOwn, Unraced
    <2>3. MovedAs(e, p.email)
        BY <1>4, <2>1, <2>2, StoredMoves DEF ClientTyped
    <2>4. overwritten' = overwritten \/ ~Unraced
        BY <1>4, <2>1, <2>2, WrittenRaced
    <2>5. \/ saving' = ClEdit!NoRecord
          \/ saving # ClEdit!NoRecord /\ saving'.email = saving.email /\ (saving'.call = "create" <=> saving.call = "create")
        BY <1>1
    <2> HIDE DEF e
    <2> QED BY <1>1, <1>2, <2>3, <2>4, <2>5, MovedKnown
<1> QED BY <1>1, <1>3, <1>4

\* A client is created, or sent once more after it was half stored, with the credentials it then has.
LEMMA CreatedKnown ==
    ASSUME ClientTyped, CredentialsTrue, fopen, ~ClEdit!isEdit, NEW some, NEW p, p = fields,
           ClEdit!mayCreate(p), ledger' = ClEdit!created(p, some), events \subseteq events',
           "cyd" \notin DOMAIN ledger \/ ~Unraced', UNCHANGED <<hydrations, toggles>>
    PROVE  LedgerOwn' /\ CopiesTrue'
<1>1. p.email = "cyd" /\ p.cred \in {"drawn", "redrawn"}
    BY DEF CredentialsTrue, FormTrue
<1> DEFINE cyd == "cyd"
<1>2. /\ DOMAIN ledger' = DOMAIN ledger \cup {cyd} /\ ledger'[cyd].cred = p.cred
      /\ \A x \in DOMAIN ledger : x # cyd => ledger'[x] = ledger[x]
    BY <1>1, CreatedSays DEF ClientTyped
<1>3. cyd \in DOMAIN ledger => ledger[cyd].cred = p.cred
    BY <1>1 DEF ClEdit!mayCreate
<1>4. LedgerOwn'
    <2>1. LedgerOwn
        BY DEF CredentialsTrue
    <2>2. ASSUME NEW k \in {"ann", "bob"}, OneOwner(k) PROVE OneOwner(k)'
        <3>1. PICK x \in DOMAIN ledger : \A y \in DOMAIN ledger : ledger[y].cred = k <=> y = x
            BY <2>2 DEF OneOwner
        <3>2. x # cyd
            BY <1>1, <1>3, <3>1
        <3>3. \A y \in DOMAIN ledger' : ledger'[y].cred = k <=> y = x
            BY <1>1, <1>2, <3>1, <3>2
        <3> QED BY <1>2, <3>3 DEF OneOwner
    <2>3. \A x \in DOMAIN ledger' : ledger'[x].cred # ""
        BY <1>1, <1>2, <2>1 DEF LedgerOwn
    <2> QED BY <2>1, <2>2, <2>3 DEF LedgerOwn, OneOwner
<1>5. \A x : Named(x) => Named(x)'
    BY <1>2 DEF Named
<1>6. ASSUME NEW x, NEW c, Named(x), Agrees(x, c) PROVE Agrees(x, c)'
    <2>1. CASE x = cyd
        <3>1. x \in DOMAIN ledger
            BY <1>6, <2>1 DEF Named
        <3>2. ~Unraced'
            BY <2>1, <3>1
        <3> QED BY <1>2, <1>3, <1>6, <2>1, <3>1, <3>2 DEF Agrees
    <2>2. CASE x # cyd
        <3>1. x \in DOMAIN ledger' => x \in DOMAIN ledger /\ ledger'[x] = ledger[x]
            BY <1>2, <2>2
        <3>2. Unraced' => Unraced
            BY DEF Unraced
        <3> QED BY <1>6, <3>1, <3>2 DEF Agrees
    <2> QED BY <2>1, <2>2
<1>7. CopiesTrue'
    <2>1. CopiesTrue
        BY DEF CredentialsTrue
    <2>2. ASSUME NEW h \in hydrations'
          PROVE  /\ h.email # "nobody" /\ Named(h.email)'
                 /\ h.full \in {ClEdit!Unread, ClEdit!NoRecord} \/ Agrees(h.email, h.full)'
        BY <1>5, <1>6, <2>1 DEF CopiesTrue
    <2>3. ASSUME NEW q \in toggles' PROVE Named(q.email)' /\ Agrees(q.email, q)'
        BY <1>5, <1>6, <2>1 DEF CopiesTrue
    <2> QED BY <2>2, <2>3 DEF CopiesTrue, Named, Agrees
<1> QED BY <1>4, <1>7

LEMMA CreateKnown == ASSUME ClientTyped, DrawnKnown, LedgerKnown, ClEdit!CreateStored PROVE LedgerKnown'
<1> DEFINE p == saving.payload
<1>1. /\ saving # ClEdit!NoRecord /\ saving.call = "create" /\ ClEdit!mayCreate(p)
      /\ ledger' = ClEdit!created(p, p.on) /\ overwritten' = ClEdit!written(p.email, p)
      /\ saving' = ClEdit!NoRecord /\ fopen' = FALSE
      /\ UNCHANGED <<hydrations, toggles, events>>
    BY DEF ClEdit!CreateStored, ClEdit!saveSucceeds, ClEdit!restOfSave
<1> SUFFICES ASSUME Uncrossed' PROVE CredentialsTrue'
    BY DEF LedgerKnown
<1>2. CredentialsTrue
    BY <1>1 DEF LedgerKnown, Uncrossed
<1>3. p = fields /\ fopen /\ ~ClEdit!isEdit
    BY <1>1, <1>2 DEF ClientTyped, SaveTyped, CredentialsTrue, SaveTrue
<1>4. p.email = "cyd"
    BY <1>2, <1>3 DEF CredentialsTrue, FormTrue
<1>5. "cyd" \notin DOMAIN ledger \/ ~Unraced
    <2>1. CASE "partly" \in events
        BY <2>1 DEF Unraced
    <2>2. CASE "partly" \notin events
        <3>1. DrawnTrue
            BY <1>1, <2>2 DEF DrawnKnown, Undisturbed, Uncrossed
        <3> QED BY <1>1, <3>1, CreateIsFirst
    <2> QED BY <2>1, <2>2
<1> HIDE DEF p
<1>6. events \subseteq events' /\ (Unraced' <=> Unraced)
    BY <1>1 DEF Unraced
<1>7. LedgerOwn' /\ CopiesTrue'
    BY <1>1, <1>2, <1>3, <1>5, <1>6, CreatedKnown
<1>8. FormTrue' /\ SaveTrue'
    BY <1>1 DEF FormTrue, SaveTrue
<1>9. overwritten' # {} => ~Unraced'
    BY <1>1, <1>2, <1>4, <1>5, <1>6 DEF CredentialsTrue, ClEdit!written
<1> QED BY <1>7, <1>8, <1>9 DEF CredentialsTrue

\* What an update, an attach and a detach leave of the save.
SaveGoesOn ==
    \/ saving' = ClEdit!NoRecord
    \/ saving # ClEdit!NoRecord /\ saving'.email = saving.email /\ (saving'.call = "create" <=> saving.call = "create")

LEMMA GoesOn ==
    ASSUME ClientTyped, saving # ClEdit!NoRecord, saving.call # "create",
           \/ saving' = [saving EXCEPT !.call = "attach"] \/ saving' = [saving EXCEPT !.call = "detach"]
           \/ saving' = ClEdit!NoRecord
    PROVE  SaveGoesOn
<1>1. IsSave(saving)
    BY DEF ClientTyped, SaveTyped
<1>2. CASE saving' = [saving EXCEPT !.call = "attach"]
    BY <1>1, <1>2, CallSays DEF SaveGoesOn
<1>3. CASE saving' = [saving EXCEPT !.call = "detach"]
    BY <1>1, <1>3, CallSays DEF SaveGoesOn
<1> QED BY <1>2, <1>3 DEF SaveGoesOn

LEMMA UpdateKnown == ASSUME ClientTyped, LedgerKnown, ClEdit!UpdateStored PROVE LedgerKnown'
<1> DEFINE e == saving.email
           p == saving.payload
<1>1. /\ saving # ClEdit!NoRecord /\ saving.call = "update" 
      /\ e \in DOMAIN ledger /\ p.email \notin DOMAIN ledger \ {e}
      /\ ledger' = ClEdit!withRecord(e, p) /\ overwritten' = ClEdit!written(e, p)
      /\ UNCHANGED <<fmode, fclient, fields, hydrations, toggles, events>>
    BY DEF ClEdit!UpdateStored, ClEdit!UpdateStores, ClEdit!UpdateRefused, ClEdit!taken, ClEdit!restOfSave
<1>2. /\ \/ saving' = [saving EXCEPT !.call = "attach"] \/ saving' = [saving EXCEPT !.call = "detach"]
         \/ saving' = ClEdit!NoRecord
      /\ fopen' => fopen
    BY DEF ClEdit!UpdateStored, ClEdit!afterUpdate, ClEdit!saveContinues, ClEdit!saveSucceeds
<1>3. SaveGoesOn
    BY <1>1, <1>2, GoesOn
<1> SUFFICES ASSUME Uncrossed' PROVE CredentialsTrue'
    BY DEF LedgerKnown
<1>4. CredentialsTrue
    BY <1>1 DEF LedgerKnown, Uncrossed
<1>5. fopen /\ p = fields /\ ClEdit!isEdit /\ e = fclient
    BY <1>1, <1>4 DEF ClientTyped, SaveTyped, CredentialsTrue, SaveTrue, Unraced
<1>6. p.email \in {e, "cyd"} /\ Agrees(e, p) /\ ledger[e].cred # ""
    BY <1>1, <1>4, <1>5 DEF CredentialsTrue, FormTrue, LedgerOwn, Unraced
<1> HIDE DEF e, p
<1>7. MovedAs(e, p.email)
    BY <1>1, <1>6, StoredMoves DEF ClientTyped
<1>8. overwritten' = overwritten \/ ~Unraced
    BY <1>1, <1>6, WrittenRaced
<1>9. toggles' \subseteq toggles /\ events \subseteq events' /\ hydrations' = hydrations
    BY <1>1
<1> QED BY <1>1, <1>2, <1>3, <1>4, <1>7, <1>8, <1>9, MovedKnown DEF SaveGoesOn

LEMMA BindSets ==
    ASSUME ClEdit!AttachStored \/ ClEdit!DetachStored
    PROVE  \E S : ledger' = [ledger EXCEPT ![saving.email].on = S]
<1> DEFINE e == saving.email
<1>1. CASE ClEdit!AttachStored
    <2>1. ledger' = [ledger EXCEPT ![e].on = @ \cup saving.attach]
        BY <1>1 DEF ClEdit!AttachStored
    <2>2. ledger' = [ledger EXCEPT ![e].on = ledger[e].on \cup saving.attach]
        BY <2>1
    <2> QED BY <2>2
<1>2. CASE ClEdit!DetachStored
    <2>1. ledger' = [ledger EXCEPT ![e].on = @ \ saving.detach]
        BY <1>2 DEF ClEdit!DetachStored
    <2>2. ledger' = [ledger EXCEPT ![e].on = ledger[e].on \ saving.detach]
        BY <2>1
    <2> QED BY <2>2
<1> QED BY <1>1, <1>2

\* Attaching and detaching change the inbounds alone.
LEMMA BindKnown ==
    ASSUME ClientTyped, LedgerKnown, ClEdit!AttachStored \/ ClEdit!DetachStored PROVE LedgerKnown'
<1> DEFINE e == saving.email
<1>1. /\ saving # ClEdit!NoRecord /\ saving.call \in {"attach", "detach"} /\ e \in DOMAIN ledger
      /\ UNCHANGED <<fmode, fclient, fields, hydrations, toggles, events, overwritten>>
    BY DEF ClEdit!AttachStored, ClEdit!DetachStored, ClEdit!restOfSave
<1>2. /\ saving' = [saving EXCEPT !.call = "detach"] \/ saving' = ClEdit!NoRecord
      /\ fopen' => fopen
    BY DEF ClEdit!AttachStored, ClEdit!DetachStored, ClEdit!afterAttach, ClEdit!saveContinues, ClEdit!saveSucceeds
<1>3. \E S : ledger' = [ledger EXCEPT ![e].on = S]
    BY BindSets
<1>4. SaveGoesOn
    BY <1>1, <1>2, GoesOn
<1> SUFFICES ASSUME Uncrossed' PROVE CredentialsTrue'
    BY DEF LedgerKnown
<1>5. CredentialsTrue
    BY <1>1 DEF LedgerKnown, Uncrossed
<1> HIDE DEF e
<1>6. MovedAs(e, e)
    BY <1>1, <1>3, OnSetMoves DEF ClientTyped
<1>7. toggles' \subseteq toggles /\ events \subseteq events' /\ hydrations' = hydrations /\ overwritten' = overwritten
    BY <1>1
<1> QED BY <1>1, <1>2, <1>4, <1>5, <1>6, <1>7, MovedKnown DEF SaveGoesOn

LEMMA RefusedKnown == ASSUME ClientTyped, LedgerKnown, ClEdit!SaveRefused PROVE LedgerKnown'
<1> DEFINE e == saving.email
           name == saving.payload.email
<1>1. /\ saving # ClEdit!NoRecord /\ saving' = ClEdit!NoRecord /\ events \subseteq events' /\ ClEdit!Partly
      /\ saving.call # "update" /\ ledger' # ledger => "partly" \in events'
      /\ UNCHANGED <<fmode, fopen, fclient, fields, hydrations, toggles>>
    BY DEF ClEdit!SaveRefused, ClEdit!restOfSave
<1> SUFFICES ASSUME Uncrossed' PROVE CredentialsTrue'
    BY DEF LedgerKnown
<1>3. CredentialsTrue
    BY <1>1 DEF LedgerKnown, Uncrossed
<1>2. fopen /\ saving.payload = fields
    BY <1>1 DEF ClientTyped, SaveTyped
<1>4. ASSUME ledger' = ledger, overwritten' = overwritten PROVE CredentialsTrue'
    <2>1. /\ LedgerOwn' /\ (overwritten' # {} => ~Unraced')
          /\ \A x : Named(x) => Named(x)'
          /\ \A x, r : Agrees(x, r) => Agrees(x, r)'
        BY <1>1, <1>3, <1>4, KnownSame
    <2>2. CopiesTrue' /\ FormTrue' /\ SaveTrue'
        BY <1>1, <1>3, <2>1 DEF CredentialsTrue, CopiesTrue, FormTrue, SaveTrue, ClEdit!isEdit
    <2> QED BY <2>1, <2>2 DEF CredentialsTrue
<1>5. ASSUME saving.call = "create", ClEdit!mayCreate(saving.payload), NEW some, ledger' = ClEdit!created(saving.payload, some),
             overwritten' = ClEdit!written(name, saving.payload)
      PROVE  CredentialsTrue'
    <2>1. ~ClEdit!isEdit /\ name = "cyd"
        BY <1>1, <1>2, <1>3, <1>5 DEF CredentialsTrue, SaveTrue, FormTrue
    <2>2. /\ DOMAIN ledger' = DOMAIN ledger \cup {name}
          /\ ledger'[name].note = saving.payload.note
        BY <1>5, CreatedSays DEF ClientTyped
    <2>3. CASE ledger' = ledger
        <3>1. overwritten' = overwritten
            BY <1>5, <2>2, <2>3 DEF ClEdit!written
        <3> QED BY <1>4, <2>3, <3>1
    <2>4. CASE ledger' # ledger
        <3>1. ~Unraced'
            BY <1>1, <1>5, <2>4 DEF Unraced
        <3> HIDE DEF name
        <3>2. LedgerOwn' /\ CopiesTrue'
            <4> DEFINE p == saving.payload
            <4>1. p = fields /\ ClEdit!mayCreate(p) /\ ledger' = ClEdit!created(p, some)
                BY <1>2, <1>5
            <4> HIDE DEF p
            <4>2. UNCHANGED <<hydrations, toggles>> /\ events \subseteq events'
                BY <1>1
            <4> QED BY <1>2, <1>3, <2>1, <3>1, <4>1, <4>2, CreatedKnown
        <3>3. FormTrue' /\ SaveTrue'
            BY <1>1, <1>3, <2>1 DEF CredentialsTrue, FormTrue, SaveTrue, ClEdit!isEdit
        <3> QED BY <3>1, <3>2, <3>3 DEF CredentialsTrue
    <2> QED BY <2>3, <2>4
<1>6. ASSUME saving.call = "update", ~ClEdit!UpdateRefused(e, saving.payload), Half(e, name),
             overwritten' \in {overwritten, ClEdit!written(e, saving.payload)}
      PROVE  CredentialsTrue'
    <2>1. e \in DOMAIN ledger /\ name \notin DOMAIN ledger \ {e}
        BY <1>6 DEF ClEdit!UpdateRefused, ClEdit!taken
    <2>2. ClEdit!isEdit /\ e = fclient
        BY <1>1, <1>3, <1>6 DEF CredentialsTrue, SaveTrue
    <2>3. name \in {e, "cyd"} /\ Agrees(e, saving.payload) /\ ledger[e].cred # ""
        BY <1>2, <1>3, <2>1, <2>2 DEF CredentialsTrue, FormTrue, LedgerOwn
    <2> DEFINE p == saving.payload
    <2>4. p.cred = ledger[e].cred /\ (Unraced => (p.note = "theirs" <=> ledger[e].note = "theirs"))
        BY <2>1, <2>3 DEF Agrees
    <2>5. ClEdit!stored(p).cred = p.cred /\ ClEdit!stored(p).note = p.note
        BY <2>3, <2>4 DEF ClEdit!stored
    <2>6. overwritten' = overwritten \/ ~Unraced
        BY <1>6, <2>1, <2>3, WrittenRaced
    <2> HIDE DEF e
    <2>7. /\ DOMAIN ledger' = (DOMAIN ledger \ {e}) \cup {name}
          /\ \A x \in DOMAIN ledger \ {e, name} : ledger'[x] = ledger[x]
          /\ \/ ledger'[name].cred = ledger[e].cred /\ ledger'[name].note = ledger[e].note
             \/ ledger'[name].cred = ClEdit!stored(p).cred /\ ledger'[name].note = ClEdit!stored(p).note
        BY <1>6, <2>1, HalfSays DEF ClientTyped
    <2> HIDE DEF p, name
    <2>8. MovedAs(e, name)
        BY <2>1, <2>3, <2>4, <2>5, <2>7 DEF MovedAs
    <2>9. toggles' \subseteq toggles /\ hydrations' = hydrations
        BY <1>1
    <2> QED BY <1>1, <1>3, <2>6, <2>8, <2>9, MovedKnown
<1>7. ASSUME e \in DOMAIN ledger, NEW S, ledger' = [ledger EXCEPT ![e].on = S], overwritten' = overwritten
      PROVE  CredentialsTrue'
    <2> HIDE DEF e
    <2>1. MovedAs(e, e)
        BY <1>7, OnSetMoves DEF ClientTyped
    <2>2. toggles' \subseteq toggles /\ hydrations' = hydrations
        BY <1>1
    <2> QED BY <1>1, <1>3, <1>7, <2>1, <2>2, MovedKnown
<1> QED BY <1>1, <1>4, <1>5, <1>6, <1>7, PartlySays

-----------------------------------------------------------------------------
(* What a form for adding draws *)

\* What has happened stays so.
LEMMA EventsGrow == ASSUME [ClEdit!Next]_cleditVars PROVE events \subseteq events'
<1>1. CASE UNCHANGED cleditVars
    BY <1>1 DEF cleditVars
<1>2. CASE ClEdit!onAdd \/ ClEdit!EditFields \/ ClEdit!closeForm \/ ClEdit!onSubmit \/ ClEdit!clearIps \/ ClEdit!SaveRefused
    BY <1>2 DEF ClEdit!onAdd, ClEdit!EditFields, ClEdit!closeForm, ClEdit!onSubmit, ClEdit!clearIps, ClEdit!SaveRefused,
                ClEdit!restOfSave
<1>3. CASE ClEdit!CreateStored \/ ClEdit!UpdateStored \/ ClEdit!AttachStored \/ ClEdit!DetachStored
    BY <1>3 DEF ClEdit!CreateStored, ClEdit!UpdateStored, ClEdit!AttachStored, ClEdit!DetachStored
<1>4. CASE \E e \in ClEdit!Emails :
               ClEdit!onEdit(e) \/ ClEdit!onToggleEnable(e) \/ ClEdit!OtherAdminEdits(e) \/ ClEdit!ipsArrive(e)
    BY <1>4 DEF ClEdit!onEdit, ClEdit!onToggleEnable, ClEdit!OtherAdminEdits, ClEdit!ipsArrive
<1>5. CASE \E h \in hydrations :
               ClEdit!HydrateRead(h) \/ ClEdit!HydrateLost(h) \/ ClEdit!EditArrives(h) \/ ClEdit!ToggleArrives(h)
    BY <1>5 DEF ClEdit!HydrateRead, ClEdit!HydrateLost, ClEdit!EditArrives, ClEdit!ToggleArrives
<1>6. CASE \E p \in toggles : ClEdit!ToggleStored(p)
    BY <1>6 DEF ClEdit!ToggleStored
<1> QED BY <1>1, <1>2, <1>3, <1>4, <1>5, <1>6 DEF ClEdit!Next

\* No copy gets credentials that were drawn but from the form that edits the client who has them.
LEMMA DrawnStays ==
    ASSUME DrawnTrue, "cyd" \in DOMAIN ledger => "cyd" \in DOMAIN ledger',
           \A k \in {"drawn", "redrawn"} :
               ClEdit!held(k)' => ClEdit!held(k) \/ (k = "drawn" /\ "cyd" \in DOMAIN ledger /\ ClEdit!isEdit),
           \A h \in hydrations' : h.email # "nobody" /\ h.row.cred = "",
           fopen' => fopen, UNCHANGED <<fmode, fclient>>, fields'.cred = fields.cred, fields'.email \in {fields.email, "cyd"},
           SaveGoesOn
    PROVE  DrawnTrue'
<1>1. ClEdit!isEdit' <=> ClEdit!isEdit
    BY DEF ClEdit!isEdit
<1>2. ~ClEdit!held("redrawn")' /\ (ClEdit!held("drawn")' => "cyd" \in DOMAIN ledger')
    BY DEF DrawnTrue
<1>3. ASSUME fopen', ~ClEdit!isEdit
      PROVE  /\ fields'.email = "cyd" /\ fields'.cred \in {"drawn", "redrawn"} /\ ~ClEdit!held(fields.cred)'
             /\ fields'.cred = "redrawn" => "cyd" \in DOMAIN ledger'
    <2>1. fields.email = "cyd" /\ fields.cred \in {"drawn", "redrawn"} /\ ~ClEdit!held(fields.cred)
          /\ (fields.cred = "redrawn" => "cyd" \in DOMAIN ledger)
        BY <1>3 DEF DrawnTrue
    <2>2. ~ClEdit!held(fields.cred)'
        BY <1>3, <2>1
    <2> QED BY <2>1, <2>2
<1>4. ASSUME fopen', ClEdit!isEdit
      PROVE  /\ fields'.email \in {fclient', "cyd"} /\ fields'.cred # "redrawn"
             /\ fields'.cred = "drawn" => "cyd" \in DOMAIN ledger'
    BY <1>4 DEF DrawnTrue
<1>5. saving' # ClEdit!NoRecord => (ClEdit!isEdit <=> saving'.call # "create") /\ (ClEdit!isEdit => saving'.email = fclient')
    BY DEF DrawnTrue, SaveGoesOn
<1> QED BY <1>1, <1>2, <1>3, <1>4, <1>5 DEF DrawnTrue, ClEdit!held

\* A form opens on the record of a new client.
LEMMA DrawnOpens ==
    ASSUME DrawnTrue, ledger' = ledger, toggles' = toggles, \A h \in hydrations' : h \in hydrations,
           saving' = ClEdit!NoRecord, ~ClEdit!isEdit', fields' = ClEdit!emptyForm
    PROVE  DrawnTrue'
<1>1. \A k \in {"drawn", "redrawn"} : ClEdit!held(k)' => ClEdit!held(k)
    BY DEF ClEdit!held
<1>2. fields'.email = "cyd" /\ fields'.cred = (IF ClEdit!held("drawn") THEN "redrawn" ELSE "drawn")
    BY EmptySays
<1>3. ~ClEdit!held("redrawn") /\ (ClEdit!held("drawn") => "cyd" \in DOMAIN ledger)
    BY DEF DrawnTrue
<1>4. fields'.cred \in {"drawn", "redrawn"} /\ ~ClEdit!held(fields'.cred)
    BY <1>2, <1>3
<1>5. ~ClEdit!held(fields.cred)'
    BY <1>1, <1>4
<1> QED BY <1>1, <1>2, <1>3, <1>4, <1>5 DEF DrawnTrue, ClEdit!held

\* The ledger changes under one name.
OneChanges(e, name, c) ==
    /\ DOMAIN ledger' = (DOMAIN ledger \ {e}) \cup {name}
    /\ e \notin DOMAIN ledger => ledger'[name].cred = c
    /\ e \in DOMAIN ledger => ledger'[name].cred \in {ledger[e].cred, c, "fresh"}
    /\ \A x \in DOMAIN ledger \ {e, name} : ledger'[x].cred = ledger[x].cred
    /\ hydrations' = hydrations /\ toggles' \subseteq toggles

LEMMA HeldMoves ==
    ASSUME NEW e, NEW name, NEW c, OneChanges(e, name, c)
    PROVE  \A k \in {"drawn", "redrawn"} : ClEdit!held(k)' => ClEdit!held(k) \/ k = c
<1> TAKE k \in {"drawn", "redrawn"}
<1> SUFFICES ASSUME NEW x \in DOMAIN ledger', ledger'[x].cred = k, k # c PROVE \E y \in DOMAIN ledger : ledger[y].cred = k
    BY DEF ClEdit!held, OneChanges
<1>1. CASE x = name
    BY <1>1 DEF OneChanges
<1>2. CASE x # name
    BY <1>2 DEF OneChanges
<1> QED BY <1>1, <1>2

LEMMA StoredCred == \A p : ClEdit!stored(p).cred \in {p.cred, "fresh"}
    BY DEF ClEdit!stored

LEMMA FormActsDrawn ==
    ASSUME ClientTyped, DrawnTrue,
           \/ ClEdit!onAdd \/ ClEdit!EditFields \/ ClEdit!closeForm \/ ClEdit!onSubmit \/ ClEdit!clearIps
           \/ \E e \in ClEdit!Emails : ClEdit!ipsArrive(e)
           \/ UNCHANGED cleditVars
    PROVE  DrawnTrue'
<1>1. ledger' = ledger /\ UNCHANGED <<hydrations, toggles>>
    BY DEF ClEdit!onAdd, ClEdit!EditFields, ClEdit!closeForm, ClEdit!onSubmit, ClEdit!clearIps, ClEdit!ipsArrive,
           ClEdit!formVars, cleditVars
<1>2. \A k \in {"drawn", "redrawn"} : ClEdit!held(k)' => ClEdit!held(k)
    BY <1>1 DEF ClEdit!held
<1>3. \A h \in hydrations' : h.email # "nobody" /\ h.row.cred = ""
    BY <1>1 DEF DrawnTrue
<1>4. CASE ClEdit!onAdd
    <2>1. ~fopen /\ fclient' = "nobody" /\ fields' = ClEdit!emptyForm /\ saving' = saving
        BY <1>4 DEF ClEdit!onAdd
    <2>2. saving' = ClEdit!NoRecord /\ ~ClEdit!isEdit'
        BY <2>1 DEF ClientTyped, SaveTyped, ClEdit!isEdit
    <2> QED BY <1>1, <2>1, <2>2, DrawnOpens
<1>5. CASE ClEdit!EditFields
    <2>1. fopen' = fopen /\ UNCHANGED <<fmode, fclient, saving>> /\ saving = ClEdit!NoRecord
        BY <1>5 DEF ClEdit!EditFields
    <2>2. fields = [email |-> fields.email, cred |-> fields.cred, note |-> fields.note, enable |-> fields.enable, on |-> fields.on]
        BY DEF ClientTyped, FormTyped
    <2>3. fields'.cred = fields.cred /\ fields'.email \in {fields.email, "cyd"}
        <3>1. CASE fields.note = "old" /\ fields' = [fields EXCEPT !.note = "mine"]
            BY <2>2, <3>1
        <3>2. CASE fields' = [fields EXCEPT !.email = "cyd"]
            BY <2>2, <3>2
        <3>3. CASE \E i \in ClEdit!Inbounds : fields' = [fields EXCEPT !.on = IF i \in @ THEN @ \ {i} ELSE @ \cup {i}]
            BY <2>2, <3>3
        <3> QED BY <1>5, <3>1, <3>2, <3>3 DEF ClEdit!EditFields
    <2> QED BY <1>1, <1>2, <1>3, <2>1, <2>3, DrawnStays DEF SaveGoesOn
<1>6. CASE ClEdit!closeForm \/ ClEdit!clearIps \/ (\E e \in ClEdit!Emails : ClEdit!ipsArrive(e)) \/ UNCHANGED cleditVars
    <2>1. (fopen' => fopen) /\ UNCHANGED <<fmode, fclient, fields, saving>>
        BY <1>6 DEF ClEdit!closeForm, ClEdit!clearIps, ClEdit!ipsArrive, ClEdit!formVars, cleditVars
    <2>2. fields'.cred = fields.cred /\ fields'.email \in {fields.email, "cyd"}
        BY <2>1
    <2>3. SaveGoesOn
        BY <2>1 DEF SaveGoesOn
    <2>4. "cyd" \in DOMAIN ledger => "cyd" \in DOMAIN ledger'
        BY <1>1
    <2> QED BY <1>2, <1>3, <2>1, <2>2, <2>3, <2>4, DrawnStays
<1>7. CASE ClEdit!onSubmit
    <2>1. /\ UNCHANGED <<fopen, fmode, fclient, fields>>
          /\ saving' = IF ClEdit!isEdit
                       THEN [call |-> "update", email |-> fclient, payload |-> fields,
                             attach |-> fields.on \ fattached, detach |-> fattached \ fields.on]
                       ELSE [call |-> "create", email |-> "nobody", payload |-> fields, attach |-> {}, detach |-> {}]
        BY <1>7 DEF ClEdit!onSubmit, ClEdit!formVars
    <2>2. ClEdit!isEdit' <=> ClEdit!isEdit
        BY <2>1 DEF ClEdit!isEdit
    <2>3. (ClEdit!isEdit <=> saving'.call # "create") /\ (ClEdit!isEdit => saving'.email = fclient)
        BY <2>1
    <2>4. \A k \in {"drawn", "redrawn"} : ClEdit!held(k)' <=> ClEdit!held(k)
        BY <1>1 DEF ClEdit!held
    <2> QED BY <1>1, <1>3, <2>1, <2>2, <2>3, <2>4 DEF DrawnTrue, ClEdit!held
<1> QED BY <1>4, <1>5, <1>6, <1>7

LEMMA CopiesDrawn ==
    ASSUME ClientTyped, DrawnTrue, NEW h \in hydrations,
           ClEdit!HydrateRead(h) \/ ClEdit!HydrateLost(h) \/ ClEdit!ToggleArrives(h)
    PROVE  DrawnTrue'
<1>1. ledger' = ledger /\ UNCHANGED <<fopen, fmode, fclient, fields, saving>>
    BY DEF ClEdit!HydrateRead, ClEdit!HydrateLost, ClEdit!ToggleArrives, ClEdit!formVars
<1>2. h = [kind |-> h.kind, email |-> h.email, next |-> h.next, row |-> h.row, full |-> h.full]
    BY DEF ClientTyped, FormTyped, IsHydration
<1>3. ASSUME NEW full, hydrations' = (hydrations \ {h}) \cup {[h EXCEPT !.full = full]}, toggles' = toggles,
             full = ClEdit!NoRecord \/ (h.email \in DOMAIN ledger /\ full = ledger[h.email])
      PROVE  /\ \A k \in {"drawn", "redrawn"} : ClEdit!held(k)' => ClEdit!held(k)
             /\ \A g \in hydrations' : g.email # "nobody" /\ g.row.cred = ""
    <2> DEFINE r == [h EXCEPT !.full = full]
    <2>1. r.email = h.email /\ r.row = h.row /\ r.full = full
        BY <1>2
    <2>2. hydrations' = (hydrations \ {h}) \cup {r}
        BY <1>3
    <2> HIDE DEF r
    <2>3. \A g \in hydrations' : g.email # "nobody" /\ g.row.cred = ""
        BY <2>1, <2>2 DEF DrawnTrue
    <2>4. \A k \in {"drawn", "redrawn"} : ClEdit!held(k)' => ClEdit!held(k)
        BY <1>1, <1>3, <2>1, <2>2 DEF ClEdit!held
    <2> QED BY <2>3, <2>4
<1>4. /\ \A k \in {"drawn", "redrawn"} : ClEdit!held(k)' => ClEdit!held(k)
      /\ \A g \in hydrations' : g.email # "nobody" /\ g.row.cred = ""
    <2>1. CASE ClEdit!HydrateRead(h)
        <3> DEFINE full == IF h.email \in DOMAIN ledger THEN ledger[h.email] ELSE ClEdit!NoRecord
        <3>1. hydrations' = (hydrations \ {h}) \cup {[h EXCEPT !.full = full]} /\ toggles' = toggles
            BY <2>1 DEF ClEdit!HydrateRead
        <3>2. full = ClEdit!NoRecord \/ (h.email \in DOMAIN ledger /\ full = ledger[h.email])
            OBVIOUS
        <3> HIDE DEF full
        <3> QED BY <1>3, <3>1, <3>2
    <2>2. CASE ClEdit!HydrateLost(h)
        <3>1. hydrations' = (hydrations \ {h}) \cup {[h EXCEPT !.full = ClEdit!NoRecord]} /\ toggles' = toggles
            BY <2>2 DEF ClEdit!HydrateLost
        <3> QED BY <1>3, <3>1
    <2>3. CASE ClEdit!ToggleArrives(h)
        <3> DEFINE p == ClEdit!setEnablePayload(h)
        <3>1. /\ hydrations' = hydrations \ {h} /\ h.full # ClEdit!Unread
              /\ toggles' = IF h.full = ClEdit!NoRecord THEN toggles ELSE toggles \cup {p}
            BY <2>3 DEF ClEdit!ToggleArrives
        <3>2. p.cred = h.full.cred
            BY DEF ClEdit!setEnablePayload
        <3> HIDE DEF p
        <3>3. \A k \in {"drawn", "redrawn"} : ClEdit!held(k)' => ClEdit!held(k)
            BY <1>1, <3>1, <3>2 DEF ClEdit!held
        <3> QED BY <3>1, <3>3 DEF DrawnTrue
    <2> QED BY <2>1, <2>2, <2>3
<1>5. SaveGoesOn /\ fields'.cred = fields.cred /\ fields'.email \in {fields.email, "cyd"}
      /\ ("cyd" \in DOMAIN ledger => "cyd" \in DOMAIN ledger')
    BY <1>1 DEF SaveGoesOn
<1> QED BY <1>1, <1>4, <1>5, DrawnStays

LEMMA AskDrawn ==
    ASSUME ClientTyped, DrawnTrue, NEW e \in ClEdit!Emails, ClEdit!onEdit(e) \/ ClEdit!onToggleEnable(e)
    PROVE  DrawnTrue'
<1>1. /\ ~fopen /\ e \in DOMAIN ledger /\ UNCHANGED <<ledger, fopen, toggles, saving>>
      /\ ClEdit!hydrate("edit", e, TRUE) \/ ClEdit!hydrate("toggle", e, ~ledger[e].enable)
    BY DEF ClEdit!onEdit, ClEdit!onToggleEnable, ClEdit!formVars
<1>2. \E r : hydrations' = hydrations \cup {r} /\ r.email = e /\ r.full = ClEdit!Unread
             /\ r.row = ClEdit!toClientSlim(ledger[e])
    <2>1. PICK kind, next : ClEdit!hydrate(kind, e, next)
        BY <1>1, Zenon
    <2> QED BY <2>1, HydrateAdds, Zenon
<1>3. ClEdit!toClientSlim(ledger[e]).cred = ""
    BY <1>1 DEF ClientTyped, LedgerTyped, IsRec, ClEdit!toClientSlim
<1>4. \A h \in hydrations' : h.email # "nobody" /\ h.row.cred = ""
    BY <1>2, <1>3 DEF DrawnTrue, ClEdit!Emails
<1>5. \A k \in {"drawn", "redrawn"} : ClEdit!held(k)' => ClEdit!held(k)
    BY <1>1, <1>2 DEF ClEdit!held
<1>6. saving' = ClEdit!NoRecord
    BY <1>1 DEF ClientTyped, SaveTyped
<1> QED BY <1>1, <1>4, <1>5, <1>6 DEF DrawnTrue

LEMMA ArriveDrawn == ASSUME ClientTyped, DrawnTrue, NEW h \in hydrations, ClEdit!EditArrives(h), ~fopen PROVE DrawnTrue'
<1> DEFINE r == IF h.full = ClEdit!NoRecord THEN h.row ELSE h.full
<1>1. /\ ledger' = ledger /\ UNCHANGED <<fmode, toggles, saving>>
      /\ hydrations' = hydrations \ {h} /\ fclient' = h.email /\ h.full # ClEdit!Unread
      /\ fields' = IF fmode = "edit" THEN ClEdit!fieldsOf(h.email, r) ELSE ClEdit!emptyForm
    BY DEF ClEdit!EditArrives
<1>2. saving' = ClEdit!NoRecord
    BY <1>1 DEF ClientTyped, SaveTyped
<1>3. h.email # "nobody" /\ h.row.cred = ""
    BY DEF DrawnTrue
<1>4. CASE fmode = "edit"
    <2>1. ClEdit!isEdit'
        BY <1>1, <1>3, <1>4 DEF ClEdit!isEdit
    <2>2. fields'.email = h.email /\ fields'.cred = r.cred
        BY <1>1, <1>4 DEF ClEdit!fieldsOf
    <2>3. r.cred = "" \/ ClEdit!held(r.cred)
        BY <1>1, <1>3 DEF ClEdit!held
    <2> HIDE DEF r
    <2>4. fields'.cred # "redrawn" /\ (fields'.cred = "drawn" => "cyd" \in DOMAIN ledger)
        BY <2>2, <2>3 DEF DrawnTrue
    <2>5. \A k \in {"drawn", "redrawn"} : ClEdit!held(k)' => ClEdit!held(k)
        BY <1>1 DEF ClEdit!held
    <2> QED BY <1>1, <1>2, <2>1, <2>2, <2>4, <2>5 DEF DrawnTrue
<1>5. CASE fmode # "edit"
    <2>1. ~ClEdit!isEdit' /\ fields' = ClEdit!emptyForm
        BY <1>1, <1>5 DEF ClEdit!isEdit
    <2> QED BY <1>1, <1>2, <2>1, DrawnOpens
<1> QED BY <1>4, <1>5

LEMMA LedgerDrawn ==
    ASSUME ClientTyped, DrawnTrue,
           (\E e \in ClEdit!Emails : ClEdit!OtherAdminEdits(e)) \/ (\E p \in toggles : ClEdit!ToggleStored(p))
    PROVE  DrawnTrue'
<1>1. UNCHANGED <<fmode, fopen, fclient, fields, hydrations, saving>> /\ toggles' \subseteq toggles
    BY DEF ClEdit!OtherAdminEdits, ClEdit!ToggleStored, ClEdit!formVars
<1>2. /\ "cyd" \in DOMAIN ledger => "cyd" \in DOMAIN ledger'
      /\ \A k \in {"drawn", "redrawn"} : ClEdit!held(k)' => ClEdit!held(k)
    <2>1. ASSUME NEW e \in ClEdit!Emails, ClEdit!OtherAdminEdits(e)
          PROVE  DOMAIN ledger' = DOMAIN ledger /\ \A x \in DOMAIN ledger : ledger'[x].cred = ledger[x].cred
        <3> DEFINE r == ledger[e]
                   rec == [r EXCEPT !.note = "theirs"]
        <3>1. e \in DOMAIN ledger /\ ledger' = [ledger EXCEPT ![e].note = "theirs"]
            BY <2>1 DEF ClEdit!OtherAdminEdits
        <3>2. r = [cred |-> r.cred, note |-> r.note, enable |-> r.enable, on |-> r.on]
            BY <3>1 DEF ClientTyped, LedgerTyped, IsRec
        <3>3. rec.cred = r.cred
            BY <3>2
        <3>4. ledger' = [ledger EXCEPT ![e] = rec]
            BY <3>1
        <3> HIDE DEF rec
        <3> QED BY <3>1, <3>3, <3>4
    <2>2. ASSUME DOMAIN ledger' = DOMAIN ledger, \A x \in DOMAIN ledger : ledger'[x].cred = ledger[x].cred
          PROVE  \A k \in {"drawn", "redrawn"} : ClEdit!held(k)' => ClEdit!held(k)
        BY <1>1, <2>2 DEF ClEdit!held
    <2>3. CASE \E e \in ClEdit!Emails : ClEdit!OtherAdminEdits(e)
        BY <2>1, <2>2, <2>3
    <2>4. ASSUME NEW p \in toggles, ClEdit!ToggleStored(p)
          PROVE  /\ "cyd" \in DOMAIN ledger => "cyd" \in DOMAIN ledger'
                 /\ \A k \in {"drawn", "redrawn"} : ClEdit!held(k)' => ClEdit!held(k)
        <3>1. CASE ledger' = ledger
            BY <1>1, <3>1 DEF ClEdit!held
        <3>2. CASE ClEdit!UpdateStores(p.email, p) /\ ledger' = ClEdit!withRecord(p.email, p)
            <4> DEFINE e == p.email
                       led == ClEdit!withRecord(e, p)
            <4>1. e \in DOMAIN ledger
                BY <3>2 DEF ClEdit!UpdateStores, ClEdit!UpdateRefused
            <4>2. /\ DOMAIN led = (DOMAIN ledger \ {e}) \cup {p.email}
                  /\ \A x \in DOMAIN ledger \ {e, p.email} : led[x] = ledger[x]
                  /\ \/ led[p.email].cred = ledger[e].cred /\ led[p.email].note = ledger[e].note
                     \/ led[p.email].cred = ClEdit!stored(p).cred /\ led[p.email].note = ClEdit!stored(p).note
                BY <4>1, RecordSays, Zenon DEF ClientTyped
            <4>3. ledger' = led
                BY <3>2
            <4> HIDE DEF led
            <4>4. /\ DOMAIN ledger' = (DOMAIN ledger \ {e}) \cup {e}
                  /\ ledger'[e].cred \in {ledger[e].cred, p.cred, "fresh"}
                  /\ \A x \in DOMAIN ledger \ {e, e} : ledger'[x].cred = ledger[x].cred
                BY <4>2, <4>3, StoredCred
            <4>5. ClEdit!held(p.cred)
                BY DEF ClEdit!held
            <4> HIDE DEF e
            <4>6. \A k \in {"drawn", "redrawn"} : ClEdit!held(k)' => ClEdit!held(k) \/ k = p.cred
                <5>1. OneChanges(e, e, p.cred)
                    BY <1>1, <4>1, <4>4 DEF OneChanges
                <5> QED BY <5>1, HeldMoves, Zenon
            <4> QED BY <4>1, <4>4, <4>5, <4>6
        <3> QED BY <2>4, <3>1, <3>2 DEF ClEdit!ToggleStored
    <2> QED BY <2>1, <2>3, <2>4
<1>3. SaveGoesOn /\ fields'.cred = fields.cred /\ fields'.email \in {fields.email, "cyd"}
      /\ \A h \in hydrations' : h.email # "nobody" /\ h.row.cred = ""
    BY <1>1 DEF SaveGoesOn, DrawnTrue
<1> QED BY <1>1, <1>2, <1>3, DrawnStays

LEMMA SaveDrawn ==
    ASSUME ClientTyped, DrawnTrue, Undisturbed',
           \/ ClEdit!CreateStored \/ ClEdit!UpdateStored \/ ClEdit!AttachStored \/ ClEdit!DetachStored
           \/ ClEdit!SaveRefused
    PROVE  DrawnTrue'
<1> DEFINE e == saving.email
           p == saving.payload
<1>1. /\ saving # ClEdit!NoRecord /\ UNCHANGED <<fmode, fclient, fields, hydrations, toggles>>
      /\ fopen' => fopen
    BY DEF ClEdit!CreateStored, ClEdit!UpdateStored, ClEdit!AttachStored, ClEdit!DetachStored, ClEdit!SaveRefused,
           ClEdit!restOfSave, ClEdit!afterUpdate, ClEdit!afterAttach, ClEdit!saveContinues, ClEdit!saveSucceeds
<1>2. fopen /\ p = fields
    BY <1>1 DEF ClientTyped, SaveTyped
<1>3. \A h \in hydrations' : h.email # "nobody" /\ h.row.cred = ""
    BY <1>1 DEF DrawnTrue
<1>4. fields'.cred = fields.cred /\ fields'.email \in {fields.email, "cyd"}
    BY <1>1
<1>5. CASE ClEdit!CreateStored
    <2>1. /\ saving.call = "create" /\ ClEdit!mayCreate(p) /\ ledger' = ClEdit!created(p, p.on)
          /\ saving' = ClEdit!NoRecord /\ ~fopen'
        BY <1>5 DEF ClEdit!CreateStored, ClEdit!saveSucceeds
    <2>2. p.email = "cyd" /\ "cyd" \notin DOMAIN ledger /\ p.cred = "drawn"
        BY <1>1, <2>1, CreateIsFirst
    <2>3. /\ DOMAIN ledger' = DOMAIN ledger \cup {p.email} /\ ledger'[p.email].cred = p.cred
          /\ \A x \in DOMAIN ledger : x # p.email => ledger'[x] = ledger[x]
        BY <2>1, CreatedSays DEF ClientTyped
    <2> DEFINE cyd == "cyd"
    <2>4. /\ DOMAIN ledger' = (DOMAIN ledger \ {cyd}) \cup {cyd} /\ ledger'[cyd].cred = "drawn"
          /\ \A x \in DOMAIN ledger \ {cyd, cyd} : ledger'[x].cred = ledger[x].cred
        BY <2>2, <2>3
    <2>5. cyd \notin DOMAIN ledger
        BY <2>2
    <2> HIDE DEF cyd
    <2>6. \A k \in {"drawn", "redrawn"} : ClEdit!held(k)' => ClEdit!held(k) \/ k = "drawn"
        <3>1. OneChanges(cyd, cyd, "drawn")
            BY <1>1, <2>4, <2>5 DEF OneChanges
        <3> QED BY <3>1, HeldMoves, Zenon
    <2>7. ~ClEdit!held("redrawn")' /\ "cyd" \in DOMAIN ledger'
        BY <2>4, <2>6 DEF DrawnTrue, cyd
    <2> QED BY <1>3, <2>1, <2>7 DEF DrawnTrue
<1>6. ASSUME saving.call = "update", ~ClEdit!UpdateRefused(e, p), Half(e, p.email), SaveGoesOn PROVE DrawnTrue'
    <2>1. e \in DOMAIN ledger /\ p.email \notin DOMAIN ledger \ {e}
        BY <1>6 DEF ClEdit!UpdateRefused, ClEdit!taken
    <2>2. ClEdit!isEdit /\ e = fclient /\ p.email \in {e, "cyd"} /\ p.cred # "redrawn"
          /\ (p.cred = "drawn" => "cyd" \in DOMAIN ledger)
        BY <1>1, <1>2, <1>6 DEF DrawnTrue
    <2> DEFINE name == p.email
    <2>3. ClEdit!stored(p).cred \in {p.cred, "fresh"}
        BY StoredCred
    <2> HIDE DEF e
    <2>4. /\ DOMAIN ledger' = (DOMAIN ledger \ {e}) \cup {name}
          /\ \A x \in DOMAIN ledger \ {e, name} : ledger'[x] = ledger[x]
          /\ \/ ledger'[name].cred = ledger[e].cred \/ ledger'[name].cred = ClEdit!stored(p).cred
        BY <1>6, <2>1, HalfSays DEF ClientTyped
    <2> HIDE DEF p, name
    <2>5. \A k \in {"drawn", "redrawn"} : ClEdit!held(k)' => ClEdit!held(k) \/ k = p.cred
        <3>1. /\ ledger'[name].cred \in {ledger[e].cred, p.cred, "fresh"}
              /\ \A x \in DOMAIN ledger \ {e, name} : ledger'[x].cred = ledger[x].cred
              /\ hydrations' = hydrations /\ toggles' \subseteq toggles
            BY <1>1, <2>3, <2>4
        <3>2. OneChanges(e, name, p.cred)
            BY <2>1, <2>4, <3>1 DEF OneChanges
        <3> QED BY <3>2, HeldMoves, Zenon
    <2>6. "cyd" \in DOMAIN ledger => "cyd" \in DOMAIN ledger'
        BY <2>2, <2>4 DEF name
    <2>7. \A k \in {"drawn", "redrawn"} :
               ClEdit!held(k)' => ClEdit!held(k) \/ (k = "drawn" /\ "cyd" \in DOMAIN ledger /\ ClEdit!isEdit)
        BY <2>2, <2>5
    <2> QED BY <1>1, <1>3, <1>4, <1>6, <2>6, <2>7, DrawnStays
<1>7. ASSUME DOMAIN ledger' = DOMAIN ledger, \A x \in DOMAIN ledger : ledger'[x].cred = ledger[x].cred, SaveGoesOn
      PROVE  DrawnTrue'
    <2>1. \A k \in {"drawn", "redrawn"} : ClEdit!held(k)' => ClEdit!held(k)
        BY <1>1, <1>7 DEF ClEdit!held
    <2> QED BY <1>1, <1>3, <1>4, <1>7, <2>1, DrawnStays
<1>8. ASSUME e \in DOMAIN ledger, NEW S, ledger' = [ledger EXCEPT ![e].on = S]
      PROVE  DOMAIN ledger' = DOMAIN ledger /\ \A x \in DOMAIN ledger : ledger'[x].cred = ledger[x].cred
    <2> HIDE DEF e
    <2>1. MovedAs(e, e)
        BY <1>8, OnSetMoves DEF ClientTyped
    <2> QED BY <2>1 DEF MovedAs
<1>9. CASE ClEdit!UpdateStored
    <2>1. saving.call = "update" /\ ~ClEdit!UpdateRefused(e, p) /\ Half(e, p.email)
        BY <1>9 DEF ClEdit!UpdateStored, ClEdit!UpdateStores, Half
    <2>2. \/ saving' = [saving EXCEPT !.call = "attach"] \/ saving' = [saving EXCEPT !.call = "detach"]
          \/ saving' = ClEdit!NoRecord
        BY <1>9 DEF ClEdit!UpdateStored, ClEdit!afterUpdate, ClEdit!saveContinues, ClEdit!saveSucceeds
    <2>3. SaveGoesOn
        BY <1>1, <2>1, <2>2, GoesOn
    <2> QED BY <1>6, <2>1, <2>3
<1>10. CASE ClEdit!AttachStored \/ ClEdit!DetachStored
    <2>1. saving.call # "create" /\ e \in DOMAIN ledger
        BY <1>10 DEF ClEdit!AttachStored, ClEdit!DetachStored
    <2>2. \/ saving' = [saving EXCEPT !.call = "attach"] \/ saving' = [saving EXCEPT !.call = "detach"]
          \/ saving' = ClEdit!NoRecord
        BY <1>10 DEF ClEdit!AttachStored, ClEdit!DetachStored, ClEdit!afterAttach, ClEdit!saveContinues, ClEdit!saveSucceeds
    <2>3. SaveGoesOn
        BY <1>1, <2>1, <2>2, GoesOn
    <2>4. \E S : ledger' = [ledger EXCEPT ![e].on = S]
        BY <1>10, BindSets
    <2> QED BY <1>7, <1>8, <2>1, <2>3, <2>4
<1>11. CASE ClEdit!SaveRefused
    <2>1. /\ saving' = ClEdit!NoRecord /\ ClEdit!Partly
          /\ saving.call # "update" /\ ledger' # ledger => "partly" \in events'
        BY <1>11 DEF ClEdit!SaveRefused
    <2>2. SaveGoesOn
        BY <2>1 DEF SaveGoesOn
    <2>3. saving.call = "update" \/ ledger' = ledger
        BY <2>1 DEF Undisturbed
    <2>4. CASE ledger' = ledger
        BY <1>7, <2>2, <2>4
    <2>5. CASE ledger' # ledger
        BY <1>6, <2>1, <2>2, <2>3, <2>5, PartlySays
    <2> QED BY <2>4, <2>5
<1> QED BY <1>5, <1>9, <1>10, <1>11

LEMMA NextDrawn == ASSUME ClientTyped, DrawnKnown, [ClEdit!Next]_cleditVars PROVE DrawnKnown'
<1> SUFFICES ASSUME Undisturbed' PROVE DrawnTrue'
    BY DEF DrawnKnown
<1>1. DrawnTrue
    <2>1. events \subseteq events'
        BY EventsGrow
    <2> QED BY <2>1 DEF DrawnKnown, Undisturbed
<1>2. ASSUME NEW h \in hydrations, ClEdit!EditArrives(h) PROVE DrawnTrue'
    <2>1. ~fopen
        BY <1>2 DEF ClEdit!EditArrives, Undisturbed
    <2> QED BY <1>1, <1>2, <2>1, ArriveDrawn
<1> QED
    BY <1>1, <1>2, FormActsDrawn, CopiesDrawn, AskDrawn, LedgerDrawn, SaveDrawn DEF ClEdit!Next

LEMMA NextClientKnown == ASSUME ClientTyped, ClientKnown, [ClEdit!Next]_cleditVars PROVE ClientKnown'
<1>1. FormOwn'
    BY NextOwn DEF ClientKnown
<1>2. LedgerKnown
    BY DEF ClientKnown
<1>10. DrawnKnown
    BY DEF ClientKnown
<1>11. DrawnKnown'
    BY <1>10, NextDrawn
<1>3. ASSUME NEW e \in ClEdit!Emails, ClEdit!onEdit(e) \/ ClEdit!onToggleEnable(e) PROVE LedgerKnown'
    <2>1. /\ ~fopen /\ e \in DOMAIN ledger
          /\ UNCHANGED <<ledger, fopen, fclient, fields, toggles, saving, overwritten, events>>
          /\ ClEdit!hydrate("edit", e, TRUE) \/ ClEdit!hydrate("toggle", e, ~ledger[e].enable)
        BY <1>3 DEF ClEdit!onEdit, ClEdit!onToggleEnable, ClEdit!formVars
    <2> QED BY <1>2, <2>1, AskKnown
<1>4. ASSUME NEW e, ClEdit!ipsArrive(e) \/ ClEdit!clearIps PROVE LedgerKnown'
    <2>1. /\ events \subseteq events' /\ ledger' = ledger /\ overwritten' = overwritten
          /\ UNCHANGED <<fmode, fopen, fclient, fields, hydrations, toggles, saving>>
        BY <1>4 DEF ClEdit!ipsArrive, ClEdit!clearIps, ClEdit!formVars
    <2> QED BY <1>2, <2>1, KnownStill
<1>5. ASSUME UNCHANGED cleditVars PROVE LedgerKnown'
    BY <1>2, <1>5, KnownStill DEF cleditVars
<1>6. ASSUME ClEdit!onAdd \/ ClEdit!EditFields \/ ClEdit!closeForm \/ ClEdit!onSubmit PROVE LedgerKnown'
    BY <1>2, <1>6, FormActsKnown
<1>7. ASSUME NEW h \in hydrations,
             ClEdit!HydrateRead(h) \/ ClEdit!HydrateLost(h) \/ ClEdit!EditArrives(h) \/ ClEdit!ToggleArrives(h)
      PROVE  LedgerKnown'
    BY <1>2, <1>7, HydrateKnown, EditArrivesKnown
<1>8. ASSUME ClEdit!CreateStored \/ ClEdit!UpdateStored \/ ClEdit!AttachStored \/ ClEdit!DetachStored \/ ClEdit!SaveRefused
      PROVE  LedgerKnown'
    BY <1>2, <1>8, <1>10, CreateKnown, UpdateKnown, BindKnown, RefusedKnown
<1>9. LedgerKnown'
    BY <1>2, <1>3, <1>4, <1>5, <1>6, <1>7, <1>8, OtherAdminKnown, ToggleKnown DEF ClEdit!Next
<1> QED BY <1>1, <1>9, <1>11 DEF ClientKnown

-----------------------------------------------------------------------------
(* The inbounds page *)

\* A record of the attach dialog and one of a dialog on an inbound's clients.
IsAttach(a) ==
    a = [target |-> a.target, listOf |-> a.listOf, selOf |-> a.selOf, loads |-> a.loads, n |-> a.n,
         calls |-> a.calls]

\* The confirmation a promise waits for is the bulk deletion's, and no later
\* confirmation has its number.
PromiseKnown ==
    /\ opened \in Nat /\ promise \in Nat /\ promise <= opened
    /\ confirm # InPage!None /\ confirm.n = promise /\ promise # 0 => confirm.what = "bulk"
    /\ \A a \in asked : a.key \in InPage!hydratingKeys
    /\ InPage!PromiseSettles

\* While the dialog is open on a target and none of its own lists is under
\* way, the selection is the target's.
SelectionKnown ==
    /\ IsAttach(attach) /\ opened \in Nat
    /\ \A l \in attach.loads : l.n \in Nat /\ l.n <= opened
    /\ attach.target # "nothing" =>
          /\ \A l \in attach.loads : l.n = attach.n => l.of = attach.target
          /\ (\A l \in attach.loads : l.n # attach.n) => attach.selOf = attach.target
    /\ InPage!AttachedOwn

LEMMA InitPromise == ASSUME InPage!Init PROVE PromiseKnown /\ SelectionKnown
BY DEF InPage!Init, PromiseKnown, SelectionKnown, InPage!PromiseSettles, InPage!AttachedOwn, IsAttach, InPage!NoAttach

LEMMA PromiseStill ==
    ASSUME PromiseKnown, UNCHANGED <<confirm, calls, promise>>, opened' \in Nat, opened' >= opened,
           asked' \subseteq asked, inpageCauses \subseteq inpageCauses'
    PROVE  PromiseKnown'
BY DEF PromiseKnown, InPage!PromiseSettles

LEMMA SelectionStill ==
    ASSUME SelectionKnown, UNCHANGED <<attach, inpagePosted>>, opened' \in Nat, opened' >= opened
    PROVE  SelectionKnown'
BY DEF SelectionKnown, InPage!AttachedOwn, IsAttach

\* A row action opens one of the page's dialogs: at most a confirmation under
\* a new number.
LEMMA ActPage ==
    ASSUME NEW key, NEW i, NEW row, NEW full, NEW rs, opened \in Nat, InPage!Act(key, i, row, full, rs)
    PROVE  /\ opened' \in Nat /\ opened' >= opened
           /\ \/ confirm' = confirm
              \/ /\ key \notin {"edit", "links", "attachClients", "detachClients", "addToGroup"}
                 /\ confirm' = [what |-> key, ids |-> {i}, n |-> opened + 1]
BY DEF InPage!Act, InPage!openEdit, InPage!openAttachClients, InPage!openDetachClients, InPage!openAddToGroup,
       InPage!openMembers, InPage!Confirm

LEMMA RowActPage ==
    ASSUME PromiseKnown, SelectionKnown, NEW key, NEW i, InPage!onRowAction(key, i)
    PROVE  PromiseKnown' /\ SelectionKnown'
<1>1. confirm = InPage!None /\ UNCHANGED <<calls, promise, inpageCauses, attach, inpagePosted>>
    BY DEF InPage!onRowAction, InPage!PageFree
<1>2. CASE key \in InPage!hydratingKeys
    <2>1. asked' = asked \cup {[key |-> key, id |-> i, rows |-> inpageList]} /\ UNCHANGED <<confirm, opened>>
        BY <1>2 DEF InPage!onRowAction
    <2>2. \A a \in asked' : a.key \in InPage!hydratingKeys
        BY <1>2, <2>1 DEF PromiseKnown
    <2>3. PromiseKnown'
        BY <1>1, <2>1, <2>2 DEF PromiseKnown, InPage!PromiseSettles
    <2> QED
        BY <1>1, <2>1, <2>3, SelectionStill DEF SelectionKnown
<1>3. CASE key \notin InPage!hydratingKeys
    <2>1. InPage!Act(key, i, inpageList[i], FALSE, inpageList) /\ asked' = asked
        BY <1>3 DEF InPage!onRowAction
    <2>2. opened \in Nat
        BY DEF PromiseKnown
    <2>3. /\ opened' \in Nat /\ opened' >= opened
          /\ \/ confirm' = confirm
             \/ /\ key \notin {"edit", "links", "attachClients", "detachClients", "addToGroup"}
                /\ confirm' = [what |-> key, ids |-> {i}, n |-> opened + 1]
        BY <2>1, <2>2, ActPage, Zenon
    <2>4. PromiseKnown'
        BY <1>1, <2>1, <2>2, <2>3 DEF PromiseKnown, InPage!PromiseSettles
    <2> QED
        BY <1>1, <2>3, <2>4, SelectionStill
<1> QED BY <1>2, <1>3

LEMMA HydratedPage ==
    ASSUME PromiseKnown, SelectionKnown, NEW a \in asked, InPage!Hydrated(a)
    PROVE  PromiseKnown' /\ SelectionKnown'
<1>1. /\ asked' = asked \ {a} /\ UNCHANGED <<calls, promise, attach, inpagePosted>>
      /\ inpageCauses \subseteq inpageCauses'
      /\ confirm # InPage!None /\ a.key = "clone" => "displaced" \in inpageCauses'
    BY DEF InPage!Hydrated
<1>2. PICK row, full : InPage!Act(a.key, a.id, row, full, a.rows)
    BY DEF InPage!Hydrated
<1>3. opened \in Nat /\ a.key \in {"edit", "links", "clone", "attachClients", "addToGroup"}
    BY DEF PromiseKnown, InPage!hydratingKeys
<1>4. /\ opened' \in Nat /\ opened' >= opened
      /\ \/ confirm' = confirm
         \/ a.key = "clone" /\ confirm' = [what |-> a.key, ids |-> {a.id}, n |-> opened + 1]
    <2>1. /\ opened' \in Nat /\ opened' >= opened
          /\ \/ confirm' = confirm
             \/ /\ a.key \notin {"edit", "links", "attachClients", "detachClients", "addToGroup"}
                /\ confirm' = [what |-> a.key, ids |-> {a.id}, n |-> opened + 1]
        BY <1>2, <1>3, ActPage, Zenon
    <2>2. a.key \in {"edit", "links", "attachClients", "detachClients", "addToGroup"} \/ a.key = "clone"
        BY <1>3
    <2> QED BY <2>1, <2>2, Zenon
<1>5. PromiseKnown'
    <2>1. CASE confirm' = confirm
        BY <1>1, <1>4, <2>1, PromiseStill
    <2>2. CASE confirm' # confirm
        <3>1. confirm'.n = opened + 1 /\ (confirm # InPage!None => "displaced" \in inpageCauses')
            BY <1>1, <1>4, <2>2
        <3> QED BY <1>1, <1>3, <1>4, <3>1 DEF PromiseKnown, InPage!PromiseSettles
    <2> QED BY <2>1, <2>2
<1> QED
    BY <1>1, <1>4, <1>5, SelectionStill

LEMMA ConfirmPage ==
    ASSUME PromiseKnown, SelectionKnown,
           InPage!confirmBulkDelete \/ InPage!runConfirm \/ InPage!cancelConfirm
    PROVE  PromiseKnown' /\ SelectionKnown'
<1>1. UNCHANGED <<asked, inpageCauses, attach, inpagePosted>> /\ opened' \in Nat /\ opened' >= opened
    BY DEF PromiseKnown, InPage!confirmBulkDelete, InPage!runConfirm, InPage!cancelConfirm, InPage!Confirm,
           InPage!dialogs
<1>2. CASE InPage!confirmBulkDelete
    <2>1. confirm' = [what |-> "bulk", ids |-> inpageSelected, n |-> opened + 1] /\ opened' = opened + 1
          /\ promise' = opened + 1 /\ calls' = calls
        BY <1>2 DEF InPage!confirmBulkDelete, InPage!Confirm
    <2>2. confirm' # InPage!None /\ confirm'.n = promise' /\ confirm'.what = "bulk"
        BY <2>1 DEF InPage!None
    <2>3. PromiseKnown'
        BY <1>1, <2>1, <2>2 DEF PromiseKnown, InPage!PromiseSettles
    <2> QED BY <1>1, <2>3, SelectionStill
<1>3. CASE InPage!runConfirm
    <2>1. calls' = calls \cup {confirm} /\ UNCHANGED <<confirm, promise, opened>>
        BY <1>3 DEF InPage!runConfirm
    <2>2. PromiseKnown'
        BY <1>1, <2>1 DEF PromiseKnown, InPage!PromiseSettles
    <2> QED BY <1>1, <2>2, SelectionStill
<1>4. CASE InPage!cancelConfirm
    <2>1. /\ confirm # InPage!None /\ confirm' = InPage!None /\ UNCHANGED <<calls, opened>>
          /\ promise' = IF confirm.what = "bulk" /\ promise = confirm.n THEN 0 ELSE promise
        BY <1>4 DEF InPage!cancelConfirm
    <2>2. PromiseKnown'
        BY <1>1, <2>1 DEF PromiseKnown, InPage!PromiseSettles
    <2> QED BY <1>1, <2>2, SelectionStill
<1> QED BY <1>2, <1>3, <1>4

LEMMA ConfirmEndsPage ==
    ASSUME PromiseKnown, SelectionKnown, NEW c \in calls, InPage!confirmEnds(c)
    PROVE  PromiseKnown' /\ SelectionKnown'
<1>1. /\ calls' = calls \ {c} /\ confirm' = InPage!None /\ UNCHANGED <<asked, attach, inpagePosted, opened>>
      /\ promise' = IF promise = c.n THEN 0 ELSE promise
      /\ inpageCauses \subseteq inpageCauses'
      /\ confirm # InPage!None /\ confirm.n # c.n => "displaced" \in inpageCauses'
    BY DEF InPage!confirmEnds, InPage!dialogs
<1>2. PromiseKnown'
    BY <1>1 DEF PromiseKnown, InPage!PromiseSettles
<1> QED BY <1>1, <1>2, SelectionStill DEF SelectionKnown

LEMMA AttachPage ==
    ASSUME PromiseKnown, SelectionKnown,
           \/ \E i \in {"mas", "kid"} : InPage!openAttach(i)
           \/ InPage!closeAttach \/ InPage!attachSubmit \/ (\E ok \in BOOLEAN : InPage!attachEnds(ok))
           \/ \E l \in attach.loads : InPage!attachListArrives(l)
    PROVE  PromiseKnown' /\ SelectionKnown'
<1> USE DEF InPage!attachUnchanged, InPage!confirmVars
<1>1. UNCHANGED <<confirm, calls, promise, asked, inpageCauses>> /\ opened' \in Nat /\ opened' >= opened
    <2>1. opened \in Nat
        BY DEF PromiseKnown
    <2>2. ASSUME NEW i \in {"mas", "kid"}, InPage!openAttach(i)
          PROVE  UNCHANGED <<confirm, calls, promise, asked, inpageCauses>> /\ opened' = opened + 1
        BY <2>2 DEF InPage!openAttach
    <2>3. ASSUME InPage!closeAttach \/ InPage!attachSubmit
          PROVE  UNCHANGED <<confirm, calls, promise, asked, inpageCauses, opened>>
        BY <2>3 DEF InPage!closeAttach, InPage!attachSubmit
    <2>4. ASSUME NEW ok \in BOOLEAN, InPage!attachEnds(ok)
          PROVE  UNCHANGED <<confirm, calls, promise, asked, inpageCauses, opened>>
        BY <2>4 DEF InPage!attachEnds
    <2>5. ASSUME NEW l \in attach.loads, InPage!attachListArrives(l)
          PROVE  UNCHANGED <<confirm, calls, promise, asked, inpageCauses, opened>>
        BY <2>5 DEF InPage!attachListArrives
    <2> QED BY <2>1, <2>2, <2>3, <2>4, <2>5
<1>2. PromiseKnown'
    BY <1>1, PromiseStill
<1>3. ASSUME NEW i \in {"mas", "kid"}, InPage!openAttach(i) PROVE SelectionKnown'
    <2>1. /\ attach'.target = i /\ attach'.n = opened + 1
          /\ attach'.loads = attach.loads \cup {[of |-> i, n |-> opened + 1]}
          /\ IsAttach(attach') /\ inpagePosted' = inpagePosted /\ opened' = opened + 1
        BY <1>3 DEF InPage!openAttach, SelectionKnown, IsAttach
    <2>2. [of |-> i, n |-> opened + 1].n = opened + 1 /\ [of |-> i, n |-> opened + 1].of = i
        OBVIOUS
    <2>3. [of |-> i, n |-> opened + 1] \in attach'.loads
        BY <2>1
    <2>4. \A l \in attach.loads : l.n \in Nat /\ l.n <= opened /\ l.n # opened + 1
        BY DEF SelectionKnown
    <2>5. i # "nothing" /\ \A l \in attach'.loads : l \in attach.loads \/ l = [of |-> i, n |-> opened + 1]
        BY <2>1
    <2>6. opened \in Nat /\ opened + 1 \in Nat /\ InPage!AttachedOwn
        BY DEF SelectionKnown
    <2>7. \A l \in attach'.loads : l.n \in Nat /\ l.n <= opened' /\ (l.n = attach'.n => l.of = attach'.target)
        BY <2>1, <2>2, <2>4, <2>5, <2>6
    <2>8. \E l \in attach'.loads : l.n = attach'.n
        BY <2>1, <2>2, <2>3
    <2>9. InPage!AttachedOwn'
        BY <2>1, <2>6 DEF InPage!AttachedOwn
    <2> QED BY <2>1, <2>6, <2>7, <2>8, <2>9 DEF SelectionKnown
<1>4. ASSUME InPage!closeAttach PROVE SelectionKnown'
    BY <1>1, <1>4 DEF InPage!closeAttach, SelectionKnown, InPage!AttachedOwn, IsAttach
<1>5. ASSUME InPage!attachSubmit PROVE SelectionKnown'
    <2>1. /\ attach.target # "nothing" /\ UNCHANGED opened
          /\ IsAttach(attach') /\ attach'.target = attach.target /\ attach'.n = attach.n
          /\ attach'.loads = attach.loads /\ attach'.selOf = attach.selOf
          /\ inpagePosted'.to = attach.target /\ inpagePosted'.selOf = attach.selOf
          /\ inpagePosted'.early = (\E l \in attach.loads : l.n = attach.n)
        BY <1>5 DEF InPage!attachSubmit, SelectionKnown, IsAttach
    <2>2. inpagePosted'.selOf = inpagePosted'.to \/ inpagePosted'.early
        BY <2>1 DEF SelectionKnown
    <2> QED BY <2>1, <2>2 DEF SelectionKnown, InPage!AttachedOwn
<1>6. ASSUME NEW ok \in BOOLEAN, InPage!attachEnds(ok) PROVE SelectionKnown'
    BY <1>6 DEF InPage!attachEnds, SelectionKnown, InPage!AttachedOwn, IsAttach
<1>7. ASSUME NEW l \in attach.loads, InPage!attachListArrives(l) PROVE SelectionKnown'
    <2>1. /\ IsAttach(attach') /\ UNCHANGED <<opened, inpagePosted>> /\ attach'.loads = attach.loads \ {l}
          /\ attach'.target = attach.target /\ attach'.n = attach.n
          /\ attach'.selOf = IF attach.target # "nothing" /\ l.n = attach.n THEN l.of ELSE attach.selOf
        BY <1>7 DEF InPage!attachListArrives, SelectionKnown, IsAttach
    <2> QED BY <2>1 DEF SelectionKnown, InPage!AttachedOwn
<1> QED BY <1>2, <1>3, <1>4, <1>5, <1>6, <1>7

LEMMA NextPage == ASSUME PromiseKnown, SelectionKnown, [InPage!Next]_inpageVars PROVE PromiseKnown' /\ SelectionKnown'
<1>1. CASE UNCHANGED inpageVars
    BY <1>1, PromiseStill, SelectionStill DEF inpageVars, PromiseKnown
<1>2. ASSUME UNCHANGED <<confirm, calls, promise, asked, inpageCauses, attach, inpagePosted, opened>>
      PROVE  PromiseKnown' /\ SelectionKnown'
    BY <1>2, PromiseStill, SelectionStill DEF PromiseKnown
<1>3. ASSUME UNCHANGED <<confirm, calls, promise, attach, inpagePosted>>,
             opened' \in Nat, opened' >= opened, asked' = asked, inpageCauses \subseteq inpageCauses'
      PROVE  PromiseKnown' /\ SelectionKnown'
    BY <1>3, PromiseStill, SelectionStill
<1>4. CASE InPage!onAddInbound \/ InPage!EditForm \/ InPage!CloseForm \/ InPage!selectAll
           \/ InPage!toggleSelect("kid") \/ InPage!TypePrompt \/ InPage!onPromptConfirm
    BY <1>2, <1>4 DEF InPage!onAddInbound, InPage!EditForm, InPage!CloseForm, InPage!selectAll, InPage!toggleSelect,
        InPage!TypePrompt, InPage!onPromptConfirm, InPage!confirmVars, InPage!dialogs
<1>5. CASE InPage!openPrompt \/ InPage!closePrompt
           \/ \E n \in prompt.calls : InPage!promptRefused(n) \/ InPage!promptStored(n)
    <2>1. opened \in Nat
        BY DEF PromiseKnown
    <2>2. ASSUME InPage!openPrompt
          PROVE  UNCHANGED <<confirm, calls, promise, attach, inpagePosted, asked, inpageCauses>>
                 /\ opened' = opened + 1
        BY <2>2 DEF InPage!openPrompt, InPage!confirmVars, InPage!dialogs
    <2>3. ASSUME InPage!closePrompt
          PROVE  UNCHANGED <<confirm, calls, promise, attach, inpagePosted, asked, opened>>
                 /\ inpageCauses \subseteq inpageCauses'
        BY <2>3 DEF InPage!closePrompt, InPage!confirmVars, InPage!dialogs
    <2>4. ASSUME NEW n \in prompt.calls, InPage!promptRefused(n) \/ InPage!promptStored(n)
          PROVE  UNCHANGED <<confirm, calls, promise, attach, inpagePosted, asked, inpageCauses, opened>>
        BY <2>4 DEF InPage!promptRefused, InPage!promptStored, InPage!confirmVars, InPage!dialogs
    <2> QED BY <1>2, <1>3, <1>5, <2>1, <2>2, <2>3, <2>4
<1>6. CASE \/ \E k \in InPage!MemberKeys : InPage!chooseMembers(k) \/ InPage!submitMembers(k) \/ InPage!closeMembers(k)
           \/ \E k \in InPage!MemberKeys, ok \in BOOLEAN : InPage!membersEnd(k, ok)
    <2>1. opened \in Nat
        BY DEF PromiseKnown
    <2>2. ASSUME NEW k \in InPage!MemberKeys, InPage!chooseMembers(k) \/ InPage!submitMembers(k)
          PROVE  UNCHANGED <<confirm, calls, promise, attach, inpagePosted, asked, inpageCauses, opened>>
        BY <2>2 DEF InPage!chooseMembers, InPage!submitMembers, InPage!membersUnchanged, InPage!confirmVars
    <2>3. ASSUME NEW k \in InPage!MemberKeys, InPage!closeMembers(k)
          PROVE  UNCHANGED <<confirm, calls, promise, attach, inpagePosted, asked, opened>>
                 /\ inpageCauses \subseteq inpageCauses'
        BY <2>3 DEF InPage!closeMembers, InPage!membersUnchanged, InPage!confirmVars
    <2>4. ASSUME NEW k \in InPage!MemberKeys, NEW ok \in BOOLEAN, InPage!membersEnd(k, ok)
          PROVE  UNCHANGED <<confirm, calls, promise, attach, inpagePosted, asked, inpageCauses, opened>>
        BY <2>4 DEF InPage!membersEnd, InPage!membersUnchanged, InPage!confirmVars
    <2> QED BY <1>2, <1>3, <1>6, <2>1, <2>2, <2>3, <2>4
<1>7. CASE InPage!exportAllLinks
    <2>1. UNCHANGED <<confirm, calls, promise, inpageCauses, attach, inpagePosted, opened>>
          /\ \A a \in asked' : a.key = "links"
        BY <1>7 DEF InPage!exportAllLinks, InPage!confirmVars, InPage!dialogs
    <2>2. PromiseKnown'
        BY <2>1 DEF PromiseKnown, InPage!PromiseSettles, InPage!hydratingKeys
    <2> QED BY <2>1, <2>2, SelectionStill DEF SelectionKnown
<1> QED
    BY <1>1, <1>4, <1>5, <1>6, <1>7, RowActPage, HydratedPage, ConfirmPage, ConfirmEndsPage, AttachPage
    DEF InPage!Next

-----------------------------------------------------------------------------
(* The nodes page *)

Kinds == {"test", "pin", "check", "save", "toggle", "probe", "delete", "update"}
NodeCalls == [kind : Kinds, n : Nat, ids : SUBSET (NodesP!Ids \cup {0}), v : NodesP!AllValues, base : NodesP!AllValues,
              ans : {"asked", "ok", "refused"}]
RowsOf == UNION {[D -> NodesP!Rows] : D \in SUBSET NodesP!Ids}
Reads == [rows : RowsOf, overtaken : BOOLEAN]

NodesTyped ==
    /\ nodes \in RowsOf /\ nodeRows \in RowsOf /\ reach \subseteq {"a", "b"}
    /\ heart = NodesP!None \/ heart \in [of : RowsOf, left : SUBSET NodesP!Ids]
    /\ nodesRefetch \in {NodesP!None, NodesP!Asked} \cup Reads /\ pushed \in {NodesP!None} \cup Reads
    /\ nodesListError \in BOOLEAN /\ unheard \in BOOLEAN /\ overlaid \in BOOLEAN /\ busy \in BOOLEAN
    /\ pick \subseteq NodesP!Ids /\ nsteps \in Nat
    /\ nodesAsk = NodesP!None \/ nodesAsk \in [kind : {"delete", "update"}, ids : SUBSET NodesP!Ids]
    /\ nform \in [open : BOOLEAN, n : Nat, id : {0} \cup NodesP!Ids, base : NodesP!AllValues, v : NodesP!AllValues]
    /\ ncalls \subseteq NodeCalls

\* The form's own calls carry its number, node and values; one of them at a
\* time, and one of a confirmation.
CallsKnown ==
    /\ \A c \in ncalls : c.kind \in {"check", "save"} =>
          nform.open /\ nform.n = c.n /\ c.ids = {nform.id} /\ c.base = nform.base
    /\ \A c, d \in ncalls : c.kind \in {"check", "save"} /\ d.kind \in {"check", "save"} => c = d
    /\ \A c, d \in ncalls : c.kind \in {"delete", "update"} /\ d.kind \in {"delete", "update"} => c = d
    /\ \A c \in ncalls : c.kind \in {"delete", "update"} => busy
    /\ \A c \in ncalls : c.kind = "toggle" => \E i \in NodesP!Ids : c.ids = {i}

OverlayCauses == {"raced", "staleRow", "ownLate"}
\* The node still has the values its form opened with, but for a cause or the
\* form's own save.
BaseKnown ==
    (/\ nform.open /\ nform.id \in DOMAIN nodes /\ nwhy \cap OverlayCauses = {}
     /\ \A c \in ncalls : c.kind = "save" => c.ans # "ok") => nodes[nform.id].v = nform.base

NodesKnown ==
    /\ CallsKnown
    /\ NodesP!ResultIsOfForm
    /\ NodesP!PinIsOfItsAddress
    /\ BaseKnown
    /\ NodesP!OverlaidHasCause

LEMMA InitNodes == ASSUME NodesP!Init PROVE NodesTyped /\ NodesKnown
<1> USE DEF NodesP!Init
<1>1. \A a \in {"", "a", "b"}, t \in {"verify", "pin", "skip", "http"}, p \in {"", "a", "b"}, o \in BOOLEAN :
        NodesP!Values(a, t, p, o) \in NodesP!AllValues
    BY DEF NodesP!Values, NodesP!AllValues
<1>2. NodesP!defaultValues \in NodesP!AllValues
    BY <1>1 DEF NodesP!defaultValues
<1>3. nodes \in [1..2 -> NodesP!Rows]
    BY <1>1 DEF NodesP!Rows
<1>4. nodes \in RowsOf
    <2>1. (1..2) \in SUBSET NodesP!Ids
        <3> HIDE DEF NodesP!Init
        <3> QED BY DEF NodesP!Ids
    <2> QED BY <1>3, <2>1 DEF RowsOf
<1>5. nform \in [open : BOOLEAN, n : Nat, id : {0} \cup NodesP!Ids, base : NodesP!AllValues, v : NodesP!AllValues]
      /\ ~nform.open
    BY <1>2
<1>6. \A c \in ncalls : c \in NodeCalls /\ c.kind \in {"test", "pin"}
    <2> DEFINE W == NodesP!Values("a", "pin", "", TRUE)
    <2>1. W \in NodesP!AllValues
        BY <1>1
    <2>2. \A k \in {"test", "pin"} : NodesP!Call(k, 0, {}, W) \in NodeCalls /\ NodesP!Call(k, 0, {}, W).kind = k
        <3> HIDE DEF W
        <3> QED BY <1>5, <2>1 DEF NodesP!Call, NodeCalls, Kinds
    <2> QED BY <2>2
<1>7. NodesTyped
    BY <1>4, <1>5, <1>6 DEF NodesTyped
<1>8. NodesP!PinIsOfItsAddress
    <2>1. \A i \in DOMAIN nodes : nodes[i].v = NodesP!Values("a", "verify", "", TRUE)
                                  \/ nodes[i].v = NodesP!Values("b", "pin", "b", TRUE)
        BY <1>3
    <2> QED BY <2>1 DEF NodesP!PinIsOfItsAddress, NodesP!Values
<1>9. CallsKnown /\ NodesP!ResultIsOfForm /\ BaseKnown /\ NodesP!OverlaidHasCause
    BY <1>5, <1>6 DEF CallsKnown, NodesP!ResultIsOfForm, BaseKnown, NodesP!OverlaidHasCause
<1> QED
    BY <1>7, <1>8, <1>9 DEF NodesKnown

-----------------------------------------------------------------------------
\* What is known of the nodes and calls lasts while only rows, reads and the
\* nodes' states change.
LEMMA NodesStill ==
    ASSUME NodesKnown, UNCHANGED <<nform, result, ncalls, busy, overlaid>>,
           DOMAIN nodes' \subseteq DOMAIN nodes, \A i \in DOMAIN nodes' : nodes'[i].v = nodes[i].v,
           nwhy \ {"crossed"} \subseteq nwhy'
    PROVE  NodesKnown'
<1>1. CallsKnown'
    BY DEF NodesKnown, CallsKnown
<1>2. NodesP!ResultIsOfForm' /\ NodesP!OverlaidHasCause'
    BY DEF NodesKnown, NodesP!ResultIsOfForm, NodesP!OverlaidHasCause
<1>3. NodesP!PinIsOfItsAddress'
    BY DEF NodesKnown, NodesP!PinIsOfItsAddress
<1>4. BaseKnown'
    BY DEF NodesKnown, BaseKnown, OverlayCauses
<1> QED
    BY <1>1, <1>2, <1>3, <1>4 DEF NodesKnown

LEMMA RowsSay ==
    ASSUME NEW f \in RowsOf
    PROVE  DOMAIN f \subseteq NodesP!Ids /\ f = [i \in DOMAIN f |-> f[i]] /\ \A i \in DOMAIN f : f[i] \in NodesP!Rows
BY DEF RowsOf

LEMMA RowsMade ==
    ASSUME NEW D \in SUBSET NodesP!Ids, NEW f, f = [i \in D |-> f[i]], \A i \in D : f[i] \in NodesP!Rows
    PROVE  f \in RowsOf
<1>1. f \in [D -> NodesP!Rows]
    OBVIOUS
<1> QED BY <1>1 DEF RowsOf

LEMMA RowSays ==
    ASSUME NEW r \in NodesP!Rows
    PROVE  /\ r.v \in NodesP!AllValues /\ r.status \in {"unknown", "online", "offline"}
           /\ \A v \in NodesP!AllValues : [r EXCEPT !.v = v] \in NodesP!Rows /\ [r EXCEPT !.v = v].v = v
           /\ \A s \in {"online", "offline"} : [r EXCEPT !.status = s] \in NodesP!Rows /\ [r EXCEPT !.status = s].v = r.v
           /\ \A b \in BOOLEAN :
                 [r EXCEPT !.v.on = b] \in NodesP!Rows /\ [r EXCEPT !.v.on = b].v = [r.v EXCEPT !.on = b]
BY DEF NodesP!Rows, NodesP!AllValues

LEMMA RowOn ==
    ASSUME NEW r \in NodesP!Rows, NEW b \in BOOLEAN
    PROVE  [r EXCEPT !.v.on = b] \in NodesP!Rows /\ [r EXCEPT !.v.on = b].v = [r.v EXCEPT !.on = b]
           /\ r.v \in NodesP!AllValues
BY DEF NodesP!Rows, NodesP!AllValues

LEMMA RowValue ==
    ASSUME NEW r \in NodesP!Rows, NEW v \in NodesP!AllValues
    PROVE  [r EXCEPT !.v = v] \in NodesP!Rows /\ [r EXCEPT !.v = v].v = v
BY DEF NodesP!Rows

LEMMA ValueOn ==
    ASSUME NEW v \in NodesP!AllValues, NEW b \in BOOLEAN
    PROVE  [v EXCEPT !.on = b].tls = v.tls /\ [v EXCEPT !.on = b].pin = v.pin /\ [v EXCEPT !.on = b].addr = v.addr
BY DEF NodesP!AllValues

LEMMA ValueSays ==
    ASSUME NEW v \in NodesP!AllValues
    PROVE  /\ \A b \in BOOLEAN : [v EXCEPT !.on = b] \in NodesP!AllValues
                                 /\ [v EXCEPT !.on = b].tls = v.tls /\ [v EXCEPT !.on = b].pin = v.pin
                                 /\ [v EXCEPT !.on = b].addr = v.addr
           /\ \A a \in {"", "a", "b"} : [v EXCEPT !.addr = a] \in NodesP!AllValues /\ [v EXCEPT !.pin = a] \in NodesP!AllValues
           /\ \A t \in {"verify", "pin", "skip", "http"} : [v EXCEPT !.tls = t] \in NodesP!AllValues
           /\ v.on \in BOOLEAN /\ v.pin \in {"", "a", "b"} /\ v.addr \in {"", "a", "b"}
           /\ v.tls \in {"verify", "pin", "skip", "http"}
BY DEF NodesP!AllValues

-----------------------------------------------------------------------------
(* The world and the list *)

\* What a list action may change keeps its type; the rest stays.
LEMMA ListTyped ==
    ASSUME NodesTyped, UNCHANGED <<reach, overlaid, nform, ncalls>>,
           nodes' \in RowsOf, nodeRows' \in RowsOf, nodesListError' \in BOOLEAN, unheard' \in BOOLEAN,
           heart' = heart \/ heart' = NodesP!None \/ heart' \in [of : RowsOf, left : SUBSET NodesP!Ids],
           nodesRefetch' \in {NodesP!None, NodesP!Asked} \cup Reads, pushed' \in {NodesP!None} \cup Reads,
           busy' \in BOOLEAN, pick' \subseteq NodesP!Ids, nsteps' \in Nat,
           nodesAsk' = nodesAsk \/ nodesAsk' = NodesP!None
               \/ nodesAsk' \in [kind : {"delete", "update"}, ids : SUBSET NodesP!Ids]
    PROVE  NodesTyped'
BY DEF NodesTyped

LEMMA WorldNodes ==
    ASSUME NodesTyped, NodesKnown,
           \/ \E a \in {"a", "b"} : NodesP!reachChanges(a)
           \/ NodesP!heartBegins
           \/ \E i \in NodesP!Ids : NodesP!otherToggles(i) \/ NodesP!otherDeletes(i) \/ NodesP!probeOne(i)
    PROVE  NodesTyped' /\ NodesKnown'
<1> USE DEF NodesP!worldKeeps, NodesP!asking, NodesP!formed, NodesP!World, NodesP!bounds
<1>1. nodes \in RowsOf /\ nsteps \in Nat
    BY DEF NodesTyped
<1>2. ASSUME NEW a \in {"a", "b"}, NodesP!reachChanges(a) PROVE NodesTyped' /\ NodesKnown'
    <2>1. NodesTyped'
        BY <1>2 DEF NodesP!reachChanges, NodesTyped
    <2>2. UNCHANGED <<nodes, nform, result, ncalls, busy, overlaid, nwhy>>
        BY <1>2 DEF NodesP!reachChanges
    <2> QED BY <2>1, <2>2, NodesStill
<1>3. CASE NodesP!heartBegins
    <2>1. heart' = [of |-> nodes, left |-> {i \in DOMAIN nodes : nodes[i].v.on}]
          /\ UNCHANGED <<nodes, reach, unheard, nodeRows, nodesListError, nodesRefetch, pushed, pick, nodesAsk, busy, nform,
                         result, ncalls, overlaid, nwhy, nsteps>>
        BY <1>3 DEF NodesP!heartBegins
    <2>2. {i \in DOMAIN nodes : nodes[i].v.on} \in SUBSET NodesP!Ids
        BY <1>1, RowsSay
    <2>3. heart' \in [of : RowsOf, left : SUBSET NodesP!Ids]
        BY <1>1, <2>1, <2>2
    <2>4. NodesTyped'
        BY <2>1, <2>3 DEF NodesTyped
    <2> QED BY <2>1, <2>4, NodesStill
<1>4. ASSUME NEW i \in NodesP!Ids, NodesP!otherToggles(i) PROVE NodesTyped' /\ NodesKnown'
    <2>1. /\ i \in DOMAIN nodes /\ nodes' = [nodes EXCEPT ![i].v.on = ~@] /\ unheard' = TRUE
          /\ nwhy' = NodesP!Raced(i, "raced")
          /\ UNCHANGED <<reach, heart, nodeRows, nodesListError, nodesRefetch, pushed, pick, nodesAsk, busy, nform,
                         result, ncalls, overlaid, nsteps>>
        BY <1>4 DEF NodesP!otherToggles
    <2>2. nodes[i] \in NodesP!Rows /\ nodes = [j \in DOMAIN nodes |-> nodes[j]] /\ DOMAIN nodes \in SUBSET NodesP!Ids
        BY <1>1, <2>1, RowsSay
    <2>3. nodes[i].v \in NodesP!AllValues /\ nodes[i].v.on \in BOOLEAN
        BY <2>2, RowSays, ValueSays
    <2>4. [nodes[i] EXCEPT !.v.on = ~@] \in NodesP!Rows
          /\ [nodes[i] EXCEPT !.v.on = ~@].v = [nodes[i].v EXCEPT !.on = ~nodes[i].v.on]
        BY <2>2 DEF NodesP!Rows, NodesP!AllValues
    <2>5. /\ DOMAIN nodes' = DOMAIN nodes /\ nodes' = [j \in DOMAIN nodes |-> nodes'[j]]
          /\ \A j \in DOMAIN nodes : nodes'[j] = IF j = i THEN [nodes[i] EXCEPT !.v.on = ~@] ELSE nodes[j]
        BY <2>1, <2>2
    <2>6. nodes' \in RowsOf
        BY <1>1, <2>2, <2>4, <2>5, RowsSay, RowsMade
    <2>7. NodesTyped'
        BY <2>1, <2>6 DEF NodesTyped
    <2>8. NodesP!PinIsOfItsAddress'
        <3>1. \A b \in BOOLEAN : [nodes[i].v EXCEPT !.on = b].tls = nodes[i].v.tls
                 /\ [nodes[i].v EXCEPT !.on = b].pin = nodes[i].v.pin
                 /\ [nodes[i].v EXCEPT !.on = b].addr = nodes[i].v.addr
            BY <2>3, ValueSays
        <3>2. nodes'[i].v = [nodes[i].v EXCEPT !.on = ~nodes[i].v.on]
            BY <2>1, <2>4, <2>5
        <3>3. nodes'[i].v.tls = nodes[i].v.tls /\ nodes'[i].v.pin = nodes[i].v.pin /\ nodes'[i].v.addr = nodes[i].v.addr
            BY <3>1, <3>2, Zenon
        <3> QED BY <2>5, <3>3 DEF NodesKnown, NodesP!PinIsOfItsAddress
    <2>9. BaseKnown'
        BY <2>1, <2>5 DEF NodesKnown, BaseKnown, NodesP!Raced, OverlayCauses
    <2>10. nwhy \subseteq nwhy'
        BY <2>1 DEF NodesP!Raced
    <2>11. CallsKnown' /\ NodesP!ResultIsOfForm' /\ NodesP!OverlaidHasCause'
        BY <2>1, <2>10 DEF NodesKnown, CallsKnown, NodesP!ResultIsOfForm, NodesP!OverlaidHasCause
    <2> QED BY <2>7, <2>8, <2>9, <2>11 DEF NodesKnown
<1>5. ASSUME NEW i \in NodesP!Ids, NodesP!otherDeletes(i) PROVE NodesTyped' /\ NodesKnown'
    <2>1. /\ nodes' = [j \in DOMAIN nodes \ {i} |-> nodes[j]] /\ unheard' = TRUE
          /\ UNCHANGED <<reach, heart, nodeRows, nodesListError, nodesRefetch, pushed, pick, nodesAsk, busy, nform,
                         result, ncalls, overlaid, nsteps, nwhy>>
        BY <1>5 DEF NodesP!otherDeletes
    <2>2. nodes' \in RowsOf
        BY <1>1, <2>1, RowsSay, RowsMade
    <2>3. NodesTyped'
        BY <2>1, <2>2 DEF NodesTyped
    <2> QED BY <2>1, <2>3, NodesStill
<1>6. ASSUME NEW i \in NodesP!Ids, NodesP!probeOne(i) PROVE NodesTyped' /\ NodesKnown'
    <2>1. /\ heart # NodesP!None /\ heart' = [heart EXCEPT !.left = @ \ {i}]
          /\ nodes' = IF i \in DOMAIN nodes THEN [nodes EXCEPT ![i].status = NodesP!Measured(heart.of[i].v)] ELSE nodes
          /\ unheard' = (unheard \/ nodes' # nodes)
          /\ UNCHANGED <<reach, nodeRows, nodesListError, nodesRefetch, pushed, pick, nodesAsk, busy, nform,
                         result, ncalls, overlaid, nsteps, nwhy>>
        BY <1>6 DEF NodesP!probeOne
    <2>2. NodesP!Measured(heart.of[i].v) \in {"online", "offline"}
        BY DEF NodesP!Measured
    <2>3. /\ DOMAIN nodes' = DOMAIN nodes /\ nodes' = [j \in DOMAIN nodes |-> nodes'[j]]
          /\ \A j \in DOMAIN nodes : nodes'[j] \in NodesP!Rows /\ nodes'[j].v = nodes[j].v
        BY <1>1, <2>1, <2>2, RowsSay, RowSays
    <2>4. nodes' \in RowsOf
        BY <1>1, <2>3, RowsSay, RowsMade
    <2>5. heart' \in [of : RowsOf, left : SUBSET NodesP!Ids]
        <3>1. heart \in [of : RowsOf, left : SUBSET NodesP!Ids]
            BY <2>1 DEF NodesTyped
        <3> QED BY <2>1, <3>1
    <2>6. NodesTyped'
        BY <2>1, <2>4, <2>5 DEF NodesTyped
    <2> QED BY <2>1, <2>3, <2>6, NodesStill
<1> QED BY <1>2, <1>3, <1>4, <1>5, <1>6

LEMMA ReadTyped ==
    ASSUME NodesTyped
    PROVE  /\ NodesP!Read \in Reads
           /\ \A s \in {NodesP!None, NodesP!Asked} \cup Reads :
                 NodesP!Overtaken(s) \in {NodesP!None, NodesP!Asked} \cup Reads
           /\ NodesP!Overtaken(NodesP!None) = NodesP!None
           /\ \A s \in {NodesP!None} \cup Reads : NodesP!Overtaken(s) \in {NodesP!None} \cup Reads
<1>1. NodesP!Read \in Reads
    BY DEF NodesTyped, NodesP!Read, Reads
<1>2. \A s \in Reads : [s EXCEPT !.overtaken = TRUE] \in Reads
    BY DEF Reads
<1>3. \A s \in Reads : s \notin {NodesP!None, NodesP!Asked}
    BY DEF Reads, NodesP!None, NodesP!Asked
<1> QED
    BY <1>1, <1>2, <1>3 DEF NodesP!Overtaken

LEMMA ListNodes ==
    ASSUME NodesTyped, NodesKnown,
           \/ NodesP!BroadcastNodes \/ NodesP!nodesRead \/ NodesP!onNodes
           \/ \E ok \in BOOLEAN : NodesP!fetchNodes(ok)
    PROVE  NodesTyped' /\ NodesKnown'
<1> USE DEF NodesP!server, NodesP!asking, NodesP!formed, NodesP!bounds
<1>1. /\ nodes \in RowsOf /\ nodeRows \in RowsOf /\ nodesListError \in BOOLEAN /\ unheard \in BOOLEAN
      /\ nodesRefetch \in {NodesP!None, NodesP!Asked} \cup Reads /\ pushed \in {NodesP!None} \cup Reads
      /\ busy \in BOOLEAN /\ pick \subseteq NodesP!Ids /\ nsteps \in Nat
    BY DEF NodesTyped
<1>2. \A s \in Reads : s.rows \in RowsOf
    BY DEF Reads
<1>3. CASE NodesP!BroadcastNodes
    <2>1. /\ heart' = NodesP!None /\ pushed' = NodesP!Read /\ nodesRefetch' = NodesP!Overtaken(nodesRefetch)
          /\ unheard' = FALSE
          /\ UNCHANGED <<nodes, reach, nodeRows, nodesListError, pick, nodesAsk, busy, nform, result, ncalls, overlaid,
                         nwhy, nsteps>>
        BY <1>3 DEF NodesP!BroadcastNodes
    <2>2. NodesTyped'
        BY <1>1, <2>1, ReadTyped, ListTyped
    <2> QED BY <2>1, <2>2, NodesStill
<1>4. CASE NodesP!nodesRead
    <2>1. /\ nodesRefetch' = NodesP!Read /\ pushed' = NodesP!Overtaken(pushed) /\ unheard' = FALSE
          /\ UNCHANGED <<nodes, reach, heart, nodeRows, nodesListError, pick, nodesAsk, busy, nform, result, ncalls,
                         overlaid, nwhy, nsteps>>
        BY <1>4 DEF NodesP!nodesRead
    <2>2. NodesTyped'
        BY <1>1, <2>1, ReadTyped, ListTyped
    <2> QED BY <2>1, <2>2, NodesStill
<1>5. CASE NodesP!onNodes
    <2>1. /\ pushed # NodesP!None /\ pushed' = NodesP!None /\ nodeRows' = pushed.rows /\ nodesListError' = FALSE
          /\ nwhy \ {"crossed"} \subseteq nwhy'
          /\ UNCHANGED <<nodes, reach, heart, nodesRefetch, unheard, pick, nodesAsk, busy, nform, result, ncalls,
                         overlaid, nsteps>>
        BY <1>5 DEF NodesP!onNodes, NodesP!Landed
    <2>2. pushed.rows \in RowsOf
        BY <1>1, <1>2, <2>1
    <2>3. NodesTyped'
        BY <1>1, <2>1, <2>2, ListTyped
    <2> QED BY <2>1, <2>3, NodesStill
<1>6. ASSUME NEW ok \in BOOLEAN, NodesP!fetchNodes(ok) PROVE NodesTyped' /\ NodesKnown'
    <2>1. /\ nodesRefetch \notin {NodesP!None, NodesP!Asked} /\ nodesRefetch' = NodesP!None
          /\ nodesListError' \in BOOLEAN /\ unheard' \in {TRUE, unheard}
          /\ nodeRows' \in {nodeRows, nodesRefetch.rows}
          /\ nwhy \ {"crossed"} \subseteq nwhy'
          /\ UNCHANGED <<nodes, reach, heart, pushed, pick, nodesAsk, busy, nform, result, ncalls, overlaid, nsteps>>
        BY <1>6 DEF NodesP!fetchNodes, NodesP!Landed
    <2>2. nodesRefetch.rows \in RowsOf
        BY <1>1, <1>2, <2>1
    <2>3. nodeRows' \in RowsOf /\ unheard' \in BOOLEAN
        BY <1>1, <2>1, <2>2
    <2>4. NodesTyped'
        BY <1>1, <2>1, <2>3, ListTyped
    <2> QED BY <2>1, <2>4, NodesStill
<1> QED BY <1>3, <1>4, <1>5, <1>6

-----------------------------------------------------------------------------
(* The user's acts *)

LEMMA ActKeeps ==
    ASSUME NodesTyped, NodesP!Acts, UNCHANGED NodesP!actKeeps
    PROVE  /\ UNCHANGED <<nodes, reach, heart, nodeRows, nodesListError, pushed, unheard, overlaid>>
           /\ nsteps' \in Nat /\ nsteps' = nsteps + 1
BY DEF NodesTyped, NodesP!Acts, NodesP!actKeeps, NodesP!server

LEMMA PickNodes ==
    ASSUME NodesTyped, NodesKnown,
           \/ NodesP!Refresh \/ NodesP!toggleAll \/ NodesP!onUpdateSelected \/ NodesP!closeConfirm
           \/ \E i \in NodesP!Ids : NodesP!toggleRow(i) \/ NodesP!onDelete(i) \/ NodesP!onUpdateNode(i)
    PROVE  NodesTyped' /\ NodesKnown'
<1>1. /\ NodesP!Acts /\ UNCHANGED NodesP!actKeeps /\ UNCHANGED <<busy, nform, result, ncalls, nwhy>>
      /\ nodesRefetch' \in {nodesRefetch, NodesP!Asked}
    BY DEF NodesP!Refresh, NodesP!toggleAll, NodesP!onUpdateSelected, NodesP!closeConfirm, NodesP!toggleRow,
        NodesP!onDelete, NodesP!onUpdateNode, NodesP!Confirm, NodesP!asking, NodesP!formed
<1>2. NodesP!selectable \subseteq NodesP!Ids /\ DOMAIN nodeRows \subseteq NodesP!Ids
    BY RowsSay DEF NodesTyped, NodesP!selectable
<1>3. pick' \subseteq NodesP!Ids
    BY <1>2 DEF NodesTyped, NodesP!Refresh, NodesP!toggleAll, NodesP!onUpdateSelected, NodesP!closeConfirm, NodesP!toggleRow,
        NodesP!onDelete, NodesP!onUpdateNode, NodesP!Confirm, NodesP!asking
<1>4. nodesAsk' = nodesAsk \/ nodesAsk' = NodesP!None
      \/ nodesAsk' \in [kind : {"delete", "update"}, ids : SUBSET NodesP!Ids]
    <2>1. ASSUME NEW k \in {"delete", "update"}, NEW S \in SUBSET NodesP!Ids, NodesP!Confirm(k, S)
          PROVE  nodesAsk' \in [kind : {"delete", "update"}, ids : SUBSET NodesP!Ids]
        BY <2>1 DEF NodesP!Confirm
    <2>2. CASE NodesP!onUpdateSelected
        BY <1>2, <2>1, <2>2 DEF NodesP!onUpdateSelected
    <2>3. ASSUME NEW i \in NodesP!Ids, NodesP!onDelete(i) \/ NodesP!onUpdateNode(i)
          PROVE  nodesAsk' \in [kind : {"delete", "update"}, ids : SUBSET NodesP!Ids]
        BY <2>1, <2>3 DEF NodesP!onDelete, NodesP!onUpdateNode
    <2>4. CASE NodesP!Refresh \/ NodesP!toggleAll \/ NodesP!closeConfirm \/ \E i \in NodesP!Ids : NodesP!toggleRow(i)
        BY <2>4 DEF NodesP!Refresh, NodesP!toggleAll, NodesP!closeConfirm, NodesP!toggleRow, NodesP!asking
    <2> QED BY <2>2, <2>3, <2>4
<1>5. UNCHANGED <<nodes, reach, heart, nodeRows, nodesListError, pushed, unheard, overlaid>> /\ nsteps' \in Nat
    BY <1>1, ActKeeps
<1>6. NodesTyped'
    BY <1>1, <1>3, <1>4, <1>5 DEF NodesTyped
<1> QED
    BY <1>1, <1>5, <1>6, NodesStill

\* A call just made has the form's base and no answer.
LEMMA CallMade ==
    ASSUME NodesTyped, NEW k \in Kinds, NEW n \in Nat, NEW S \in SUBSET (NodesP!Ids \cup {0}), NEW v \in NodesP!AllValues
    PROVE  LET c == NodesP!Call(k, n, S, v)
           IN  c \in NodeCalls /\ c.kind = k /\ c.n = n /\ c.ids = S /\ c.v = v /\ c.base = nform.base /\ c.ans = "asked"
BY DEF NodesTyped, NodesP!Call, NodeCalls

\* Another call on its way leaves what is known of the nodes.
LEMMA CallNodes ==
    ASSUME NodesTyped, NodesKnown, NEW c, ncalls' = ncalls \cup {c}, c.ans = "asked",
           UNCHANGED <<nform, nodes, overlaid, nwhy>>, result' \in {result, NodesP!None}, CallsKnown'
    PROVE  NodesKnown'
<1>1. NodesP!ResultIsOfForm' /\ NodesP!PinIsOfItsAddress' /\ NodesP!OverlaidHasCause'
    BY DEF NodesKnown, NodesP!ResultIsOfForm, NodesP!PinIsOfItsAddress, NodesP!OverlaidHasCause
<1>2. BaseKnown'
    BY DEF NodesKnown, BaseKnown
<1> QED
    BY <1>1, <1>2 DEF NodesKnown

LEMMA AskNodes ==
    ASSUME NodesTyped, NodesKnown,
           \/ NodesP!runConfirm \/ NodesP!onTest \/ NodesP!onFetchPin \/ NodesP!submit
           \/ \E i \in NodesP!Ids : NodesP!onToggleEnable(i) \/ NodesP!onProbe(i)
    PROVE  NodesTyped' /\ NodesKnown'
<1>1. NodesP!Acts /\ UNCHANGED NodesP!actKeeps /\ UNCHANGED <<nodesRefetch, pick, nodesAsk, nform, nwhy>>
    BY DEF NodesP!runConfirm, NodesP!onTest, NodesP!onFetchPin, NodesP!submit, NodesP!onToggleEnable, NodesP!onProbe,
        NodesP!asking, NodesP!formed
<1>2. UNCHANGED <<nodes, reach, heart, nodeRows, nodesListError, pushed, unheard, overlaid>> /\ nsteps' \in Nat
    BY <1>1, ActKeeps
<1>3. ASSUME NEW c \in NodeCalls, ncalls' = ncalls \cup {c}, busy' \in BOOLEAN PROVE NodesTyped'
    BY <1>1, <1>2, <1>3 DEF NodesTyped
<1>4. /\ nform.n \in Nat /\ nform.id \in NodesP!Ids \cup {0} /\ nform.v \in NodesP!AllValues /\ busy \in BOOLEAN
      /\ NodesP!buildPayload(nform.v) \in NodesP!AllValues /\ NodesP!defaultValues \in NodesP!AllValues
    BY DEF NodesTyped, NodesP!buildPayload, NodesP!AllValues, NodesP!defaultValues, NodesP!Values
<1>5. \A i \in NodesP!Ids : {i} \in SUBSET (NodesP!Ids \cup {0}) /\ {nform.id} \in SUBSET (NodesP!Ids \cup {0})
    BY <1>4
<1>6. CASE NodesP!runConfirm
    <2> DEFINE c == NodesP!Call(nodesAsk.kind, nsteps', nodesAsk.ids, NodesP!defaultValues)
    <2>1. /\ nodesAsk # NodesP!None /\ ~busy /\ busy' = TRUE /\ ncalls' = ncalls \cup {c} /\ result' = result
        BY <1>6 DEF NodesP!runConfirm, NodesP!formed
    <2>2. nodesAsk.kind \in {"delete", "update"} /\ nodesAsk.ids \in SUBSET (NodesP!Ids \cup {0})
        BY <2>1 DEF NodesTyped
    <2>3. c \in NodeCalls /\ c.kind = nodesAsk.kind /\ c.ans = "asked"
        BY <1>2, <1>4, <2>2, CallMade DEF Kinds
    <2> HIDE DEF c
    <2>4. CallsKnown'
        BY <1>1, <2>1, <2>2, <2>3 DEF NodesKnown, CallsKnown
    <2> QED BY <1>1, <1>2, <1>3, <2>1, <2>3, <2>4, CallNodes
<1>7. CASE NodesP!onTest
    <2> DEFINE c == NodesP!Call("test", nform.n, {}, NodesP!buildPayload(nform.v))
    <2>1. ncalls' = ncalls \cup {c} /\ result' = NodesP!None /\ busy' = busy
        BY <1>7 DEF NodesP!onTest, NodesP!asking
    <2>2. c \in NodeCalls /\ c.kind = "test" /\ c.ans = "asked"
        BY <1>4, CallMade DEF Kinds
    <2> HIDE DEF c
    <2>3. CallsKnown'
        BY <1>1, <2>1, <2>2 DEF NodesKnown, CallsKnown
    <2> QED BY <1>1, <1>2, <1>3, <1>4, <2>1, <2>2, <2>3, CallNodes
<1>8. CASE NodesP!onFetchPin
    <2> DEFINE c == NodesP!Call("pin", nform.n, {}, nform.v)
    <2>1. ncalls' = ncalls \cup {c} /\ result' = result /\ busy' = busy
        BY <1>8 DEF NodesP!onFetchPin, NodesP!asking, NodesP!formed
    <2>2. c \in NodeCalls /\ c.kind = "pin" /\ c.ans = "asked"
        BY <1>4, CallMade DEF Kinds
    <2> HIDE DEF c
    <2>3. CallsKnown'
        BY <1>1, <2>1, <2>2 DEF NodesKnown, CallsKnown
    <2> QED BY <1>1, <1>2, <1>3, <1>4, <2>1, <2>2, <2>3, CallNodes
<1>9. CASE NodesP!submit
    <2> DEFINE c == NodesP!Call("check", nform.n, {nform.id}, NodesP!buildPayload(nform.v))
    <2>1. ncalls' = ncalls \cup {c} /\ result' = result /\ busy' = busy /\ nform.open
          /\ \A d \in ncalls : d.kind \notin {"check", "save"}
        BY <1>9 DEF NodesP!submit, NodesP!asking, NodesP!formed, NodesP!submitting, NodesP!Under
    <2>2. c \in NodeCalls /\ c.kind = "check" /\ c.ans = "asked" /\ c.n = nform.n /\ c.ids = {nform.id}
          /\ c.base = nform.base
        BY <1>4, <1>5, CallMade DEF Kinds
    <2> HIDE DEF c
    <2>3. CallsKnown'
        BY <1>1, <2>1, <2>2 DEF NodesKnown, CallsKnown
    <2> QED BY <1>1, <1>2, <1>3, <1>4, <2>1, <2>2, <2>3, CallNodes
<1>10. ASSUME NEW i \in NodesP!Ids, NodesP!onToggleEnable(i) PROVE NodesTyped' /\ NodesKnown'
    <2> DEFINE w == [nodeRows[i].v EXCEPT !.on = ~@]
               c == NodesP!Call("toggle", nsteps', {i}, w)
    <2>1. ncalls' = ncalls \cup {c} /\ result' = result /\ busy' = busy /\ i \in DOMAIN nodeRows
        BY <1>10 DEF NodesP!onToggleEnable, NodesP!asking, NodesP!formed
    <2>2. nodeRows[i].v \in NodesP!AllValues
        BY <2>1, RowsSay, RowSays DEF NodesTyped
    <2>3. w \in NodesP!AllValues
        BY <2>2 DEF NodesP!AllValues
    <2> HIDE DEF w
    <2>4. c \in NodeCalls /\ c.kind = "toggle" /\ c.ans = "asked" /\ c.ids = {i}
        BY <1>2, <1>5, <2>3, CallMade DEF Kinds
    <2> HIDE DEF c
    <2>5. CallsKnown'
        BY <1>1, <2>1, <2>4 DEF NodesKnown, CallsKnown
    <2> QED BY <1>1, <1>2, <1>3, <1>4, <2>1, <2>4, <2>5, CallNodes
<1>11. ASSUME NEW i \in NodesP!Ids, NodesP!onProbe(i) PROVE NodesTyped' /\ NodesKnown'
    <2> DEFINE c == NodesP!Call("probe", nsteps', {i}, NodesP!defaultValues)
    <2>1. ncalls' = ncalls \cup {c} /\ result' = result /\ busy' = busy
        BY <1>11 DEF NodesP!onProbe, NodesP!asking, NodesP!formed
    <2>2. c \in NodeCalls /\ c.kind = "probe" /\ c.ans = "asked"
        BY <1>2, <1>4, <1>5, CallMade DEF Kinds
    <2> HIDE DEF c
    <2>3. CallsKnown'
        BY <1>1, <2>1, <2>2 DEF NodesKnown, CallsKnown
    <2> QED BY <1>1, <1>2, <1>3, <1>4, <2>1, <2>2, <2>3, CallNodes
<1> QED BY <1>6, <1>7, <1>8, <1>9, <1>10, <1>11

IsNodeForm(f) == f \in [open : BOOLEAN, n : Nat, id : {0} \cup NodesP!Ids, base : NodesP!AllValues, v : NodesP!AllValues]

LEMMA OpenNodes ==
    ASSUME NodesTyped, NodesKnown, NodesP!onAdd \/ \E i \in NodesP!Ids : NodesP!onEdit(i)
    PROVE  NodesTyped' /\ NodesKnown'
<1>1. PICK id, v :
        /\ id \in {0} \cup NodesP!Ids /\ NodesP!openForm(id, v) /\ nwhy \subseteq nwhy'
        /\ \/ id = 0 /\ v = NodesP!defaultValues
           \/ /\ id \in DOMAIN nodeRows /\ v = nodeRows[id].v
              /\ id \in DOMAIN nodes /\ nodes[id].v # v => "staleRow" \in nwhy'
    BY DEF NodesP!onAdd, NodesP!onEdit
<1>2. /\ NodesP!Acts /\ UNCHANGED NodesP!actKeeps /\ UNCHANGED <<nodesRefetch, pick, nodesAsk, busy, ncalls>>
      /\ ~nform.open /\ result' = NodesP!None
      /\ nform' = [open |-> TRUE, n |-> nsteps', id |-> id, base |-> v, v |-> v]
    BY <1>1 DEF NodesP!openForm, NodesP!PageFree, NodesP!asking
<1>3. UNCHANGED <<nodes, reach, heart, nodeRows, nodesListError, pushed, unheard, overlaid>> /\ nsteps' \in Nat
    BY <1>2, ActKeeps
<1>4. v \in NodesP!AllValues
    <2>1. NodesP!defaultValues \in NodesP!AllValues
        BY DEF NodesP!AllValues, NodesP!defaultValues, NodesP!Values
    <2>2. nodeRows \in RowsOf
        BY DEF NodesTyped
    <2>3. \A i \in DOMAIN nodeRows : nodeRows[i].v \in NodesP!AllValues
        BY <2>2, RowsSay, RowSays
    <2>4. v = NodesP!defaultValues \/ (id \in DOMAIN nodeRows /\ v = nodeRows[id].v)
        BY <1>1, Zenon
    <2> QED BY <2>1, <2>3, <2>4
<1>5. NodesTyped'
    <2>1. id \in {0} \cup NodesP!Ids
        BY <1>1
    <2> QED BY <1>2, <1>3, <1>4, <2>1 DEF NodesTyped
<1>6. CallsKnown'
    BY <1>2 DEF NodesKnown, CallsKnown
<1>7. BaseKnown'
    <2>1. 0 \notin DOMAIN nodes
        BY RowsSay DEF NodesTyped, NodesP!Ids
    <2> QED BY <1>1, <1>2, <1>3, <2>1 DEF BaseKnown, OverlayCauses
<1>8. NodesP!ResultIsOfForm' /\ NodesP!PinIsOfItsAddress' /\ NodesP!OverlaidHasCause'
    BY <1>1, <1>2, <1>3 DEF NodesKnown, NodesP!ResultIsOfForm, NodesP!PinIsOfItsAddress, NodesP!OverlaidHasCause
<1> QED
    BY <1>5, <1>6, <1>7, <1>8 DEF NodesKnown

\* The form's values change, or it closes with none of its calls under way.
LEMMA FormNodes ==
    ASSUME NodesTyped, NodesKnown, UNCHANGED <<nodes, ncalls, overlaid, nwhy, result, busy>>,
           nform'.n = nform.n, nform'.id = nform.id, nform'.base = nform.base,
           nform'.open = nform.open \/ (~nform'.open /\ \A c \in ncalls : c.kind \notin {"check", "save"})
    PROVE  NodesKnown'
<1>1. CallsKnown'
    BY DEF NodesKnown, CallsKnown
<1>2. NodesP!ResultIsOfForm' /\ NodesP!PinIsOfItsAddress' /\ NodesP!OverlaidHasCause'
    BY DEF NodesKnown, NodesP!ResultIsOfForm, NodesP!PinIsOfItsAddress, NodesP!OverlaidHasCause
<1>3. BaseKnown'
    BY DEF NodesKnown, BaseKnown
<1> QED
    BY <1>1, <1>2, <1>3 DEF NodesKnown

LEMMA EditNodes ==
    ASSUME NodesTyped, NodesKnown,
           \/ \E a \in {"a", "b"} : NodesP!setAddress(a) \/ NodesP!setPin(a)
           \/ NodesP!setEnable \/ NodesP!onSchemeChange
           \/ \E m \in {"verify", "pin", "skip"} : NodesP!setTlsVerifyMode(m)
           \/ NodesP!closeForm
    PROVE  NodesTyped' /\ NodesKnown'
<1>1. IsNodeForm(nform) /\ nform.v \in NodesP!AllValues
    BY DEF NodesTyped, IsNodeForm
<1>2. ASSUME NEW v \in NodesP!AllValues, NodesP!EditForm(v) PROVE NodesTyped' /\ NodesKnown'
    <2>1. /\ NodesP!Acts /\ UNCHANGED NodesP!actKeeps /\ UNCHANGED <<nodesRefetch, pick, nodesAsk, busy, ncalls, nwhy, result>>
          /\ nform' = [nform EXCEPT !.v = v]
        BY <1>2 DEF NodesP!EditForm, NodesP!asking
    <2>2. UNCHANGED <<nodes, reach, heart, nodeRows, nodesListError, pushed, unheard, overlaid>> /\ nsteps' \in Nat
        BY <2>1, ActKeeps
    <2>3. IsNodeForm(nform') /\ nform'.n = nform.n /\ nform'.id = nform.id /\ nform'.base = nform.base
          /\ nform'.open = nform.open
        BY <1>1, <1>2, <2>1 DEF IsNodeForm
    <2>4. NodesTyped'
        BY <2>1, <2>2, <2>3 DEF NodesTyped, IsNodeForm
    <2> QED BY <2>1, <2>2, <2>3, <2>4, FormNodes
<1>3. /\ \A a \in {"a", "b"} : [nform.v EXCEPT !.addr = a] \in NodesP!AllValues /\ [nform.v EXCEPT !.pin = a] \in NodesP!AllValues
      /\ [nform.v EXCEPT !.on = ~@] \in NodesP!AllValues
      /\ [nform.v EXCEPT !.tls = IF @ = "http" THEN "skip" ELSE "http"] \in NodesP!AllValues
      /\ \A m \in {"verify", "pin", "skip"} : [nform.v EXCEPT !.tls = m] \in NodesP!AllValues
    BY <1>1 DEF NodesP!AllValues
<1>4. CASE NodesP!closeForm
    <2>1. /\ NodesP!Acts /\ UNCHANGED NodesP!actKeeps /\ UNCHANGED <<nodesRefetch, pick, nodesAsk, busy, ncalls, nwhy, result>>
          /\ nform' = [nform EXCEPT !.open = FALSE] /\ \A c \in ncalls : c.kind \notin {"check", "save"}
        BY <1>4 DEF NodesP!closeForm, NodesP!closeFormAnyTime, NodesP!asking, NodesP!submitting, NodesP!Under
    <2>2. UNCHANGED <<nodes, reach, heart, nodeRows, nodesListError, pushed, unheard, overlaid>> /\ nsteps' \in Nat
        BY <2>1, ActKeeps
    <2>3. IsNodeForm(nform') /\ nform'.n = nform.n /\ nform'.id = nform.id /\ nform'.base = nform.base
          /\ ~nform'.open
        BY <1>1, <2>1 DEF IsNodeForm
    <2>4. NodesTyped'
        BY <2>1, <2>2, <2>3 DEF NodesTyped, IsNodeForm
    <2> QED BY <2>1, <2>2, <2>3, <2>4, FormNodes
<1> QED
    BY <1>2, <1>3, <1>4 DEF NodesP!setAddress, NodesP!setPin, NodesP!setEnable, NodesP!onSchemeChange,
        NodesP!setTlsVerifyMode

-----------------------------------------------------------------------------
(* The server's answers *)

\* A call that was served is the same call with an answer.
LEMMA ServedSays ==
    ASSUME NodesTyped, NodesKnown, NEW c \in ncalls, NEW ok \in BOOLEAN, NodesP!Served(c, ok),
           UNCHANGED <<nform, busy>>
    PROVE  /\ ncalls' \subseteq NodeCalls /\ CallsKnown'
           /\ \E d \in ncalls' :
                 /\ ncalls' = (ncalls \ {c}) \cup {d} /\ d.kind = c.kind
                 /\ d.ans = IF ok THEN "ok" ELSE "refused"
<1> DEFINE d == [c EXCEPT !.ans = IF ok THEN "ok" ELSE "refused"]
<1>1. c \in NodeCalls
    BY DEF NodesTyped
<1>2. /\ d \in NodeCalls /\ d.kind = c.kind /\ d.n = c.n /\ d.ids = c.ids /\ d.base = c.base
      /\ d.ans = IF ok THEN "ok" ELSE "refused"
    BY <1>1 DEF NodeCalls
<1>3. ncalls' = (ncalls \ {c}) \cup {d}
    BY DEF NodesP!Served
<1> HIDE DEF d
<1>4. ncalls' \subseteq NodeCalls
    BY <1>2, <1>3 DEF NodesTyped
<1>5. \A x \in ncalls' : x = d \/ (x \in ncalls /\ x # c)
    BY <1>3
<1>6. CallsKnown'
    <2>1. \A x \in ncalls' : x.kind \in {"check", "save"} =>
              nform'.open /\ nform'.n = x.n /\ x.ids = {nform'.id} /\ x.base = nform'.base
        BY <1>2, <1>5 DEF NodesKnown, CallsKnown
    <2>2. \A x, y \in ncalls' : x.kind \in {"check", "save"} /\ y.kind \in {"check", "save"} => x = y
        BY <1>2, <1>5 DEF NodesKnown, CallsKnown
    <2>3. \A x, y \in ncalls' : x.kind \in {"delete", "update"} /\ y.kind \in {"delete", "update"} => x = y
        BY <1>2, <1>5 DEF NodesKnown, CallsKnown
    <2>4. \A x \in ncalls' : x.kind \in {"delete", "update"} => busy'
        BY <1>2, <1>5 DEF NodesKnown, CallsKnown
    <2>5. \A x \in ncalls' : x.kind = "toggle" => \E i \in NodesP!Ids : x.ids = {i}
        BY <1>2, <1>5 DEF NodesKnown, CallsKnown
    <2> QED BY <2>1, <2>2, <2>3, <2>4, <2>5 DEF CallsKnown
<1>7. d \in ncalls'
    BY <1>3
<1>8. \E x \in ncalls' : /\ ncalls' = (ncalls \ {c}) \cup {x} /\ x.kind = c.kind
                         /\ x.ans = IF ok THEN "ok" ELSE "refused"
    BY <1>2, <1>3, <1>7
<1> QED
    BY <1>4, <1>6, <1>8

LEMMA ServeNodes ==
    ASSUME NodesTyped, NodesKnown, NEW c \in ncalls, NodesP!serve(c)
    PROVE  NodesTyped' /\ NodesKnown'
<1> USE DEF NodesP!asking, NodesP!formed, NodesP!bounds
<1>1. /\ c.ans = "asked" /\ unheard' = (unheard \/ nodes' # nodes)
      /\ nwhy' = IF c.kind = "toggle" THEN NodesP!Raced(NodesP!The(c.ids), "ownLate") ELSE nwhy
      /\ UNCHANGED <<reach, heart, nodeRows, nodesListError, nodesRefetch, pushed, pick, nodesAsk, busy, nform, result,
                     nsteps>>
    BY DEF NodesP!serve
<1>2. c \in NodeCalls /\ nodes \in RowsOf
    BY DEF NodesTyped
<1>3. c.kind \in Kinds /\ c.v \in NodesP!AllValues /\ c.ids \in SUBSET (NodesP!Ids \cup {0})
    BY <1>2 DEF NodeCalls
<1>4. DOMAIN nodes \subseteq NodesP!Ids /\ nodes = [i \in DOMAIN nodes |-> nodes[i]] /\ \A i \in DOMAIN nodes : nodes[i] \in NodesP!Rows
    BY <1>2, RowsSay
<1>5. nwhy \subseteq nwhy'
    BY <1>1 DEF NodesP!Raced
<1>6. ASSUME NEW ok \in BOOLEAN, NodesP!Served(c, ok), nodes' \in RowsOf, overlaid' \in BOOLEAN
      PROVE  NodesTyped' /\ CallsKnown'
    <2>1. ncalls' \subseteq NodeCalls /\ CallsKnown'
        BY <1>1, <1>6, ServedSays, Zenon
    <2> QED BY <1>1, <1>6, <2>1 DEF NodesTyped
<1>7. NodesP!ResultIsOfForm'
    BY <1>1, <1>5 DEF NodesKnown, NodesP!ResultIsOfForm
\* any call but one that saves or toggles
<1>8. ASSUME NEW ok \in BOOLEAN, NodesP!Served(c, ok), c.kind \notin {"save", "toggle"}, overlaid' = overlaid,
             DOMAIN nodes' \subseteq DOMAIN nodes, nodes' \in RowsOf, \A i \in DOMAIN nodes' : nodes'[i].v = nodes[i].v
      PROVE  NodesTyped' /\ NodesKnown'
    <2>1. NodesTyped' /\ CallsKnown'
        BY <1>6, <1>8 DEF NodesTyped
    <2>2. \A x \in ncalls : x.kind = "save" => x \in ncalls'
        BY <1>8 DEF NodesP!Served
    <2>3. BaseKnown'
        BY <1>1, <1>5, <1>8, <2>2 DEF NodesKnown, BaseKnown
    <2>4. NodesP!PinIsOfItsAddress' /\ NodesP!OverlaidHasCause'
        BY <1>5, <1>8 DEF NodesKnown, NodesP!PinIsOfItsAddress, NodesP!OverlaidHasCause
    <2> QED BY <1>7, <2>1, <2>3, <2>4 DEF NodesKnown
<1>9. CASE c.kind \in {"test", "check", "pin", "update"}
    <2>1. PICK ok \in BOOLEAN : NodesP!Served(c, ok) /\ UNCHANGED <<nodes, overlaid>>
        <3>1. NodesP!Probe(c.v) \in BOOLEAN /\ (c.v.addr \in reach /\ c.v.tls # "http") \in BOOLEAN
            BY DEF NodesP!Probe
        <3>2. CASE c.kind \in {"test", "check"}
            BY <3>1, <3>2 DEF NodesP!serve
        <3>3. CASE c.kind = "pin"
            BY <3>1, <3>3 DEF NodesP!serve
        <3>4. CASE c.kind = "update"
            BY <3>4 DEF NodesP!serve
        <3> QED BY <1>9, <3>2, <3>3, <3>4
    <2> QED BY <1>2, <1>8, <1>9, <2>1
<1>10. CASE c.kind = "delete"
    <2>1. NodesP!Served(c, TRUE) /\ overlaid' = overlaid /\ nodes' = [i \in DOMAIN nodes \ c.ids |-> nodes[i]]
        BY <1>10 DEF NodesP!serve
    <2>2. nodes' \in RowsOf
        BY <1>4, <2>1, RowsMade
    <2> QED BY <1>8, <1>10, <2>1, <2>2
<1>11. CASE c.kind = "probe"
    <2>1. /\ NodesP!Served(c, c.ids \subseteq DOMAIN nodes) /\ overlaid' = overlaid
          /\ nodes' = [i \in DOMAIN nodes |->
                         IF i \in c.ids THEN [nodes[i] EXCEPT !.status = NodesP!Measured(nodes[i].v)] ELSE nodes[i]]
        BY <1>11 DEF NodesP!serve
    <2>2. \A i \in DOMAIN nodes : NodesP!Measured(nodes[i].v) \in {"online", "offline"}
        BY DEF NodesP!Measured
    <2>3. DOMAIN nodes' = DOMAIN nodes /\ \A i \in DOMAIN nodes : nodes'[i] \in NodesP!Rows /\ nodes'[i].v = nodes[i].v
        BY <1>4, <2>1, <2>2, RowSays
    <2>4. nodes' \in RowsOf
        BY <1>4, <2>1, <2>3, RowsMade
    <2>5. (c.ids \subseteq DOMAIN nodes) \in BOOLEAN
        OBVIOUS
    <2> QED BY <1>8, <1>11, <2>1, <2>3, <2>4, <2>5
<1>12. CASE c.kind = "toggle"
    <2>1. /\ NodesP!Served(c, TRUE) /\ overlaid' = overlaid
          /\ nodes' = [i \in DOMAIN nodes |-> IF i \in c.ids THEN [nodes[i] EXCEPT !.v.on = c.v.on] ELSE nodes[i]]
        BY <1>12 DEF NodesP!serve
    <2>2. PICK k \in NodesP!Ids : c.ids = {k}
        BY <1>12 DEF NodesKnown, CallsKnown
    <2>3. NodesP!The(c.ids) = k
        BY <2>2 DEF NodesP!The
    <2>4. c.v.on \in BOOLEAN
        BY <1>3, ValueSays
    <2>5. /\ DOMAIN nodes' = DOMAIN nodes
          /\ \A i \in DOMAIN nodes : /\ nodes'[i] \in NodesP!Rows /\ (i # k => nodes'[i] = nodes[i])
                                     /\ nodes'[i].v.tls = nodes[i].v.tls /\ nodes'[i].v.pin = nodes[i].v.pin
                                     /\ nodes'[i].v.addr = nodes[i].v.addr
        <3>1. ASSUME NEW i \in DOMAIN nodes, i = k
              PROVE  /\ nodes'[i] \in NodesP!Rows /\ nodes'[i].v.tls = nodes[i].v.tls
                     /\ nodes'[i].v.pin = nodes[i].v.pin /\ nodes'[i].v.addr = nodes[i].v.addr
            <4>1. nodes'[i] = [nodes[i] EXCEPT !.v.on = c.v.on]
                BY <2>1, <2>2, <3>1
            <4>2. nodes'[i] \in NodesP!Rows /\ nodes'[i].v = [nodes[i].v EXCEPT !.on = c.v.on] /\ nodes[i].v \in NodesP!AllValues
                BY <1>4, <2>4, <4>1, RowOn
            <4> QED BY <2>4, <4>2, ValueOn
        <3>2. DOMAIN nodes' = DOMAIN nodes /\ \A i \in DOMAIN nodes : i # k => nodes'[i] = nodes[i]
            BY <2>1, <2>2
        <3> QED BY <1>4, <3>1, <3>2
    <2>6. nodes' \in RowsOf
        BY <1>4, <2>1, <2>5, RowsMade
    <2>7. NodesTyped' /\ CallsKnown'
        BY <1>6, <2>1, <2>6 DEF NodesTyped
    <2>8. \A x \in ncalls : x.kind = "save" => x \in ncalls'
        BY <1>12, <2>1 DEF NodesP!Served
    <2>9. BaseKnown'
        <3>1. nwhy' = NodesP!Raced(k, "ownLate")
            BY <1>1, <1>12, <2>3
        <3> QED BY <1>1, <1>5, <2>5, <2>8, <3>1 DEF NodesKnown, BaseKnown, OverlayCauses, NodesP!Raced
    <2>10. NodesP!PinIsOfItsAddress' /\ NodesP!OverlaidHasCause'
        BY <1>5, <2>1, <2>5 DEF NodesKnown, NodesP!PinIsOfItsAddress, NodesP!OverlaidHasCause
    <2> QED BY <1>7, <2>7, <2>9, <2>10 DEF NodesKnown
<1>13. CASE c.kind = "save"
    <2> DEFINE i == NodesP!The(c.ids)
               ok == NodesP!Probe(c.v) /\ (i = 0 \/ i \in DOMAIN nodes)
    <2>1. NodesP!saveServed(c) /\ nwhy' = nwhy
        BY <1>1, <1>13 DEF NodesP!serve
    <2>2. nform.open /\ c.ids = {nform.id} /\ c.base = nform.base /\ \A d \in ncalls : d.kind = "save" => d = c
        BY <1>13 DEF NodesKnown, CallsKnown
    <2>3. i = nform.id
        BY <2>2 DEF NodesP!The
    <2>4. /\ NodesP!Served(c, ok)
          /\ IF ~ok THEN UNCHANGED <<nodes, overlaid>> ELSE IF i = 0 THEN NodesP!create(c) ELSE NodesP!update(i, c)
        BY <2>1 DEF NodesP!saveServed
    <2>5. ok \in BOOLEAN
        BY DEF NodesP!Probe
    <2>6. NodesP!Probe(c.v) => (c.v.tls = "pin" => c.v.pin = c.v.addr)
        BY DEF NodesP!Probe
    <2>7. ok => NodesP!Probe(c.v) /\ (i = 0 \/ i \in DOMAIN nodes)
        OBVIOUS
    <2>8. ok => \E d \in ncalls' : d.kind = "save" /\ d.ans = "ok"
        <3> HIDE DEF ok, i
        <3>1. \E d \in ncalls' : /\ ncalls' = (ncalls \ {c}) \cup {d} /\ d.kind = c.kind
                                 /\ d.ans = IF ok THEN "ok" ELSE "refused"
            BY <1>1, <2>4, <2>5, ServedSays
        <3> QED BY <1>13, <3>1
    <2> HIDE DEF ok, i
    <2>9. CASE ~ok
        <3>1. UNCHANGED <<nodes, overlaid>>
            BY <2>4, <2>9
        <3>2. NodesTyped' /\ CallsKnown'
            BY <1>2, <1>6, <2>4, <2>5, <3>1 DEF NodesTyped
        <3>3. \A d \in ncalls : d.kind = "save" => d.ans = "asked"
            BY <1>1, <2>2
        <3>4. NodesP!PinIsOfItsAddress' /\ NodesP!OverlaidHasCause'
            BY <2>1, <3>1 DEF NodesKnown, NodesP!PinIsOfItsAddress, NodesP!OverlaidHasCause
        <3>5. BaseKnown'
            BY <1>1, <2>1, <3>1, <3>3 DEF NodesKnown, BaseKnown
        <3> QED BY <1>7, <3>2, <3>4, <3>5 DEF NodesKnown
    <2>10. CASE ok /\ i = 0
        <3>1. /\ nodes' = [j \in DOMAIN nodes \cup {3} |-> IF j = 3 THEN [v |-> c.v, status |-> "unknown"] ELSE nodes[j]]
              /\ overlaid' = overlaid
            BY <2>4, <2>10 DEF NodesP!create
        <3>2. [v |-> c.v, status |-> "unknown"] \in NodesP!Rows
            BY <1>3 DEF NodesP!Rows
        <3>3. DOMAIN nodes \cup {3} \in SUBSET NodesP!Ids
            BY <1>4 DEF NodesP!Ids
        <3>4. nodes' \in RowsOf
            BY <1>4, <3>1, <3>2, <3>3, RowsMade
        <3>5. NodesTyped' /\ CallsKnown'
            BY <1>6, <2>4, <2>5, <3>1, <3>4 DEF NodesTyped
        <3>6. NodesP!PinIsOfItsAddress' /\ NodesP!OverlaidHasCause'
            BY <2>1, <2>6, <2>7, <2>10, <3>1 DEF NodesKnown, NodesP!PinIsOfItsAddress, NodesP!OverlaidHasCause
        <3>7. BaseKnown'
            BY <2>8, <2>10 DEF BaseKnown
        <3> QED BY <1>7, <3>5, <3>6, <3>7 DEF NodesKnown
    <2>11. CASE ok /\ i # 0
        <3>1. i \in DOMAIN nodes /\ nodes' = [nodes EXCEPT ![i].v = c.v]
              /\ overlaid' = (overlaid \/ NodesP!PutsBack(c, nodes[i].v))
            BY <2>4, <2>7, <2>11 DEF NodesP!update
        <3>2. /\ DOMAIN nodes' = DOMAIN nodes /\ nodes' = [j \in DOMAIN nodes |-> nodes'[j]]
              /\ nodes'[i] \in NodesP!Rows /\ nodes'[i].v = c.v
              /\ \A j \in DOMAIN nodes : j # i => nodes'[j] = nodes[j]
            <4>1. [nodes[i] EXCEPT !.v = c.v] \in NodesP!Rows /\ [nodes[i] EXCEPT !.v = c.v].v = c.v
                BY <1>3, <1>4, <3>1, RowValue
            <4> QED BY <1>4, <3>1, <4>1
        <3>3. nodes' \in RowsOf
            BY <1>4, <3>2, RowsMade
        <3>4. overlaid' \in BOOLEAN
            BY <3>1
        <3>5. NodesTyped' /\ CallsKnown'
            BY <1>6, <2>4, <2>5, <3>3, <3>4
        <3>6. NodesP!PinIsOfItsAddress'
            BY <2>6, <2>7, <2>11, <3>2 DEF NodesKnown, NodesP!PinIsOfItsAddress
        <3>7. NodesP!OverlaidHasCause'
            <4>1. \A d \in ncalls : d.kind = "save" => d.ans # "ok"
                BY <1>1, <2>2
            <4>2. nwhy \cap OverlayCauses = {} => nodes[i].v = c.base
                BY <2>2, <2>3, <3>1, <4>1 DEF NodesKnown, BaseKnown
            <4>3. nwhy \cap OverlayCauses = {} => ~NodesP!PutsBack(c, nodes[i].v)
                BY <4>2 DEF NodesP!PutsBack
            <4> QED BY <2>1, <3>1, <4>3 DEF NodesKnown, NodesP!OverlaidHasCause, OverlayCauses
        <3>8. BaseKnown'
            BY <2>8, <2>11 DEF BaseKnown
        <3> QED BY <1>7, <3>5, <3>6, <3>7, <3>8 DEF NodesKnown
    <2> QED BY <2>9, <2>10, <2>11
<1> QED BY <1>3, <1>9, <1>10, <1>11, <1>12, <1>13 DEF Kinds

-----------------------------------------------------------------------------
(* What the page does with an answer *)

LEMMA AnswerNodes ==
    ASSUME NodesTyped, NodesKnown, NEW c \in ncalls, NodesP!answer(c)
    PROVE  NodesTyped' /\ NodesKnown'
<1> USE DEF NodesP!asking, NodesP!formed, NodesP!bounds, NodesP!server
<1>1. /\ c.ans # "asked"
      /\ UNCHANGED <<nodes, reach, heart, nodeRows, nodesListError, pushed, unheard, overlaid, nsteps>>
    BY DEF NodesP!answer
<1>2. c \in NodeCalls /\ IsNodeForm(nform)
    BY DEF NodesTyped, IsNodeForm
<1>3. c.kind \in Kinds /\ c.v \in NodesP!AllValues /\ c.v.addr \in {"", "a", "b"}
    BY <1>2, ValueSays DEF NodeCalls
<1>4. ASSUME IsNodeForm(nform'), ncalls' \subseteq NodeCalls, busy' \in BOOLEAN, pick' \in {pick, {}},
             nodesRefetch' \in {nodesRefetch, NodesP!Asked}, nodesAsk' \in {nodesAsk, NodesP!None}
      PROVE  NodesTyped'
    BY <1>1, <1>4 DEF NodesTyped, IsNodeForm
<1>5. ncalls \ {c} \subseteq NodeCalls /\ busy \in BOOLEAN
    BY DEF NodesTyped
\* a call has ended that is no save
<1>6. ASSUME ncalls' = ncalls \ {c}, c.kind # "save", nwhy \subseteq nwhy',
             nform'.open = nform.open, nform'.n = nform.n, nform'.id = nform.id, nform'.base = nform.base,
             busy' = busy \/ c.kind \in {"delete", "update"}, NodesP!ResultIsOfForm'
      PROVE  NodesKnown'
    <2>1. CallsKnown'
        BY <1>6 DEF NodesKnown, CallsKnown
    <2>2. \A d \in ncalls : d.kind = "save" => d \in ncalls'
        BY <1>6
    <2>3. BaseKnown'
        BY <1>1, <1>6, <2>2 DEF NodesKnown, BaseKnown
    <2>4. NodesP!PinIsOfItsAddress' /\ NodesP!OverlaidHasCause'
        BY <1>1, <1>6 DEF NodesKnown, NodesP!PinIsOfItsAddress, NodesP!OverlaidHasCause
    <2> QED BY <1>6, <2>1, <2>3, <2>4 DEF NodesKnown
<1>7. CASE c.kind = "test"
    <2>1. /\ result' = [ok |-> c.ans = "ok", n |-> c.n] /\ ncalls' = ncalls \ {c}
          /\ nwhy' = IF c.n # nform.n THEN nwhy \cup {"late"} ELSE nwhy
          /\ UNCHANGED <<nodesRefetch, pick, nodesAsk, busy, nform>>
        BY <1>7 DEF NodesP!answer, NodesP!testAnswered
    <2>2. NodesP!ResultIsOfForm'
        BY <2>1 DEF NodesP!ResultIsOfForm
    <2>3. NodesTyped'
        BY <1>2, <1>4, <1>5, <2>1
    <2> QED BY <1>6, <1>7, <2>1, <2>2, <2>3
<1>8. CASE c.kind = "pin"
    <2>1. /\ nform' = IF c.ans = "ok" THEN [nform EXCEPT !.v.pin = c.v.addr] ELSE nform
          /\ ncalls' = ncalls \ {c} /\ UNCHANGED <<nodesRefetch, pick, nodesAsk, busy, result, nwhy>>
        BY <1>8 DEF NodesP!answer, NodesP!pinAnswered
    <2>2. IsNodeForm([nform EXCEPT !.v.pin = c.v.addr])
        BY <1>2, <1>3 DEF IsNodeForm, NodesP!AllValues
    <2>3. /\ IsNodeForm(nform') /\ nform'.open = nform.open /\ nform'.n = nform.n /\ nform'.id = nform.id
          /\ nform'.base = nform.base
        BY <1>2, <2>1, <2>2 DEF IsNodeForm
    <2>4. NodesP!ResultIsOfForm'
        BY <2>1, <2>3 DEF NodesKnown, NodesP!ResultIsOfForm
    <2>5. NodesTyped'
        BY <1>4, <1>5, <2>1, <2>3
    <2> QED BY <1>6, <1>8, <2>1, <2>3, <2>4, <2>5
<1>9. CASE c.kind = "check"
    <2> DEFINE d == [c EXCEPT !.kind = "save", !.ans = "asked"]
    <2>1. /\ result' = [ok |-> c.ans = "ok", n |-> c.n]
          /\ ncalls' = (ncalls \ {c}) \cup (IF c.ans = "ok" THEN {d} ELSE {})
          /\ UNCHANGED <<nodesRefetch, pick, nodesAsk, busy, nform, nwhy>>
        BY <1>9 DEF NodesP!answer, NodesP!checkAnswered
    <2>2. d \in NodeCalls /\ d.kind = "save" /\ d.ans = "asked" /\ d.n = c.n /\ d.ids = c.ids /\ d.base = c.base
        BY <1>2 DEF NodeCalls, Kinds
    <2> HIDE DEF d
    <2>3. \A x \in ncalls' : x = d \/ (x \in ncalls /\ x # c)
        BY <2>1
    <2>4. /\ nform.open /\ nform.n = c.n /\ c.ids = {nform.id} /\ c.base = nform.base
          /\ \A x \in ncalls : x.kind \in {"check", "save"} => x = c
        BY <1>9 DEF NodesKnown, CallsKnown
    <2>5. CallsKnown'
        <3>1. \A x \in ncalls' : x.kind \in {"check", "save"} => x = d
            BY <2>3, <2>4
        <3>2. \A x \in ncalls' : x.kind \notin {"check", "save"} => x \in ncalls
            BY <2>2, <2>3
        <3>3. \A x \in ncalls' : x.kind \in {"check", "save"} =>
                  nform'.open /\ nform'.n = x.n /\ x.ids = {nform'.id} /\ x.base = nform'.base
            BY <2>1, <2>2, <2>4, <3>1
        <3>4. \A x \in ncalls' : x.kind \in {"delete", "update", "toggle"} => x \in ncalls
            BY <3>2
        <3> QED BY <2>1, <3>1, <3>3, <3>4 DEF NodesKnown, CallsKnown
    <2>6. NodesP!ResultIsOfForm'
        BY <2>1, <2>4 DEF NodesP!ResultIsOfForm
    <2>7. BaseKnown'
        <3>1. \A x \in ncalls : x.kind = "save" => x.ans # "ok"
            BY <1>9, <2>4
        <3> QED BY <1>1, <2>1, <3>1 DEF NodesKnown, BaseKnown
    <2>8. NodesP!PinIsOfItsAddress' /\ NodesP!OverlaidHasCause'
        BY <1>1, <2>1 DEF NodesKnown, NodesP!PinIsOfItsAddress, NodesP!OverlaidHasCause
    <2>9. NodesTyped'
        BY <1>2, <1>4, <1>5, <2>1, <2>2
    <2> QED BY <2>5, <2>6, <2>7, <2>8, <2>9 DEF NodesKnown
<1>10. CASE c.kind = "save"
    <2>1. /\ nform' = IF c.ans = "ok" THEN [nform EXCEPT !.open = FALSE] ELSE nform
          /\ ncalls' = ncalls \ {c} /\ nodesRefetch' \in {nodesRefetch, NodesP!Asked}
          /\ UNCHANGED <<pick, nodesAsk, busy, result, nwhy>>
        BY <1>10 DEF NodesP!answer, NodesP!saveAnswered, NodesP!Invalidate
    <2>2. IsNodeForm(nform') /\ (c.ans # "ok" => nform' = nform) /\ (c.ans = "ok" => ~nform'.open)
        BY <1>2, <2>1 DEF IsNodeForm
    <2>3. \A x \in ncalls : x.kind \in {"check", "save"} => x = c
        BY <1>10 DEF NodesKnown, CallsKnown
    <2>4. CallsKnown'
        BY <2>1, <2>3 DEF NodesKnown, CallsKnown
    <2>5. NodesP!ResultIsOfForm' /\ NodesP!PinIsOfItsAddress' /\ NodesP!OverlaidHasCause'
        BY <1>1, <2>1, <2>2 DEF NodesKnown, NodesP!ResultIsOfForm, NodesP!PinIsOfItsAddress, NodesP!OverlaidHasCause
    <2>6. BaseKnown'
        <3>1. c.ans # "ok" => \A x \in ncalls : x.kind = "save" => x.ans # "ok"
            BY <2>3
        <3> QED BY <1>1, <2>1, <2>2, <3>1 DEF NodesKnown, BaseKnown
    <2>7. NodesTyped'
        BY <1>4, <1>5, <2>1, <2>2
    <2> QED BY <2>4, <2>5, <2>6, <2>7 DEF NodesKnown
<1>11. CASE c.kind \in {"toggle", "probe"}
    <2>1. /\ ncalls' = ncalls \ {c} /\ nodesRefetch' \in {nodesRefetch, NodesP!Asked}
          /\ UNCHANGED <<pick, nodesAsk, busy, nform, result, nwhy>>
        BY <1>11 DEF NodesP!answer, NodesP!rowAnswered, NodesP!Invalidate
    <2>2. NodesP!ResultIsOfForm'
        BY <2>1 DEF NodesKnown, NodesP!ResultIsOfForm
    <2>3. NodesTyped'
        BY <1>2, <1>4, <1>5, <2>1
    <2> QED BY <1>6, <1>11, <2>1, <2>2, <2>3
<1>12. CASE c.kind \in {"delete", "update"}
    <2>1. /\ ncalls' = ncalls \ {c} /\ nodesRefetch' \in {nodesRefetch, NodesP!Asked} /\ busy' = FALSE
          /\ nodesAsk' = NodesP!None /\ pick' \in {pick, {}} /\ UNCHANGED <<nform, result, nwhy>>
        BY <1>12 DEF NodesP!answer, NodesP!confirmedAnswered, NodesP!Invalidate
    <2>2. NodesP!ResultIsOfForm'
        BY <2>1 DEF NodesKnown, NodesP!ResultIsOfForm
    <2>3. NodesTyped'
        BY <1>2, <1>4, <1>5, <2>1
    <2>4. \A d \in ncalls' : d.kind \notin {"delete", "update"}
        BY <1>12, <2>1 DEF NodesKnown, CallsKnown
    <2>5. CallsKnown'
        BY <2>1, <2>4 DEF NodesKnown, CallsKnown
    <2>6. \A d \in ncalls : d.kind = "save" => d \in ncalls'
        BY <1>12, <2>1
    <2>7. BaseKnown'
        BY <1>1, <2>1, <2>6 DEF NodesKnown, BaseKnown
    <2>8. NodesP!PinIsOfItsAddress' /\ NodesP!OverlaidHasCause'
        BY <1>1, <2>1 DEF NodesKnown, NodesP!PinIsOfItsAddress, NodesP!OverlaidHasCause
    <2> QED BY <2>2, <2>3, <2>5, <2>7, <2>8 DEF NodesKnown
<1> QED BY <1>3, <1>7, <1>8, <1>9, <1>10, <1>11, <1>12 DEF Kinds

LEMMA NextNodes ==
    ASSUME NodesTyped, NodesKnown, [NodesP!Next]_nodesVars
    PROVE  NodesTyped' /\ NodesKnown'
<1>1. CASE UNCHANGED nodesVars
    <2>1. NodesTyped'
        BY <1>1 DEF nodesVars, NodesTyped
    <2>2. UNCHANGED <<nodes, nform, result, ncalls, busy, overlaid, nwhy>>
        BY <1>1 DEF nodesVars
    <2> QED BY <2>1, <2>2, NodesStill
<1> QED
    BY <1>1, WorldNodes, ListNodes, PickNodes, AskNodes, OpenNodes, EditNodes, ServeNodes, AnswerNodes DEF NodesP!Next

\* What the page promises of late answers follows.
LEMMA NodesSay ==
    ASSUME NodesTyped, NodesKnown
    PROVE  /\ NodesP!SubmitHoldsForm /\ NodesP!ResultIsOfForm /\ NodesP!PinIsOfItsAddress
           /\ NodesP!OneConfirmedCall /\ NodesP!OverlaidHasCause /\ NodesP!TypeOK
<1>1. NodesP!SubmitHoldsForm
    BY DEF NodesKnown, CallsKnown, NodesP!SubmitHoldsForm
<1>2. NodesP!OneConfirmedCall
    <2> DEFINE S == {c \in ncalls : c.kind \in {"delete", "update"}}
    <2>1. \A c, d \in S : c = d
        BY DEF NodesKnown, CallsKnown
    <2> HIDE DEF S
    <2>2. S = {} \/ \E c : S = {c}
        BY <2>1
    <2>3. Cardinality({}) = 0 /\ \A c : Cardinality({c}) = 1
        BY FS_EmptySet, FS_Singleton
    <2>4. NodesP!Cardinality(S) = Cardinality(S)
        BY DEF NodesP!Cardinality, Cardinality
    <2>5. NodesP!Cardinality(S) <= 1
        BY <2>2, <2>3, <2>4
    <2> QED BY <2>5 DEF S, NodesP!OneConfirmedCall
<1>3. NodesP!TypeOK
    <2>1. \A f \in RowsOf : NodesP!RowsOk(f)
        BY RowsSay DEF NodesP!RowsOk
    <2> QED BY <2>1 DEF NodesTyped, NodesP!TypeOK
<1> QED
    BY <1>1, <1>2, <1>3 DEF NodesKnown

-----------------------------------------------------------------------------
(* The stack of dialogs of the groups page *)

Dialogs == GroupsP!OnClients \cup {"create", "rename", "confirm"}
IsStack(s) == s \in Seq(Dialogs) /\ \A i, j \in 1..Len(s) : s[i] = s[j] => i = j

LEMMA OnStack ==
    ASSUME NEW s, IsStack(s), NEW d
    PROVE  d \in GroupsP!ToSet(s) <=> \E i \in 1..Len(s) : s[i] = d
<1>1. DOMAIN s = 1..Len(s)
    BY DEF IsStack
<1> QED
    BY <1>1 DEF GroupsP!ToSet

LEMMA EmptyStack == IsStack(<<>>) /\ GroupsP!ToSet(<<>>) = {}
BY DEF IsStack, GroupsP!ToSet

LEMMA SoleDialog == ASSUME NEW d \in Dialogs PROVE IsStack(<<d>>) /\ GroupsP!ToSet(<<d>>) = {d}
<1>1. <<d>> \in Seq(Dialogs) /\ Len(<<d>>) = 1 /\ <<d>>[1] = d
    OBVIOUS
<1>2. IsStack(<<d>>)
    BY <1>1 DEF IsStack
<1> QED
    BY <1>1, <1>2, OnStack

LEMMA StackClosed ==
    ASSUME NEW s, IsStack(s), s # <<>>
    PROVE  IsStack(Tail(s)) /\ GroupsP!ToSet(Tail(s)) = GroupsP!ToSet(s) \ {Head(s)}
<1>1. /\ s \in Seq(Dialogs) /\ Len(s) \in Nat /\ Len(s) > 0 /\ Head(s) = s[1] /\ Tail(s) \in Seq(Dialogs)
      /\ Len(Tail(s)) = Len(s) - 1 /\ \A i \in 1..(Len(s) - 1) : Tail(s)[i] = s[i + 1]
    BY DEF IsStack
<1>2. \A i \in 1..(Len(s) - 1) : i \in 1..Len(s) /\ i + 1 \in 1..Len(s) /\ i + 1 # 1
    BY <1>1
<1>3. \A i, j \in 1..Len(s) : s[i] = s[j] => i = j
    BY DEF IsStack
<1>4. IsStack(Tail(s))
    <2>1. ASSUME NEW i \in 1..(Len(s) - 1), NEW j \in 1..(Len(s) - 1), Tail(s)[i] = Tail(s)[j] PROVE i = j
        <3>1. s[i + 1] = s[j + 1] /\ i + 1 \in 1..Len(s) /\ j + 1 \in 1..Len(s)
            BY <1>1, <1>2, <2>1
        <3>2. i + 1 = j + 1
            BY <1>3, <3>1
        <3> QED BY <1>1, <3>2
    <2> QED BY <1>1, <2>1 DEF IsStack
<1>5. ASSUME NEW d PROVE (\E i \in 1..Len(Tail(s)) : Tail(s)[i] = d) <=> (d # Head(s) /\ \E i \in 1..Len(s) : s[i] = d)
    <2>1. ASSUME NEW i \in 1..Len(Tail(s)), Tail(s)[i] = d PROVE d # Head(s) /\ \E j \in 1..Len(s) : s[j] = d
        <3>1. s[i + 1] = d /\ i + 1 \in 1..Len(s) /\ i + 1 # 1 /\ 1 \in 1..Len(s)
            BY <1>1, <1>2, <2>1
        <3> QED BY <1>1, <1>3, <3>1
    <2>2. ASSUME d # Head(s), NEW i \in 1..Len(s), s[i] = d PROVE \E j \in 1..Len(Tail(s)) : Tail(s)[j] = d
        <3>1. i # 1 /\ i - 1 \in 1..(Len(s) - 1) /\ (i - 1) + 1 = i
            BY <1>1, <2>2
        <3>2. Tail(s)[i - 1] = d
            BY <1>1, <2>2, <3>1
        <3> QED BY <1>1, <3>1, <3>2
    <2> QED BY <2>1, <2>2
<1>6. \A d : d \in GroupsP!ToSet(Tail(s)) <=> (d # Head(s) /\ d \in GroupsP!ToSet(s))
    BY <1>4, <1>5, OnStack
<1> QED
    BY <1>4, <1>6

LEMMA ConcatSays ==
    ASSUME NEW S, NEW a \in Seq(S), NEW b \in Seq(S)
    PROVE  /\ a \o b \in Seq(S) /\ Len(a \o b) = Len(a) + Len(b)
           /\ \A i \in 1..(Len(a) + Len(b)) : (a \o b)[i] = IF i <= Len(a) THEN a[i] ELSE b[i - Len(a)]
OBVIOUS

LEMMA DialogClosed ==
    ASSUME IsStack(stack), NEW d
    PROVE  IsStack(GroupsP!Closed(d)) /\ GroupsP!ToSet(GroupsP!Closed(d)) = GroupsP!ToSet(stack) \ {d}
<1>1. CASE ~GroupsP!IsOpen(d)
    BY <1>1 DEF GroupsP!Closed, GroupsP!IsOpen
<1>2. CASE GroupsP!IsOpen(d)
    <2>1. \E i \in 1..Len(stack) : stack[i] = d
        BY <1>2, OnStack DEF GroupsP!IsOpen
    <2>2. PICK k \in 1..Len(stack) : stack[k] = d /\ GroupsP!Closed(d) = GroupsP!RemoveAt(stack, k)
        <3>1. DOMAIN stack = 1..Len(stack)
            BY DEF IsStack
        <3> QED BY <1>2, <2>1, <3>1 DEF GroupsP!Closed
    <2> DEFINE n == Len(stack)
               t == GroupsP!Closed(d)
    <2>3. n \in Nat /\ stack \in Seq(Dialogs) /\ k \in 1..n /\ \A i, j \in 1..n : stack[i] = stack[j] => i = j
        BY DEF IsStack
    <2>4. t = SubSeq(stack, 1, k - 1) \o SubSeq(stack, k + 1, n)
        BY <2>2 DEF GroupsP!RemoveAt
    <2>5. /\ SubSeq(stack, 1, k - 1) \in Seq(Dialogs) /\ Len(SubSeq(stack, 1, k - 1)) = k - 1
          /\ \A i \in 1..(k - 1) : SubSeq(stack, 1, k - 1)[i] = stack[i]
        BY <2>3
    <2>6. /\ SubSeq(stack, k + 1, n) \in Seq(Dialogs) /\ Len(SubSeq(stack, k + 1, n)) = n - k
          /\ \A i \in 1..(n - k) : SubSeq(stack, k + 1, n)[i] = stack[k + i]
        BY <2>3
    <2>7. /\ t \in Seq(Dialogs) /\ Len(t) = n - 1
          /\ \A i \in 1..(n - 1) : t[i] = IF i < k THEN stack[i] ELSE stack[i + 1]
        <3> DEFINE a == SubSeq(stack, 1, k - 1)
                   b == SubSeq(stack, k + 1, n)
        <3>1. a \in Seq(Dialogs) /\ b \in Seq(Dialogs) /\ Len(a) = k - 1 /\ Len(b) = n - k /\ t = a \o b
            BY <2>4, <2>5, <2>6
        <3>2. /\ \A i \in 1..(k - 1) : a[i] = stack[i]
              /\ \A i \in 1..(n - k) : b[i] = stack[k + i]
            BY <2>5, <2>6
        <3> HIDE DEF a, b, t, n
        <3>3. t \in Seq(Dialogs) /\ Len(t) = n - 1
            <4>1. (k - 1) + (n - k) = n - 1
                BY <2>3
            <4>2. t \in Seq(Dialogs) /\ Len(t) = Len(a) + Len(b)
                BY <3>1, ConcatSays
            <4> QED BY <3>1, <4>1, <4>2
        <3>4. \A i \in 1..(n - 1) : t[i] = IF i < k THEN a[i] ELSE b[i - (k - 1)]
            BY <2>3, <3>1
        <3>5. \A i \in 1..(n - 1) : /\ i < k => i \in 1..(k - 1)
                                    /\ ~(i < k) => i - (k - 1) \in 1..(n - k) /\ k + (i - (k - 1)) = i + 1
            BY <2>3
        <3> QED BY <3>2, <3>3, <3>4, <3>5
    <2> HIDE DEF t, n
    <2> DEFINE At(i) == IF i < k THEN i ELSE i + 1
    <2>8. \A i \in 1..(n - 1) : At(i) \in 1..n /\ At(i) # k /\ t[i] = stack[At(i)]
        BY <2>3, <2>7
    <2>9. \A i, j \in 1..(n - 1) : At(i) = At(j) => i = j
        BY <2>3
    <2>10. \A i \in 1..n : i # k => \E j \in 1..(n - 1) : At(j) = i
        <3> SUFFICES ASSUME NEW i \in 1..n, i # k PROVE \E j \in 1..(n - 1) : At(j) = i
            OBVIOUS
        <3>1. CASE i < k
            <4>1. i \in 1..(n - 1) /\ At(i) = i
                BY <2>3, <3>1
            <4> QED BY <4>1
        <3>2. CASE ~(i < k)
            <4>1. i - 1 \in 1..(n - 1) /\ At(i - 1) = i
                BY <2>3, <3>2
            <4> QED BY <4>1
        <3> QED BY <3>1, <3>2
    <2> HIDE DEF At
    <2>11. IsStack(t)
        <3>1. \A i, j \in 1..(n - 1) : t[i] = t[j] => i = j
            BY <2>3, <2>8, <2>9
        <3> QED BY <2>7, <3>1 DEF IsStack
    <2>12. \A x : (\E i \in 1..(n - 1) : t[i] = x) <=> (x # d /\ \E i \in 1..n : stack[i] = x)
        <3> SUFFICES ASSUME NEW x PROVE (\E i \in 1..(n - 1) : t[i] = x) <=> (x # d /\ \E i \in 1..n : stack[i] = x)
            OBVIOUS
        <3>1. ASSUME NEW i \in 1..(n - 1), t[i] = x PROVE x # d /\ \E j \in 1..n : stack[j] = x
            BY <2>2, <2>3, <2>8, <3>1
        <3>2. ASSUME x # d, NEW i \in 1..n, stack[i] = x PROVE \E j \in 1..(n - 1) : t[j] = x
            <4>1. i # k
                BY <2>2, <3>2
            <4>2. PICK j \in 1..(n - 1) : At(j) = i
                BY <2>10, <4>1
            <4> QED BY <2>8, <3>2, <4>2
        <3> QED BY <3>1, <3>2
    <2>13. \A x : x \in GroupsP!ToSet(t) <=> (x # d /\ x \in GroupsP!ToSet(stack))
        BY <2>7, <2>11, <2>12, OnStack DEF n
    <2> QED BY <2>11, <2>13 DEF t
<1> QED BY <1>1, <1>2

LEMMA DialogRaised ==
    ASSUME IsStack(stack), NEW d \in Dialogs
    PROVE  IsStack(GroupsP!Raised(d)) /\ GroupsP!ToSet(GroupsP!Raised(d)) = GroupsP!ToSet(stack) \cup {d}
<1>1. CASE GroupsP!IsOpen(d)
    BY <1>1 DEF GroupsP!Raised, GroupsP!IsOpen
<1>2. CASE ~GroupsP!IsOpen(d)
    <2> DEFINE n == Len(stack)
               t == <<d>> \o stack
    <2>1. GroupsP!Raised(d) = t
        BY <1>2 DEF GroupsP!Raised
    <2>2. n \in Nat /\ stack \in Seq(Dialogs) /\ \A i, j \in 1..n : stack[i] = stack[j] => i = j
        BY DEF IsStack
    <2>3. \A i \in 1..n : stack[i] # d
        BY <1>2, OnStack DEF GroupsP!IsOpen
    <2>4. t \in Seq(Dialogs) /\ Len(t) = n + 1 /\ \A i \in 1..(n + 1) : t[i] = IF i = 1 THEN d ELSE stack[i - 1]
        BY <2>2
    <2> HIDE DEF t, n
    <2>5. \A i \in 1..(n + 1) : i # 1 => i - 1 \in 1..n
        BY <2>2
    <2>6. \A i, j \in 1..(n + 1) : t[i] = t[j] => i = j
        <3> SUFFICES ASSUME NEW i \in 1..(n + 1), NEW j \in 1..(n + 1), t[i] = t[j] PROVE i = j
            OBVIOUS
        <3>1. CASE i = 1 \/ j = 1
            BY <2>3, <2>4, <2>5, <3>1
        <3>2. CASE i # 1 /\ j # 1
            <4>1. i - 1 = j - 1
                BY <2>2, <2>4, <2>5, <3>2
            <4> QED BY <2>2, <4>1
        <3> QED BY <3>1, <3>2
    <2>7. IsStack(t)
        BY <2>4, <2>6 DEF IsStack
    <2>8. \A x : (\E i \in 1..(n + 1) : t[i] = x) <=> (x = d \/ \E i \in 1..n : stack[i] = x)
        <3> SUFFICES ASSUME NEW x PROVE (\E i \in 1..(n + 1) : t[i] = x) <=> (x = d \/ \E i \in 1..n : stack[i] = x)
            OBVIOUS
        <3>1. ASSUME NEW i \in 1..(n + 1), t[i] = x PROVE x = d \/ \E j \in 1..n : stack[j] = x
            BY <2>4, <2>5, <3>1
        <3>2. 1 \in 1..(n + 1) /\ t[1] = d
            BY <2>2, <2>4
        <3>3. ASSUME NEW i \in 1..n, stack[i] = x PROVE \E j \in 1..(n + 1) : t[j] = x
            <4>1. i + 1 \in 1..(n + 1) /\ i + 1 # 1 /\ (i + 1) - 1 = i
                BY <2>2
            <4> QED BY <2>4, <3>3, <4>1
        <3> QED BY <3>1, <3>2, <3>3
    <2>9. \A x : x \in GroupsP!ToSet(t) <=> (x = d \/ x \in GroupsP!ToSet(stack))
        <3>1. \A x : x \in GroupsP!ToSet(t) <=> \E i \in 1..(n + 1) : t[i] = x
            BY <2>4, <2>7, OnStack
        <3>2. \A x : x \in GroupsP!ToSet(stack) <=> \E i \in 1..n : stack[i] = x
            BY OnStack DEF n
        <3> QED BY <2>8, <3>1, <3>2
    <2> QED BY <2>1, <2>7, <2>9
<1> QED BY <1>1, <1>2

-----------------------------------------------------------------------------
(* The groups page *)

Confirmed == {"delete", "deleteClients", "bulkDelete", "reset", "bulkReset"}
GroupKinds == Confirmed \cup {"create", "rename", "add", "remove", "links", "adjust", "bulkAdjust"}
GroupName == GroupsP!Names \cup {""}
Emails == {"c1", "c2"}
IsGroupCall(c) ==
    /\ c = [kind |-> c.kind, g |-> c.g, emails |-> c.emails, to |-> c.to, opened |-> c.opened, behind |-> c.behind,
            ans |-> c.ans]
    /\ c.kind \in GroupKinds /\ c.g \in GroupName /\ c.to \in GroupName
    /\ c.behind \in BOOLEAN /\ c.ans \in {"asked", "ok", "refused", "read"}
    /\ c.kind \in {"create", "rename"} => c.to \in GroupsP!Names
    /\ c.kind = "add" => c.g \in GroupsP!Names
IsAll(a) == a = [data |-> a.data, stale |-> a.stale, req |-> a.req]

\* The server's groups and the rows that show them.
GroupsTyped ==
    /\ DOMAIN groupOf \subseteq Emails /\ \A c \in DOMAIN groupOf : groupOf[c] \in GroupName
    /\ groupsStored \subseteq GroupsP!Names /\ DOMAIN groups \subseteq GroupsP!Names
    /\ groupsReq \notin {GroupsP!None, GroupsP!Asked} => DOMAIN groupsReq.rows \subseteq GroupsP!Names

\* A dialog on clients acts on the group it was opened for, and the clients
\* ticked to be removed are of that group, but for a named cause.
DialogsKnown ==
    /\ IsAll(all) /\ IsStack(stack)
    /\ openedFor \in [GroupsP!OnClients -> GroupName] /\ groupForAction \in GroupName
    /\ groupsDraft = [target |-> groupsDraft.target, name |-> groupsDraft.name]
    /\ groupsDraft.target \in GroupName /\ groupsDraft.name \in GroupName
    /\ DOMAIN groupsSelected = GroupsP!Pickers
    /\ GroupsP!IsOpen("confirm") <=> confirming # GroupsP!None
    /\ confirming # GroupsP!None =>
          /\ confirming.kind \in {"delete", "deleteClients", "reset"} /\ confirming.g \in GroupName
    /\ \A d \in GroupsP!OnClients : GroupsP!IsOpen(d) /\ openedFor[d] # groupForAction => "swapped" \in gwhy
    /\ (GroupsP!IsOpen("remove") /\ gwhy \cap {"kept", "swapped"} = {}) =>
          groupsSelected["remove"] \subseteq GroupsP!Offered("remove", all.data)

\* One confirmed call at a time, while its button is out of use; and the
\* clients of a removal that nothing has overtaken are of its group.
GroupCallsKnown ==
    /\ \A c \in gcalls : IsGroupCall(c)
    /\ \A c, d \in gcalls : c.kind \in Confirmed /\ d.kind \in Confirmed => c = d
    /\ \A c \in gcalls : c.kind \in Confirmed => groupsConfirmBusy
    /\ GroupsP!ActsOnOpened
    /\ gwhy \cap {"kept", "swapped"} = {} =>
          \A c \in gcalls : c.kind = "remove" /\ c.ans = "asked" /\ ~c.behind =>
              \A e \in c.emails \cap DOMAIN groupOf : groupOf[e] = c.g
    /\ GroupsP!RemovalHasCause

GroupsKnown == GroupsTyped /\ DialogsKnown /\ GroupCallsKnown

\* The causes named so far stay named.
CausesStay == gwhy \ {"dropped", "unseen"} \subseteq gwhy'

\* A call just made.
IsMade(c, k, g, S, n, o) ==
    /\ c = [kind |-> c.kind, g |-> c.g, emails |-> c.emails, to |-> c.to, opened |-> c.opened, behind |-> c.behind,
            ans |-> c.ans]
    /\ c.kind = k /\ c.g = g /\ c.emails = S /\ c.to = n /\ c.opened = o
    /\ c.ans = "asked" /\ c.behind = GroupsP!ListBehind(S)

LEMMA CallExcept ==
    ASSUME NEW k, NEW g, NEW S, NEW e, NEW o, NEW b, NEW a, NEW n,
           NEW r, r = [kind |-> k, g |-> g, emails |-> S, to |-> e, opened |-> o, behind |-> b, ans |-> a]
    PROVE  /\ [r EXCEPT !.to = n] = [kind |-> k, g |-> g, emails |-> S, to |-> n, opened |-> o, behind |-> b, ans |-> a]
           /\ [r EXCEPT !.opened = n] = [kind |-> k, g |-> g, emails |-> S, to |-> e, opened |-> n, behind |-> b, ans |-> a]
OBVIOUS

LEMMA MadeCall ==
    ASSUME NEW k, NEW g, NEW S, NEW n, NEW o
    PROVE  /\ \A c : c = GroupsP!Call(k, g, S) => IsMade(c, k, g, S, "", g)
           /\ \A c : c = [GroupsP!Call(k, g, S) EXCEPT !.to = n] => IsMade(c, k, g, S, n, g)
           /\ \A c : c = [GroupsP!Call(k, g, S) EXCEPT !.opened = o] => IsMade(c, k, g, S, "", o)
<1> DEFINE b == GroupsP!ListBehind(S)
           e == ""
           a == "asked"
           R(m, p) == [kind |-> k, g |-> g, emails |-> S, to |-> m, opened |-> p, behind |-> b, ans |-> a]
<1>1. GroupsP!Call(k, g, S) = R(e, g)
    BY DEF GroupsP!Call
<1>2. \A m, p : IsMade(R(m, p), k, g, S, m, p)
    BY DEF IsMade
<1> HIDE DEF a, b, e
<1>3. [R(e, g) EXCEPT !.to = n] = R(n, g) /\ [R(e, g) EXCEPT !.opened = o] = R(e, o)
    BY CallExcept
<1> HIDE DEF R
<1>4. IsMade(R(e, g), k, g, S, e, g) /\ IsMade(R(n, g), k, g, S, n, g) /\ IsMade(R(e, o), k, g, S, e, o)
    BY <1>2
<1>5. /\ \A c : c = GroupsP!Call(k, g, S) => IsMade(c, k, g, S, e, g)
      /\ \A c : c = [GroupsP!Call(k, g, S) EXCEPT !.to = n] => IsMade(c, k, g, S, n, g)
      /\ \A c : c = [GroupsP!Call(k, g, S) EXCEPT !.opened = o] => IsMade(c, k, g, S, e, o)
    BY <1>1, <1>3, <1>4, Zenon
<1> QED
    BY <1>5, Zenon DEF e

LEMMA MadeTyped ==
    ASSUME NEW k \in GroupKinds, NEW g \in GroupName, NEW n \in GroupName, NEW S, NEW o, NEW c, IsMade(c, k, g, S, n, o),
           k \in {"create", "rename"} => n \in GroupsP!Names, k = "add" => g \in GroupsP!Names
    PROVE  IsGroupCall(c)
<1>1. GroupsP!ListBehind(S) \in BOOLEAN
    BY DEF GroupsP!ListBehind
<1>2. c.behind \in BOOLEAN
    BY <1>1 DEF IsMade
<1> QED
    BY <1>2 DEF IsMade, IsGroupCall

LEMMA KnownNames == ASSUME GroupsTyped PROVE GroupsP!Known \subseteq GroupsP!Names /\ DOMAIN GroupsP!ListGroups \subseteq GroupsP!Names
<1>1. GroupsP!Known \subseteq GroupsP!Names
    BY DEF GroupsTyped, GroupsP!Known, GroupName
<1> QED BY <1>1 DEF GroupsP!ListGroups

LEMMA InitGroups == ASSUME GroupsP!Init PROVE GroupsKnown
<1>1. /\ groupOf = [c \in {"c1", "c2"} |-> IF c = "c1" THEN "a" ELSE "b"] /\ groupsStored = {"a"}
      /\ groups = GroupsP!ListGroups /\ groupsReq = GroupsP!None
      /\ stack \in {<<>>, <<"rename">>, <<"remove">>, <<"confirm">>}
      /\ groupsSelected = [d \in GroupsP!Pickers |-> IF stack = <<d>> THEN {"c1"} ELSE {}]
      /\ all = [data |-> IF stack = <<"remove">> THEN groupOf ELSE GroupsP!None, stale |-> FALSE, req |-> GroupsP!None]
      /\ groupsConfirmBusy = (stack = <<"confirm">>)
      /\ confirming = IF groupsConfirmBusy THEN [kind |-> "deleteClients", g |-> "b"] ELSE GroupsP!None
      /\ gcalls \in IF groupsConfirmBusy THEN {{GroupsP!Call("deleteClients", "b", {})}}
                    ELSE IF stack = <<"remove">> THEN {{}, {GroupsP!Call("links", "b", {})}} ELSE {{}}
      /\ harmed = FALSE /\ gwhy = {}
    BY DEF GroupsP!Init
<1>2. /\ groupsDraft = [target |-> IF stack = <<"rename">> THEN "a" ELSE "", name |-> IF stack = <<"rename">> THEN "A" ELSE ""]
      /\ groupForAction = IF stack = <<"remove">> THEN "a" ELSE ""
      /\ openedFor = [d \in GroupsP!OnClients |-> IF stack = <<d>> THEN "a" ELSE ""]
    BY DEF GroupsP!Init
<1>3. IsStack(stack) /\ \A d : GroupsP!IsOpen(d) <=> stack = <<d>>
    <2>1. \A d \in {"rename", "remove", "confirm"} : IsStack(<<d>>) /\ GroupsP!ToSet(<<d>>) = {d}
        BY SoleDialog DEF Dialogs, GroupsP!OnClients, GroupsP!Pickers
    <2>2. \A d, e : <<d>> = <<e>> <=> d = e
        OBVIOUS
    <2>3. CASE stack = <<>>
        BY <2>3, EmptyStack DEF GroupsP!IsOpen
    <2>4. ASSUME NEW d \in {"rename", "remove", "confirm"}, stack = <<d>>
          PROVE  IsStack(stack) /\ \A e : GroupsP!IsOpen(e) <=> stack = <<e>>
        BY <2>1, <2>2, <2>4 DEF GroupsP!IsOpen
    <2> QED BY <1>1, <2>3, <2>4
<1>4. \A c \in gcalls : IsGroupCall(c) /\ c.kind \in {"deleteClients", "links"} /\ c.opened = c.g
                      /\ (c.kind = "deleteClients" => groupsConfirmBusy)
    <2>1. ASSUME NEW k, k \in {"deleteClients", "links"}, NEW g, g = "b", NEW S, NEW c, c = GroupsP!Call(k, g, S)
          PROVE  IsGroupCall(c) /\ c.kind = k /\ c.opened = c.g
        <3>1. k \in GroupKinds /\ g \in GroupName /\ "" \in GroupName /\ k \notin {"create", "rename", "add"}
            BY <2>1 DEF GroupKinds, Confirmed, GroupName, GroupsP!Names
        <3>2. c = GroupsP!Call(k, g, S)
            BY <2>1
        <3>3. IsMade(c, k, g, S, "", g)
            BY <3>2, MadeCall
        <3>4. IsGroupCall(c)
            BY <3>1, <3>3, MadeTyped
        <3> QED BY <3>3, <3>4 DEF IsMade
    <2> QED BY <1>1, <2>1
<1>5. \A c, d \in gcalls : c = d
    BY <1>1
<1>6. GroupsTyped
    <2>1. GroupsP!Known \subseteq GroupsP!Names
        BY <1>1 DEF GroupsP!Known, GroupsP!Names
    <2>2. DOMAIN groups \subseteq GroupsP!Names
        BY <1>1, <2>1 DEF GroupsP!ListGroups
    <2>7. DOMAIN groupOf \subseteq Emails /\ \A c \in DOMAIN groupOf : groupOf[c] \in GroupName
        BY <1>1 DEF GroupName, GroupsP!Names, Emails
    <2>8. groupsStored \subseteq GroupsP!Names
        BY <1>1 DEF GroupsP!Names
    <2> QED BY <1>1, <2>2, <2>7, <2>8 DEF GroupsTyped
<1>7. GroupCallsKnown
    <2>1. GroupsP!ActsOnOpened /\ GroupsP!RemovalHasCause
        BY <1>1, <1>4 DEF GroupsP!ActsOnOpened, GroupsP!RemovalHasCause
    <2>2. \A c \in gcalls : c.kind \in Confirmed => groupsConfirmBusy
        BY <1>4 DEF Confirmed
    <2> QED BY <1>4, <1>5, <2>1, <2>2 DEF GroupCallsKnown
<1>8. \A d \in GroupsP!OnClients : GroupsP!IsOpen(d) /\ openedFor[d] # groupForAction => "swapped" \in gwhy
    <2>1. \A d \in GroupsP!OnClients : GroupsP!IsOpen(d) => d = "remove"
        <3>1. \A d \in GroupsP!OnClients : stack = <<d>> => d = "remove"
            <4>1. \A d, e : <<d>> = <<e>> <=> d = e
                OBVIOUS
            <4>2. \A d : <<d>> # <<>>
                OBVIOUS
            <4> QED BY <1>1, <4>1, <4>2 DEF GroupsP!OnClients, GroupsP!Pickers
        <3> QED BY <1>3, <3>1
    <2>2. "remove" \in GroupsP!OnClients
        BY DEF GroupsP!OnClients, GroupsP!Pickers
    <2> QED BY <1>2, <1>3, <2>1, <2>2
<1>9. DialogsKnown
    <2>1. ASSUME GroupsP!IsOpen("remove") PROVE groupsSelected["remove"] \subseteq GroupsP!Offered("remove", all.data)
        <3>1. stack = <<"remove">>
            BY <1>3, <2>1
        <3>2. groupsSelected["remove"] = {"c1"} /\ all.data = groupOf /\ groupForAction = "a"
            BY <1>1, <1>2, <3>1 DEF GroupsP!Pickers
        <3>3. groupOf # GroupsP!None /\ "c1" \in DOMAIN groupOf /\ groupOf["c1"] = "a"
            BY <1>1 DEF GroupsP!None
        <3> QED BY <3>2, <3>3 DEF GroupsP!Offered
    <2>3. GroupsP!IsOpen("confirm") <=> confirming # GroupsP!None
        BY <1>1, <1>3 DEF GroupsP!None
    <2>4. confirming # GroupsP!None =>
          /\ confirming.kind \in {"delete", "deleteClients", "reset"} /\ confirming.g \in GroupName
        BY <1>1 DEF GroupName, GroupsP!Names
    <2>5. openedFor \in [GroupsP!OnClients -> GroupName] /\ groupForAction \in GroupName
        BY <1>2 DEF GroupName, GroupsP!Names
    <2>6. groupsDraft = [target |-> groupsDraft.target, name |-> groupsDraft.name]
          /\ groupsDraft.target \in GroupName /\ groupsDraft.name \in GroupName
        BY <1>2 DEF GroupName, GroupsP!Names
    <2>7. IsAll(all) /\ DOMAIN groupsSelected = GroupsP!Pickers
        BY <1>1 DEF IsAll
    <2> QED BY <1>3, <1>8, <2>1, <2>3, <2>4, <2>5, <2>6, <2>7 DEF DialogsKnown
<1> QED
    BY <1>6, <1>7, <1>9 DEF GroupsKnown

-----------------------------------------------------------------------------
(* What the calls of the groups page become *)

\* x is what a step makes of the call y.
Follows(y, x) ==
    /\ IsGroupCall(x) /\ (x.opened = x.g \/ y.opened # y.g) /\ (x.kind \in Confirmed => y.kind \in Confirmed)
    /\ x.kind = "remove" /\ x.ans = "asked" /\ ~x.behind =>
          /\ y.kind = "remove" /\ y.ans = "asked" /\ ~y.behind /\ x.emails = y.emails /\ x.g = y.g
          /\ groupOf' = groupOf

LEMMA CauseStays == ASSUME GroupsP!RemovalHasCause, UNCHANGED harmed, CausesStay PROVE GroupsP!RemovalHasCause'
BY DEF GroupsP!RemovalHasCause, CausesStay

LEMMA CallsFollow ==
    ASSUME GroupCallsKnown, CausesStay, GroupsP!RemovalHasCause',
           NEW f, \A x \in gcalls' : \E y \in gcalls : x = f[y] /\ Follows(y, x),
           \A x \in gcalls' : x.kind \in Confirmed /\ groupsConfirmBusy => groupsConfirmBusy'
    PROVE  GroupCallsKnown'
<1>1. \A c \in gcalls' : IsGroupCall(c)
    BY DEF Follows
<1>2. ASSUME NEW c \in gcalls', NEW d \in gcalls', c.kind \in Confirmed, d.kind \in Confirmed PROVE c = d
    BY <1>2 DEF GroupCallsKnown, Follows
<1>3. \A c \in gcalls' : c.kind \in Confirmed => groupsConfirmBusy'
    BY DEF GroupCallsKnown, Follows
<1>4. GroupsP!ActsOnOpened'
    BY DEF GroupCallsKnown, GroupsP!ActsOnOpened, Follows, CausesStay
<1>5. ASSUME gwhy' \cap {"kept", "swapped"} = {}, NEW x \in gcalls', x.kind = "remove", x.ans = "asked", ~x.behind
      PROVE  \A e \in x.emails \cap DOMAIN groupOf' : groupOf'[e] = x.g
    <2>1. PICK y \in gcalls : Follows(y, x)
        OBVIOUS
    <2>2. /\ y.kind = "remove" /\ y.ans = "asked" /\ ~y.behind /\ x.emails = y.emails /\ x.g = y.g
          /\ groupOf' = groupOf
        BY <1>5, <2>1 DEF Follows
    <2>3. gwhy \cap {"kept", "swapped"} = {}
        BY <1>5 DEF CausesStay
    <2> QED BY <2>2, <2>3 DEF GroupCallsKnown
<1> QED
    BY <1>1, <1>2, <1>3, <1>4, <1>5 DEF GroupCallsKnown

\* Calls that only end, or that a step leaves alone.
LEMMA CallsEnd ==
    ASSUME GroupCallsKnown, CausesStay, UNCHANGED <<groupOf, harmed>>, gcalls' \subseteq gcalls,
           \A x \in gcalls' : x.kind \in Confirmed /\ groupsConfirmBusy => groupsConfirmBusy'
    PROVE  GroupCallsKnown'
<1> DEFINE f == [y \in gcalls |-> y]
<1>1. \A x \in gcalls' : x \in gcalls /\ x = f[x] /\ IsGroupCall(x)
    BY DEF GroupCallsKnown
<1>2. \A x \in gcalls' : Follows(x, x)
    BY <1>1 DEF Follows
<1>3. GroupsP!RemovalHasCause'
    BY CauseStays DEF GroupCallsKnown
<1> HIDE DEF f
<1>4. \A x \in gcalls' : \E y \in gcalls : x = f[y] /\ Follows(y, x)
    BY <1>1, <1>2
<1> QED
    BY <1>3, <1>4, CallsFollow

\* The calls of S when another change has overtaken them.
LEMMA CallsOvertaken ==
    ASSUME GroupCallsKnown, NEW y \in gcalls
    PROVE  Follows(y, [y EXCEPT !.behind = @ \/ y.ans = "asked"])
<1> DEFINE x == [y EXCEPT !.behind = @ \/ y.ans = "asked"]
           b == y.behind \/ y.ans = "asked"
<1>1. IsGroupCall(y)
    BY DEF GroupCallsKnown
<1>2. x = [kind |-> y.kind, g |-> y.g, emails |-> y.emails, to |-> y.to, opened |-> y.opened, behind |-> b,
           ans |-> y.ans]
    BY <1>1 DEF IsGroupCall
<1>3. b \in BOOLEAN /\ (y.ans = "asked" => b)
    OBVIOUS
<1> HIDE DEF x, b
<1>4. /\ x.kind = y.kind /\ x.g = y.g /\ x.emails = y.emails /\ x.to = y.to /\ x.opened = y.opened
      /\ x.ans = y.ans /\ x.behind = b
      /\ x = [kind |-> x.kind, g |-> x.g, emails |-> x.emails, to |-> x.to, opened |-> x.opened,
              behind |-> x.behind, ans |-> x.ans]
    BY <1>2
<1>5. IsGroupCall(x)
    BY <1>1, <1>3, <1>4 DEF IsGroupCall
<1>6. Follows(y, x)
    BY <1>3, <1>4, <1>5 DEF Follows
<1> QED BY <1>6 DEF x

\* The server has answered c with d, and overtaken the others when over holds.
LEMMA CallsServed ==
    ASSUME GroupCallsKnown, CausesStay, GroupsP!RemovalHasCause', UNCHANGED groupsConfirmBusy,
           NEW c \in gcalls, NEW d, Follows(c, d), NEW over \in BOOLEAN, over \/ groupOf' = groupOf,
           gcalls' = (IF over THEN GroupsP!Overtaken(gcalls \ {c}) ELSE gcalls \ {c}) \cup {d}
    PROVE  GroupCallsKnown'
<1> DEFINE Late(y) == [y EXCEPT !.behind = @ \/ y.ans = "asked"]
           f == [y \in gcalls |-> IF y = c THEN d ELSE IF over THEN Late(y) ELSE y]
<1>1. \A y \in gcalls : IsGroupCall(y) /\ Follows(y, Late(y))
    BY CallsOvertaken DEF GroupCallsKnown
<1>2. ASSUME NEW y \in gcalls, ~over PROVE Follows(y, y)
    BY <1>1, <1>2 DEF Follows
<1>3. \A y \in gcalls : f[y] = IF y = c THEN d ELSE IF over THEN Late(y) ELSE y
    OBVIOUS
<1>4. \A x \in gcalls' : \E y \in gcalls : x = f[y]
    <2>1. CASE over
        BY <1>3, <2>1 DEF GroupsP!Overtaken
    <2>2. CASE ~over
        BY <1>3, <2>2
    <2> QED BY <2>1, <2>2
<1> HIDE DEF f, Late
<1>5. \A y \in gcalls : Follows(y, f[y])
    BY <1>1, <1>2, <1>3
<1>6. \A x \in gcalls' : \E y \in gcalls : x = f[y] /\ Follows(y, x)
    BY <1>4, <1>5
<1> QED
    BY <1>6, CallsFollow

\* Another session's change overtakes every call.
LEMMA CallsAllOvertaken ==
    ASSUME GroupCallsKnown, CausesStay, UNCHANGED <<groupsConfirmBusy, harmed>>, gcalls' = GroupsP!Overtaken(gcalls)
    PROVE  GroupCallsKnown'
<1> DEFINE Late(y) == [y EXCEPT !.behind = @ \/ y.ans = "asked"]
           f == [y \in gcalls |-> Late(y)]
<1>1. \A y \in gcalls : Follows(y, Late(y))
    BY CallsOvertaken
<1>2. \A y \in gcalls : f[y] = Late(y)
    OBVIOUS
<1>3. \A x \in gcalls' : \E y \in gcalls : x = Late(y)
    BY DEF GroupsP!Overtaken
<1>4. GroupsP!RemovalHasCause'
    BY CauseStays DEF GroupCallsKnown
<1> HIDE DEF f, Late
<1>5. \A x \in gcalls' : \E y \in gcalls : x = f[y] /\ Follows(y, x)
    BY <1>1, <1>2, <1>3
<1> QED
    BY <1>4, <1>5, CallsFollow

\* The page sends the call c.
LEMMA CallSent ==
    ASSUME GroupCallsKnown, CausesStay, UNCHANGED <<groupOf, harmed>>,
           NEW c, IsGroupCall(c), gcalls' = gcalls \cup {c}, c.opened # c.g => "swapped" \in gwhy',
           groupsConfirmBusy => groupsConfirmBusy',
           c.kind \in Confirmed => ~groupsConfirmBusy /\ groupsConfirmBusy',
           c.kind = "remove" /\ ~c.behind /\ gwhy' \cap {"kept", "swapped"} = {} =>
               \A e \in c.emails \cap DOMAIN groupOf : groupOf[e] = c.g
    PROVE  GroupCallsKnown'
<1>1. \A x \in gcalls' : IsGroupCall(x)
    BY DEF GroupCallsKnown
<1>2. ASSUME NEW x \in gcalls', NEW y \in gcalls', x.kind \in Confirmed, y.kind \in Confirmed PROVE x = y
    BY <1>2 DEF GroupCallsKnown
<1>3. \A x \in gcalls' : x.kind \in Confirmed => groupsConfirmBusy'
    BY DEF GroupCallsKnown
<1>4. GroupsP!ActsOnOpened'
    BY DEF GroupCallsKnown, GroupsP!ActsOnOpened, CausesStay
<1>5. ASSUME gwhy' \cap {"kept", "swapped"} = {}, NEW x \in gcalls', x.kind = "remove", x.ans = "asked", ~x.behind
      PROVE  \A e \in x.emails \cap DOMAIN groupOf' : groupOf'[e] = x.g
    <2>1. gwhy \cap {"kept", "swapped"} = {}
        BY <1>5 DEF CausesStay
    <2> QED BY <1>5, <2>1 DEF GroupCallsKnown
<1>6. GroupsP!RemovalHasCause'
    BY CauseStays DEF GroupCallsKnown
<1> QED
    BY <1>1, <1>2, <1>3, <1>4, <1>5, <1>6 DEF GroupCallsKnown

-----------------------------------------------------------------------------
(* What the steps of the groups page keep of its dialogs *)

LEMMA DialogsStay ==
    ASSUME DialogsKnown, CausesStay, IsAll(all)', all'.data = all.data,
           UNCHANGED <<stack, openedFor, groupsDraft, confirming, groupForAction, groupsSelected>>
    PROVE  DialogsKnown'
<1>1. /\ GroupsP!IsOpen("remove")' = GroupsP!IsOpen("remove")
      /\ \A d \in GroupsP!OnClients : GroupsP!IsOpen(d)' = GroupsP!IsOpen(d)
      /\ GroupsP!IsOpen("confirm")' = GroupsP!IsOpen("confirm")
      /\ GroupsP!Offered("remove", all.data)' = GroupsP!Offered("remove", all.data)
    BY DEF GroupsP!IsOpen, GroupsP!Offered
<1>2. "swapped" \in gwhy => "swapped" \in gwhy'
    BY DEF CausesStay
<1>3. gwhy' \cap {"kept", "swapped"} = {} => gwhy \cap {"kept", "swapped"} = {}
    BY DEF CausesStay
<1> QED
    BY <1>1, <1>2, <1>3 DEF DialogsKnown

LEMMA AllExcept ==
    ASSUME NEW a, IsAll(a), NEW t
    PROVE  /\ [a EXCEPT !.stale = t] = [data |-> a.data, stale |-> t, req |-> a.req]
           /\ [a EXCEPT !.req = t] = [data |-> a.data, stale |-> a.stale, req |-> t]
           /\ IsAll([a EXCEPT !.stale = t]) /\ [a EXCEPT !.stale = t].data = a.data
           /\ IsAll([a EXCEPT !.req = t]) /\ [a EXCEPT !.req = t].data = a.data
<1>1. [a EXCEPT !.stale = t] = [data |-> a.data, stale |-> t, req |-> a.req]
    BY DEF IsAll
<1>2. [a EXCEPT !.req = t] = [data |-> a.data, stale |-> a.stale, req |-> t]
    BY DEF IsAll
<1>3. \A d, u, q : IsAll([data |-> d, stale |-> u, req |-> q]) /\ [data |-> d, stale |-> u, req |-> q].data = d
    BY DEF IsAll
<1> QED
    BY <1>1, <1>2, <1>3

LEMMA AllKept ==
    ASSUME IsAll(all), NEW s, NEW old,
           \/ GroupsP!Invalidate \/ GroupsP!Enable(s, old) \/ UNCHANGED all
    PROVE  IsAll(all)' /\ all'.data = all.data
<1> DEFINE IsNew(a) == IsAll(a) /\ a.data = all.data
<1>1. IsNew([all EXCEPT !.req = GroupsP!Asked])
    BY AllExcept
<1>2. ASSUME NEW r PROVE IsNew([all EXCEPT !.stale = TRUE, !.req = r])
    <2> DEFINE t == TRUE
               a == [all EXCEPT !.stale = t]
    <2>1. [all EXCEPT !.stale = TRUE, !.req = r] = [a EXCEPT !.req = r]
        OBVIOUS
    <2> HIDE DEF t
    <2>2. IsAll(a) /\ a.data = all.data
        BY AllExcept
    <2> HIDE DEF a
    <2>3. IsAll([a EXCEPT !.req = r]) /\ [a EXCEPT !.req = r].data = a.data
        BY <2>2, AllExcept
    <2> QED BY <2>1, <2>2, <2>3
<1>3. IsNew(all)
    OBVIOUS
<1>4. CASE GroupsP!Invalidate
    <2>1. \E r : all' = [all EXCEPT !.stale = TRUE, !.req = r]
        BY <1>4 DEF GroupsP!Invalidate
    <2> QED BY <1>2, <2>1
<1>5. CASE GroupsP!Enable(s, old)
    BY <1>1, <1>3, <1>5 DEF GroupsP!Enable
<1> QED
    BY <1>3, <1>4, <1>5

\* Every other dialog is closed when one opens.
LEMMA DialogOpens ==
    ASSUME DialogsKnown, NEW d \in Dialogs, stack' = <<d>>, IsAll(all)',
           openedFor' \in [GroupsP!OnClients -> GroupName], groupForAction' \in GroupName,
           d \in GroupsP!OnClients => openedFor'[d] = groupForAction',
           groupsDraft' = [target |-> groupsDraft'.target, name |-> groupsDraft'.name],
           groupsDraft'.target \in GroupName, groupsDraft'.name \in GroupName,
           DOMAIN groupsSelected' = GroupsP!Pickers, d = "remove" => groupsSelected'["remove"] = {},
           d = "confirm" <=> confirming' # GroupsP!None,
           confirming' # GroupsP!None =>
               confirming'.kind \in {"delete", "deleteClients", "reset"} /\ confirming'.g \in GroupName
    PROVE  DialogsKnown'
<1>1. IsStack(stack') /\ GroupsP!ToSet(stack') = {d}
    BY SoleDialog
<1>2. ASSUME NEW e PROVE GroupsP!IsOpen(e)' <=> e = d
    BY <1>1 DEF GroupsP!IsOpen
<1> QED
    BY <1>1, <1>2 DEF DialogsKnown

-----------------------------------------------------------------------------
(* The steps of the groups page *)

LEMMA ServerStays ==
    ASSUME GroupsTyped, UNCHANGED <<groupOf, groupsStored, groups>>,
           groupsReq' = GroupsP!Asked \/ UNCHANGED groupsReq
    PROVE  GroupsTyped'
BY DEF GroupsTyped

\* The page's own reads, and the messages.
LEMMA ReadsKnown ==
    ASSUME GroupsKnown,
           \/ GroupsP!groupsRead \/ GroupsP!clientsRead \/ GroupsP!Refresh
           \/ \E b \in BOOLEAN : GroupsP!fetchGroups(b) \/ GroupsP!noticeArrives(b)
    PROVE  GroupsKnown'
<1>1. GroupsTyped /\ DialogsKnown /\ GroupCallsKnown /\ IsAll(all)
    BY DEF GroupsKnown, DialogsKnown
<1>2. /\ UNCHANGED <<groupOf, groupsStored, harmed, gcalls, groupsConfirmBusy>> /\ UNCHANGED <<GroupsP!dialogs>>
      /\ CausesStay
    BY DEF GroupsP!groupsRead, GroupsP!clientsRead, GroupsP!Refresh, GroupsP!fetchGroups, GroupsP!noticeArrives,
           GroupsP!groupTable, GroupsP!dialogs, GroupsP!ghosts, CausesStay, GroupsP!actKeeps
<1>3. IsAll(all)' /\ all'.data = all.data
    <2>1. CASE GroupsP!clientsRead
        BY <1>1, <2>1, AllExcept DEF GroupsP!clientsRead
    <2>2. CASE GroupsP!Invalidate \/ UNCHANGED all
        BY <1>1, <2>2, AllKept
    <2> QED BY <2>1, <2>2 DEF GroupsP!groupsRead, GroupsP!Refresh, GroupsP!fetchGroups, GroupsP!noticeArrives
<1>4. /\ DOMAIN groups' \subseteq GroupsP!Names
      /\ groupsReq' \notin {GroupsP!None, GroupsP!Asked} => DOMAIN groupsReq'.rows \subseteq GroupsP!Names
    <2>1. CASE GroupsP!groupsRead
        <3>1. DOMAIN GroupsP!ListGroups \subseteq GroupsP!Names
            BY <1>1, KnownNames
        <3>2. groupsReq' = [rows |-> GroupsP!ListGroups] /\ UNCHANGED groups
            BY <2>1 DEF GroupsP!groupsRead
        <3>3. groupsReq'.rows = GroupsP!ListGroups
            BY <3>2
        <3> QED BY <1>1, <3>1, <3>2, <3>3 DEF GroupsTyped
    <2>2. CASE GroupsP!clientsRead
        BY <1>1, <2>2 DEF GroupsP!clientsRead, GroupsTyped
    <2>3. CASE GroupsP!Refresh
        BY <1>1, <2>3 DEF GroupsP!Refresh, GroupsTyped
    <2>4. ASSUME NEW b \in BOOLEAN, GroupsP!fetchGroups(b)
          PROVE  DOMAIN groups' \subseteq GroupsP!Names /\ groupsReq' = GroupsP!None
        BY <1>1, <2>4 DEF GroupsP!fetchGroups, GroupsTyped
    <2>5. ASSUME NEW b \in BOOLEAN, GroupsP!noticeArrives(b)
          PROVE  UNCHANGED groups /\ (groupsReq' = GroupsP!Asked \/ UNCHANGED groupsReq)
        BY <1>1, <2>5 DEF GroupsP!noticeArrives, GroupsP!Invalidate
    <2> QED BY <1>1, <2>1, <2>2, <2>3, <2>4, <2>5 DEF GroupsTyped
<1>5. GroupsTyped'
    BY <1>1, <1>2, <1>4 DEF GroupsTyped
<1>6. DialogsKnown'
    BY <1>1, <1>2, <1>3, DialogsStay DEF GroupsP!dialogs
<1>7. GroupCallsKnown'
    BY <1>1, <1>2, CallsEnd
<1> QED
    BY <1>5, <1>6, <1>7 DEF GroupsKnown

\* The clients arrive under whatever dialog is open.
LEMMA ClientsLand == ASSUME GroupsKnown, GroupsP!clientsLand PROVE GroupsKnown'
<1>1. GroupsTyped /\ DialogsKnown /\ GroupCallsKnown
    BY DEF GroupsKnown
<1>2. /\ UNCHANGED <<groupOf, groupsStored, groups, groupsReq, harmed, gcalls, groupsConfirmBusy>>
      /\ UNCHANGED <<stack, openedFor, groupsDraft, confirming, groupForAction, groupsSelected>>
      /\ all' = [data |-> all.req.rows, stale |-> FALSE, req |-> GroupsP!None]
    BY DEF GroupsP!clientsLand, GroupsP!groupTable, GroupsP!dialogs, GroupsP!ghosts
<1>3. CausesStay
    BY DEF GroupsP!clientsLand, CausesStay
<1>4. all'.data = all.req.rows /\ IsAll(all)'
    BY <1>2 DEF IsAll
<1>5. GroupsP!IsOpen("remove") /\ "kept" \notin gwhy' =>
          groupsSelected["remove"] \subseteq GroupsP!Offered("remove", all.req.rows)
    BY DEF GroupsP!clientsLand, GroupsP!Pickers
<1>6. /\ \A d \in GroupsP!OnClients : GroupsP!IsOpen(d)' = GroupsP!IsOpen(d)
      /\ GroupsP!IsOpen("confirm")' = GroupsP!IsOpen("confirm")
      /\ GroupsP!IsOpen("remove")' = GroupsP!IsOpen("remove")
      /\ GroupsP!Offered("remove", all.data)' = GroupsP!Offered("remove", all.req.rows)
    BY <1>2, <1>4 DEF GroupsP!IsOpen, GroupsP!Offered
<1>7. DialogsKnown'
    <2>1. "swapped" \in gwhy => "swapped" \in gwhy'
        BY <1>3 DEF CausesStay
    <2> QED BY <1>1, <1>2, <1>4, <1>5, <1>6, <2>1 DEF DialogsKnown
<1>8. GroupsTyped'
    BY <1>1, <1>2, ServerStays
<1>9. GroupCallsKnown'
    BY <1>1, <1>2, <1>3, CallsEnd
<1> QED
    BY <1>7, <1>8, <1>9 DEF GroupsKnown

\* Another session moves or deletes a client.
LEMMA ElsewhereKnown ==
    ASSUME GroupsKnown, NEW c \in Emails,
           GroupsP!otherDeletes(c) \/ \E g \in GroupName : GroupsP!otherMoves(c, g)
    PROVE  GroupsKnown'
<1>1. GroupsTyped /\ DialogsKnown /\ GroupCallsKnown /\ IsAll(all)
    BY DEF GroupsKnown, DialogsKnown
<1>2. /\ UNCHANGED <<groupsStored, groups, groupsReq, all, harmed, groupsConfirmBusy>>
      /\ UNCHANGED <<GroupsP!dialogs>> /\ CausesStay
    BY DEF GroupsP!otherDeletes, GroupsP!otherMoves, GroupsP!elsewhereKeeps, GroupsP!ghosts, GroupsP!dialogs, CausesStay
<1>3. gcalls' = GroupsP!Overtaken(gcalls)
    BY DEF GroupsP!otherDeletes, GroupsP!otherMoves, GroupsP!Elsewhere
<1>4. DOMAIN groupOf' \subseteq Emails /\ \A x \in DOMAIN groupOf' : groupOf'[x] \in GroupName
    <2>1. CASE GroupsP!otherDeletes(c)
        <3>1. groupOf' = [x \in DOMAIN groupOf \ {c} |-> groupOf[x]]
            BY <2>1 DEF GroupsP!otherDeletes
        <3> QED BY <1>1, <3>1 DEF GroupsTyped
    <2>2. ASSUME NEW g \in GroupName, GroupsP!otherMoves(c, g)
          PROVE  DOMAIN groupOf' \subseteq Emails /\ \A x \in DOMAIN groupOf' : groupOf'[x] \in GroupName
        <3>1. groupOf' = [groupOf EXCEPT ![c] = g]
            BY <2>2 DEF GroupsP!otherMoves
        <3>2. DOMAIN groupOf' = DOMAIN groupOf /\ \A x \in DOMAIN groupOf : groupOf'[x] \in {groupOf[x], g}
            BY <3>1
        <3> QED BY <1>1, <3>2 DEF GroupsTyped
    <2> QED BY <2>1, <2>2
<1>5. GroupsTyped'
    BY <1>1, <1>2, <1>4 DEF GroupsTyped
<1>6. DialogsKnown'
    <2>1. IsAll(all)' /\ all'.data = all.data
        BY <1>1, <1>2 DEF IsAll
    <2> QED BY <1>1, <1>2, <2>1, DialogsStay DEF GroupsP!dialogs
<1>7. GroupCallsKnown'
    BY <1>1, <1>2, <1>3, CallsAllOvertaken
<1> QED
    BY <1>5, <1>6, <1>7 DEF GroupsKnown

\* A dialog opens on a page without one.
LEMMA OpensKnown ==
    ASSUME GroupsKnown, NEW g \in GroupName,
           \/ \E d \in {"create", "rename"} : GroupsP!openName(d, g)
           \/ \E k \in {"delete", "deleteClients", "reset"} : GroupsP!askConfirm(k, g)
           \/ \E d \in GroupsP!Pickers, old \in BOOLEAN : GroupsP!openPicker(d, g, old)
    PROVE  GroupsKnown'
<1>1. GroupsTyped /\ DialogsKnown /\ GroupCallsKnown /\ IsAll(all)
    BY DEF GroupsKnown, DialogsKnown
<1>2. /\ UNCHANGED <<groupOf, groupsStored, groups, groupsReq, harmed, gcalls, groupsConfirmBusy, gwhy>>
      /\ stack = <<>> /\ CausesStay
    BY DEF GroupsP!openName, GroupsP!askConfirm, GroupsP!openPicker, GroupsP!actKeeps, GroupsP!groupTable,
           GroupsP!ghosts, GroupsP!PageFree, CausesStay
<1>3. GroupsTyped'
    BY <1>1, <1>2, ServerStays
<1>4. GroupCallsKnown'
    BY <1>1, <1>2, CallsEnd
<1>5. ASSUME NEW d \in {"create", "rename"}, GroupsP!openName(d, g) PROVE DialogsKnown'
    <2>1. /\ stack' = <<d>> /\ groupsDraft' = [target |-> g, name |-> g]
          /\ UNCHANGED <<all, openedFor, confirming, groupForAction, groupsSelected>>
        BY <1>5 DEF GroupsP!openName
    <2>2. confirming = GroupsP!None
        BY <1>1, <1>2, EmptyStack DEF DialogsKnown, GroupsP!IsOpen
    <2>3. d \in Dialogs /\ d \notin GroupsP!OnClients /\ d # "confirm" /\ d # "remove"
        BY DEF Dialogs, GroupsP!OnClients, GroupsP!Pickers
    <2>4. groupsDraft' = [target |-> groupsDraft'.target, name |-> groupsDraft'.name]
          /\ groupsDraft'.target \in GroupName /\ groupsDraft'.name \in GroupName
        BY <2>1
    <2>5. IsAll(all)' /\ openedFor' \in [GroupsP!OnClients -> GroupName] /\ groupForAction' \in GroupName
          /\ DOMAIN groupsSelected' = GroupsP!Pickers
        BY <1>1, <2>1 DEF DialogsKnown
    <2>6. stack' = <<d>> /\ confirming' = GroupsP!None
        BY <2>1, <2>2
    <2> QED BY <1>1, <2>3, <2>4, <2>5, <2>6, DialogOpens
<1>6. ASSUME NEW k \in {"delete", "deleteClients", "reset"}, GroupsP!askConfirm(k, g) PROVE DialogsKnown'
    <2>1. /\ stack' = <<"confirm">> /\ confirming' = [kind |-> k, g |-> g]
          /\ UNCHANGED <<all, openedFor, groupsDraft, groupForAction, groupsSelected>>
        BY <1>6 DEF GroupsP!askConfirm
    <2>2. confirming' # GroupsP!None /\ confirming'.kind = k /\ confirming'.g = g
        BY <2>1 DEF GroupsP!None
    <2>3. "confirm" \in Dialogs /\ "confirm" \notin GroupsP!OnClients /\ "confirm" # "remove"
        BY DEF Dialogs, GroupsP!OnClients, GroupsP!Pickers
    <2>4. /\ IsAll(all)' /\ openedFor' \in [GroupsP!OnClients -> GroupName] /\ groupForAction' \in GroupName
          /\ DOMAIN groupsSelected' = GroupsP!Pickers
          /\ groupsDraft' = [target |-> groupsDraft'.target, name |-> groupsDraft'.name]
          /\ groupsDraft'.target \in GroupName /\ groupsDraft'.name \in GroupName
        BY <1>1, <2>1 DEF DialogsKnown
    <2> QED BY <1>1, <2>1, <2>2, <2>3, <2>4, DialogOpens
<1>7. ASSUME NEW d \in GroupsP!Pickers, NEW old \in BOOLEAN, GroupsP!openPicker(d, g, old) PROVE DialogsKnown'
    <2>1. /\ stack' = <<d>> /\ GroupsP!Enable(<<d>>, old)
          /\ groupForAction' = g /\ openedFor' = [openedFor EXCEPT ![d] = g]
          /\ groupsSelected' = [groupsSelected EXCEPT ![d] = {}]
          /\ UNCHANGED <<groupsDraft, confirming>>
        BY <1>7 DEF GroupsP!openPicker
    <2>2. confirming = GroupsP!None
        BY <1>1, <1>2, EmptyStack DEF DialogsKnown, GroupsP!IsOpen
    <2>3. d \in Dialogs /\ d \in GroupsP!OnClients /\ d # "confirm"
        BY DEF Dialogs, GroupsP!OnClients, GroupsP!Pickers
    <2>4. IsAll(all)'
        BY <1>1, <2>1, AllKept
    <2>5. openedFor' \in [GroupsP!OnClients -> GroupName] /\ openedFor'[d] = g
        BY <1>1, <2>1, <2>3 DEF DialogsKnown
    <2>6. DOMAIN groupsSelected' = GroupsP!Pickers /\ groupsSelected'[d] = {}
        BY <1>1, <2>1 DEF DialogsKnown
    <2>7. /\ groupsDraft' = [target |-> groupsDraft'.target, name |-> groupsDraft'.name]
          /\ groupsDraft'.target \in GroupName /\ groupsDraft'.name \in GroupName
        BY <1>1, <2>1 DEF DialogsKnown
    <2>8. stack' = <<d>> /\ confirming' = GroupsP!None /\ groupForAction' = g
        BY <2>1, <2>2
    <2> QED BY <1>1, <2>3, <2>4, <2>5, <2>6, <2>7, <2>8, DialogOpens
<1>8. DialogsKnown'
    BY <1>5, <1>6, <1>7
<1> QED
    BY <1>3, <1>4, <1>8 DEF GroupsKnown

\* A name is typed.
LEMMA TypesKnown == ASSUME GroupsKnown, NEW n \in GroupName, GroupsP!typeName(n) PROVE GroupsKnown'
<1>1. GroupsTyped /\ DialogsKnown /\ GroupCallsKnown
    BY DEF GroupsKnown
<1>2. /\ UNCHANGED <<groupOf, groupsStored, groups, groupsReq, harmed, gcalls, groupsConfirmBusy, gwhy>>
      /\ UNCHANGED <<all, stack, openedFor, confirming, groupForAction, groupsSelected>> /\ CausesStay
      /\ groupsDraft' = [groupsDraft EXCEPT !.name = n]
    BY DEF GroupsP!typeName, GroupsP!actKeeps, GroupsP!groupTable, GroupsP!ghosts, CausesStay
<1>3. GroupsTyped'
    BY <1>1, <1>2, ServerStays
<1>4. GroupCallsKnown'
    BY <1>1, <1>2, CallsEnd
<1>5. /\ groupsDraft' = [target |-> groupsDraft'.target, name |-> groupsDraft'.name]
      /\ groupsDraft'.target \in GroupName /\ groupsDraft'.name \in GroupName
    <2>1. groupsDraft' = [target |-> groupsDraft.target, name |-> n]
        BY <1>1, <1>2 DEF DialogsKnown
    <2> QED BY <1>1, <2>1 DEF DialogsKnown
<1>6. DialogsKnown'
    BY <1>1, <1>2, <1>5 DEF DialogsKnown, GroupsP!IsOpen, GroupsP!Offered, IsAll
<1> QED
    BY <1>3, <1>4, <1>6 DEF GroupsKnown

\* Clients are ticked in a picker.
LEMMA PicksKnown ==
    ASSUME GroupsKnown, NEW d \in GroupsP!Pickers,
           (\E c : GroupsP!toggle(d, c)) \/ \E F : GroupsP!toggleAll(d, F)
    PROVE  GroupsKnown'
<1>1. GroupsTyped /\ DialogsKnown /\ GroupCallsKnown
    BY DEF GroupsKnown
<1>2. PICK S : GroupsP!Pick(d, S) /\ (groupsSelected[d] \subseteq GroupsP!Offered(d, all.data)
                                        => S \subseteq GroupsP!Offered(d, all.data))
    <2>1. ASSUME NEW c, GroupsP!toggle(d, c)
          PROVE  \E S : GroupsP!Pick(d, S) /\ (groupsSelected[d] \subseteq GroupsP!Offered(d, all.data)
                                        => S \subseteq GroupsP!Offered(d, all.data))
        <3> DEFINE S == IF c \in groupsSelected[d] THEN groupsSelected[d] \ {c} ELSE groupsSelected[d] \cup {c}
        <3>1. c \in GroupsP!Offered(d, all.data) /\ GroupsP!Pick(d, S)
            BY <2>1 DEF GroupsP!toggle
        <3>2. S \subseteq groupsSelected[d] \cup {c}
            OBVIOUS
        <3> HIDE DEF S
        <3> QED BY <3>1, <3>2
    <2>2. ASSUME NEW F, GroupsP!toggleAll(d, F)
          PROVE  \E S : GroupsP!Pick(d, S) /\ (groupsSelected[d] \subseteq GroupsP!Offered(d, all.data)
                                        => S \subseteq GroupsP!Offered(d, all.data))
        <3> DEFINE filtered == GroupsP!Offered(d, all.data) \cap F
                   S == IF filtered \subseteq groupsSelected[d] THEN groupsSelected[d] \ filtered
                        ELSE groupsSelected[d] \cup filtered
        <3>1. GroupsP!Pick(d, S)
            BY <2>2 DEF GroupsP!toggleAll
        <3>2. groupsSelected[d] \subseteq GroupsP!Offered(d, all.data) => S \subseteq GroupsP!Offered(d, all.data)
            OBVIOUS
        <3> QED BY <3>1, <3>2
    <2> QED BY <2>1, <2>2
<1>3. /\ UNCHANGED <<groupOf, groupsStored, groups, groupsReq, harmed, gcalls, groupsConfirmBusy, gwhy>>
      /\ UNCHANGED <<all, stack, openedFor, groupsDraft, confirming, groupForAction>> /\ CausesStay
      /\ groupsSelected' = [groupsSelected EXCEPT ![d] = S]
    BY <1>2 DEF GroupsP!Pick, GroupsP!actKeeps, GroupsP!groupTable, GroupsP!ghosts, CausesStay
<1>4. GroupsTyped'
    BY <1>1, <1>3, ServerStays
<1>5. GroupCallsKnown'
    BY <1>1, <1>3, CallsEnd
<1>6. DOMAIN groupsSelected' = GroupsP!Pickers /\ "remove" \in GroupsP!Pickers
      /\ groupsSelected'["remove"] = IF d = "remove" THEN S ELSE groupsSelected["remove"]
    BY <1>1, <1>3 DEF DialogsKnown, GroupsP!Pickers
<1>7. /\ \A e \in GroupsP!OnClients : GroupsP!IsOpen(e)' = GroupsP!IsOpen(e)
      /\ GroupsP!IsOpen("confirm")' = GroupsP!IsOpen("confirm")
      /\ GroupsP!IsOpen("remove")' = GroupsP!IsOpen("remove")
      /\ GroupsP!Offered("remove", all.data)' = GroupsP!Offered("remove", all.data)
    BY <1>3 DEF GroupsP!IsOpen, GroupsP!Offered
<1>8. DialogsKnown'
    BY <1>1, <1>2, <1>3, <1>6, <1>7 DEF DialogsKnown, IsAll
<1> QED
    BY <1>4, <1>5, <1>8 DEF GroupsKnown

\* The dialog on top closes.
LEMMA ClosesKnown == ASSUME GroupsKnown, GroupsP!closeTop PROVE GroupsKnown'
<1>1. GroupsTyped /\ DialogsKnown /\ GroupCallsKnown
    BY DEF GroupsKnown
<1>2. /\ UNCHANGED <<groupOf, groupsStored, groups, groupsReq, harmed, gcalls, groupsConfirmBusy, gwhy>>
      /\ UNCHANGED <<all, openedFor, groupsDraft, groupForAction, groupsSelected>> /\ CausesStay
      /\ stack # <<>> /\ stack' = Tail(stack)
      /\ confirming' = IF Head(stack) = "confirm" THEN GroupsP!None ELSE confirming
    BY DEF GroupsP!closeTop, GroupsP!actKeeps, GroupsP!groupTable, GroupsP!ghosts, CausesStay, GroupsP!OnTop
<1>3. GroupsTyped'
    BY <1>1, <1>2, ServerStays
<1>4. GroupCallsKnown'
    BY <1>1, <1>2, CallsEnd
<1>5. IsStack(stack') /\ GroupsP!ToSet(stack') = GroupsP!ToSet(stack) \ {Head(stack)}
    BY <1>1, <1>2, StackClosed DEF DialogsKnown
<1>6. \A e : GroupsP!IsOpen(e)' <=> GroupsP!IsOpen(e) /\ e # Head(stack)
    BY <1>5 DEF GroupsP!IsOpen
<1>7. GroupsP!Offered("remove", all.data)' = GroupsP!Offered("remove", all.data)
    BY <1>2 DEF GroupsP!Offered
<1>8. DialogsKnown'
    BY <1>1, <1>2, <1>5, <1>6, <1>7 DEF DialogsKnown, IsAll
<1> QED
    BY <1>3, <1>4, <1>8 DEF GroupsKnown

LEMMA TopIsOpen == ASSUME IsStack(stack), NEW d, GroupsP!OnTop(d) PROVE GroupsP!IsOpen(d)
<1>1. stack # <<>> /\ Head(stack) = d /\ Len(stack) \in Nat
    BY DEF GroupsP!OnTop, IsStack
<1>2. 1 \in 1..Len(stack) /\ stack[1] = d
    BY <1>1 DEF IsStack
<1> QED
    BY <1>2, OnStack DEF GroupsP!IsOpen

\* What every send leaves alone, and a call that acts on the group it was
\* opened for.
LEMMA SendKnown ==
    ASSUME GroupsKnown, NEW c, gcalls' = gcalls \cup {c}, IsGroupCall(c), c.opened # c.g => "swapped" \in gwhy,
           UNCHANGED <<groupOf, groupsStored, groups, groupsReq, harmed, gwhy, all>>,
           UNCHANGED <<stack, openedFor, groupsDraft, confirming, groupForAction, groupsSelected>>,
           groupsConfirmBusy => groupsConfirmBusy',
           c.kind \in Confirmed => ~groupsConfirmBusy /\ groupsConfirmBusy',
           c.kind = "remove" /\ ~c.behind /\ gwhy \cap {"kept", "swapped"} = {} =>
               \A e \in c.emails \cap DOMAIN groupOf : groupOf[e] = c.g
    PROVE  GroupsKnown'
<1>1. GroupsTyped /\ DialogsKnown /\ GroupCallsKnown /\ CausesStay
    BY DEF GroupsKnown, CausesStay
<1>2. GroupsTyped'
    BY <1>1, ServerStays
<1>3. DialogsKnown'
    <2>1. IsAll(all)' /\ all'.data = all.data
        BY <1>1 DEF DialogsKnown, IsAll
    <2> QED BY <1>1, <2>1, DialogsStay
<1>4. GroupCallsKnown'
    BY <1>1, CallSent
<1> QED
    BY <1>2, <1>3, <1>4 DEF GroupsKnown

\* A group is created or renamed.
LEMMA NamesKnown ==
    ASSUME GroupsKnown, GroupsP!confirmCreate \/ GroupsP!confirmRename
    PROVE  GroupsKnown'
<1>1. DialogsKnown
    BY DEF GroupsKnown
<1>2. PICK k, g, c :
            /\ k \in GroupKinds /\ g \in GroupName
            /\ k \in {"create", "rename"} /\ groupsDraft.name # "" /\ gcalls' = gcalls \cup {c}
            /\ c = [GroupsP!Call(k, g, {}) EXCEPT !.to = groupsDraft.name]
    <2>1. CASE GroupsP!confirmCreate
        <3>1. "create" \in GroupKinds /\ "" \in GroupName
            BY DEF GroupKinds, GroupName
        <3>2. /\ groupsDraft.name # ""
              /\ gcalls' = gcalls \cup {[GroupsP!Call("create", "", {}) EXCEPT !.to = groupsDraft.name]}
            BY <2>1 DEF GroupsP!confirmCreate, GroupsP!Send
        <3> QED BY <3>1, <3>2
    <2>2. CASE GroupsP!confirmRename
        <3>1. "rename" \in GroupKinds /\ groupsDraft.target \in GroupName
            BY <1>1 DEF GroupKinds, DialogsKnown
        <3>2. /\ groupsDraft.name # ""
              /\ gcalls' = gcalls \cup {[GroupsP!Call("rename", groupsDraft.target, {}) EXCEPT !.to = groupsDraft.name]}
            BY <2>2 DEF GroupsP!confirmRename, GroupsP!Send
        <3> QED BY <3>1, <3>2
    <2> QED BY <2>1, <2>2
<1>3. /\ UNCHANGED <<groupOf, groupsStored, groups, groupsReq, harmed, gwhy, all, groupsConfirmBusy>>
      /\ UNCHANGED <<stack, openedFor, groupsDraft, confirming, groupForAction, groupsSelected>>
    BY DEF GroupsP!confirmCreate, GroupsP!confirmRename, GroupsP!actKeeps, GroupsP!groupTable, GroupsP!ghosts,
           GroupsP!dialogs
<1> DEFINE S == {}
           n == groupsDraft.name
<1>4. c = [GroupsP!Call(k, g, S) EXCEPT !.to = n]
    BY <1>2
<1>5. k \in GroupKinds /\ g \in GroupName /\ n \in GroupName /\ n \in GroupsP!Names /\ k # "add"
    BY <1>1, <1>2 DEF DialogsKnown, GroupName
<1> HIDE DEF S, n
<1>6. IsMade(c, k, g, S, n, g)
    BY <1>4, MadeCall
<1>7. IsGroupCall(c)
    BY <1>5, <1>6, MadeTyped
<1>8. c.opened = c.g /\ c.kind \notin Confirmed /\ c.kind # "remove"
    BY <1>2, <1>6 DEF IsMade, Confirmed
<1> QED
    BY <1>2, <1>3, <1>7, <1>8, SendKnown

\* The clients of a group are asked for.
LEMMA AsksKnown ==
    ASSUME GroupsKnown, NEW k, k \in {"links", "adjust"}, NEW g \in GroupName, GroupsP!withEmails(k, g)
    PROVE  GroupsKnown'
<1> DEFINE S == {}
           c == GroupsP!Call(k, g, S)
<1>1. gcalls' = gcalls \cup {c} /\ k \in GroupKinds /\ k \notin Confirmed /\ k # "remove" /\ k \notin {"create", "rename", "add"}
    BY DEF GroupsP!withEmails, GroupsP!Send, GroupKinds, Confirmed
<1>2. /\ UNCHANGED <<groupOf, groupsStored, groups, groupsReq, harmed, gwhy, all, groupsConfirmBusy>>
      /\ UNCHANGED <<stack, openedFor, groupsDraft, confirming, groupForAction, groupsSelected>>
    BY DEF GroupsP!withEmails, GroupsP!actKeeps, GroupsP!groupTable, GroupsP!ghosts, GroupsP!dialogs
<1> HIDE DEF S
<1>3. IsMade(c, k, g, S, "", g)
    BY MadeCall
<1> HIDE DEF c
<1>4. "" \in GroupName
    BY DEF GroupName
<1>5. IsGroupCall(c)
    BY <1>1, <1>3, <1>4, MadeTyped
<1>6. c.opened = c.g /\ c.kind \notin Confirmed /\ c.kind # "remove"
    BY <1>1, <1>3 DEF IsMade
<1> QED
    BY <1>1, <1>2, <1>5, <1>6, SendKnown

\* The user confirms.
LEMMA ConfirmsKnown == ASSUME GroupsKnown, GroupsP!runConfirm PROVE GroupsKnown'
<1> DEFINE S == {}
           k == confirming.kind
           g == confirming.g
           c == GroupsP!Call(k, g, S)
<1>1. DialogsKnown
    BY DEF GroupsKnown
<1>2. k \in {"delete", "deleteClients", "reset"} /\ g \in GroupName
    <2>1. GroupsP!OnTop("confirm")
        BY DEF GroupsP!runConfirm
    <2>2. GroupsP!IsOpen("confirm")
        BY <1>1, <2>1, TopIsOpen DEF DialogsKnown
    <2> QED BY <1>1, <2>2 DEF DialogsKnown
<1>3. gcalls' = gcalls \cup {c} /\ ~groupsConfirmBusy /\ groupsConfirmBusy'
    BY DEF GroupsP!runConfirm, GroupsP!Send
<1>4. /\ UNCHANGED <<groupOf, groupsStored, groups, groupsReq, harmed, gwhy, all>>
      /\ UNCHANGED <<stack, openedFor, groupsDraft, confirming, groupForAction, groupsSelected>>
    BY DEF GroupsP!runConfirm, GroupsP!actKeeps, GroupsP!groupTable, GroupsP!ghosts
<1>5. k \in GroupKinds /\ k # "remove" /\ k \notin {"create", "rename"} /\ k # "add" /\ "" \in GroupName
    BY <1>2 DEF GroupKinds, Confirmed, GroupName
<1> HIDE DEF S, k, g
<1>6. IsMade(c, k, g, S, "", g)
    BY MadeCall
<1> HIDE DEF c
<1>7. IsGroupCall(c)
    BY <1>2, <1>5, <1>6, MadeTyped
<1>8. c.opened = c.g /\ c.kind # "remove"
    BY <1>5, <1>6 DEF IsMade
<1> QED
    BY <1>3, <1>4, <1>7, <1>8, SendKnown

\* A picker is submitted.
LEMMA SubmitsKnown == ASSUME GroupsKnown, NEW d \in GroupsP!Pickers, GroupsP!submitPicker(d) PROVE GroupsKnown'
<1> DEFINE S == groupsSelected[d]
           g == groupForAction
           o == openedFor[d]
           c == [GroupsP!Call(d, g, S) EXCEPT !.opened = o]
<1>1. DialogsKnown /\ d \in GroupsP!OnClients
    BY DEF GroupsKnown, GroupsP!OnClients
<1>2. gcalls' = gcalls \cup {c} /\ g # ""
    BY DEF GroupsP!submitPicker, GroupsP!Send
<1>3. /\ UNCHANGED <<groupOf, groupsStored, groups, groupsReq, harmed, gwhy, all, groupsConfirmBusy>>
      /\ UNCHANGED <<stack, openedFor, groupsDraft, confirming, groupForAction, groupsSelected>>
    BY DEF GroupsP!submitPicker, GroupsP!actKeeps, GroupsP!groupTable, GroupsP!ghosts, GroupsP!dialogs
<1>4. GroupsP!IsOpen(d)
    BY <1>1, TopIsOpen DEF DialogsKnown, GroupsP!submitPicker
<1>5. g \in GroupName /\ g \in GroupsP!Names /\ "" \in GroupName /\ (o # g => "swapped" \in gwhy)
    BY <1>1, <1>2, <1>4 DEF DialogsKnown, GroupName
<1>6. d \in GroupKinds /\ d \notin Confirmed /\ d \notin {"create", "rename"}
    BY DEF GroupsP!Pickers, GroupKinds, Confirmed
<1>7. d = "remove" /\ ~GroupsP!ListBehind(S) /\ gwhy \cap {"kept", "swapped"} = {} =>
          \A e \in S \cap DOMAIN groupOf : groupOf[e] = g
    <2> SUFFICES ASSUME d = "remove", ~GroupsP!ListBehind(S), gwhy \cap {"kept", "swapped"} = {},
                        NEW e \in S \cap DOMAIN groupOf
                 PROVE  groupOf[e] = g
        OBVIOUS
    <2>1. S \subseteq GroupsP!Offered("remove", all.data)
        BY <1>1, <1>4 DEF DialogsKnown
    <2>2. all.data # GroupsP!None /\ e \in DOMAIN all.data /\ all.data[e] = g
        BY <2>1 DEF GroupsP!Offered
    <2>3. all.data[e] = groupOf[e]
        BY <2>2 DEF GroupsP!ListBehind
    <2> QED BY <2>2, <2>3
<1> HIDE DEF S, g, o
<1>8. IsMade(c, d, g, S, "", o)
    BY MadeCall
<1> HIDE DEF c
<1>9. IsGroupCall(c)
    BY <1>5, <1>6, <1>8, MadeTyped
<1>10. /\ c.opened # c.g => "swapped" \in gwhy
       /\ c.kind \notin Confirmed
       /\ c.kind = "remove" /\ ~c.behind /\ gwhy \cap {"kept", "swapped"} = {} =>
               \A e \in c.emails \cap DOMAIN groupOf : groupOf[e] = c.g
    BY <1>5, <1>6, <1>7, <1>8 DEF IsMade
<1> QED
    BY <1>2, <1>3, <1>9, <1>10, SendKnown

\* The adjustment of a group's clients is submitted.
LEMMA AdjustsKnown == ASSUME GroupsKnown, GroupsP!submitAdjust PROVE GroupsKnown'
<1> DEFINE S == groupEmails
           g == groupForAction
           o == openedFor["adjust"]
           k == "bulkAdjust"
           c == [GroupsP!Call(k, g, S) EXCEPT !.opened = o]
<1>1. DialogsKnown /\ "adjust" \in GroupsP!OnClients
    BY DEF GroupsKnown, GroupsP!OnClients
<1>2. gcalls' = gcalls \cup {c}
    BY DEF GroupsP!submitAdjust, GroupsP!Send
<1>3. /\ UNCHANGED <<groupOf, groupsStored, groups, groupsReq, harmed, gwhy, all, groupsConfirmBusy>>
      /\ UNCHANGED <<stack, openedFor, groupsDraft, confirming, groupForAction, groupsSelected>>
    BY DEF GroupsP!submitAdjust, GroupsP!actKeeps, GroupsP!groupTable, GroupsP!ghosts, GroupsP!dialogs
<1>4. GroupsP!IsOpen("adjust")
    BY <1>1, TopIsOpen DEF DialogsKnown, GroupsP!submitAdjust
<1>5. g \in GroupName /\ "" \in GroupName /\ (o # g => "swapped" \in gwhy)
    BY <1>1, <1>4 DEF DialogsKnown, GroupName
<1>6. k \in GroupKinds /\ k \notin Confirmed /\ k \notin {"create", "rename"} /\ k # "add" /\ k # "remove"
    BY DEF GroupKinds, Confirmed
<1> HIDE DEF S, g, o, k
<1>8. IsMade(c, k, g, S, "", o)
    BY MadeCall
<1> HIDE DEF c
<1>9. IsGroupCall(c)
    BY <1>5, <1>6, <1>8, MadeTyped
<1>10. /\ c.opened # c.g => "swapped" \in gwhy
       /\ c.kind \notin Confirmed
       /\ c.kind # "remove"
    BY <1>5, <1>6, <1>8 DEF IsMade
<1> QED
    BY <1>2, <1>3, <1>9, <1>10, SendKnown

IsCallRecord(c) ==
    c = [kind |-> c.kind, g |-> c.g, emails |-> c.emails, to |-> c.to, opened |-> c.opened, behind |-> c.behind,
         ans |-> c.ans]

LEMMA FieldExcept ==
    ASSUME NEW c, IsCallRecord(c), NEW v
    PROVE  /\ [c EXCEPT !.kind = v] = [kind |-> v, g |-> c.g, emails |-> c.emails, to |-> c.to, opened |-> c.opened,
                                       behind |-> c.behind, ans |-> c.ans]
           /\ [c EXCEPT !.emails = v] = [kind |-> c.kind, g |-> c.g, emails |-> v, to |-> c.to, opened |-> c.opened,
                                         behind |-> c.behind, ans |-> c.ans]
           /\ [c EXCEPT !.behind = v] = [kind |-> c.kind, g |-> c.g, emails |-> c.emails, to |-> c.to, opened |-> c.opened,
                                         behind |-> v, ans |-> c.ans]
           /\ [c EXCEPT !.ans = v] = [kind |-> c.kind, g |-> c.g, emails |-> c.emails, to |-> c.to, opened |-> c.opened,
                                      behind |-> c.behind, ans |-> v]
BY DEF IsCallRecord

LEMMA AnswerExcept ==
    ASSUME NEW c, IsCallRecord(c), NEW a
    PROVE  /\ \A b : [c EXCEPT !.behind = b, !.ans = a]
                 = [kind |-> c.kind, g |-> c.g, emails |-> c.emails, to |-> c.to, opened |-> c.opened, behind |-> b, ans |-> a]
           /\ \A b, S : [c EXCEPT !.emails = S, !.behind = b, !.ans = a]
                 = [kind |-> c.kind, g |-> c.g, emails |-> S, to |-> c.to, opened |-> c.opened, behind |-> b, ans |-> a]
           /\ \A k : [c EXCEPT !.kind = k, !.ans = a]
                 = [kind |-> k, g |-> c.g, emails |-> c.emails, to |-> c.to, opened |-> c.opened, behind |-> c.behind, ans |-> a]
<1> SUFFICES ASSUME NEW b, NEW S, NEW k
    PROVE  /\ [c EXCEPT !.behind = b, !.ans = a]
                 = [kind |-> c.kind, g |-> c.g, emails |-> c.emails, to |-> c.to, opened |-> c.opened, behind |-> b, ans |-> a]
           /\ [c EXCEPT !.emails = S, !.behind = b, !.ans = a]
                 = [kind |-> c.kind, g |-> c.g, emails |-> S, to |-> c.to, opened |-> c.opened, behind |-> b, ans |-> a]
           /\ [c EXCEPT !.kind = k, !.ans = a]
                 = [kind |-> k, g |-> c.g, emails |-> c.emails, to |-> c.to, opened |-> c.opened, behind |-> c.behind, ans |-> a]
    OBVIOUS
<1> DEFINE p == [c EXCEPT !.emails = S]
           q == [c EXCEPT !.behind = b]
           r == [p EXCEPT !.behind = b]
           t == [c EXCEPT !.kind = k]
<1>1. /\ [c EXCEPT !.behind = b, !.ans = a] = [q EXCEPT !.ans = a]
      /\ [c EXCEPT !.emails = S, !.behind = b, !.ans = a] = [r EXCEPT !.ans = a]
      /\ [c EXCEPT !.kind = k, !.ans = a] = [t EXCEPT !.ans = a]
    OBVIOUS
<1>2. \A v1, v2, v3, v4, v5, v6, v7 :
         LET x == [kind |-> v1, g |-> v2, emails |-> v3, to |-> v4, opened |-> v5, behind |-> v6, ans |-> v7]
         IN  /\ IsCallRecord(x) /\ x.kind = v1 /\ x.g = v2 /\ x.emails = v3 /\ x.to = v4 /\ x.opened = v5 /\ x.behind = v6
             /\ x.ans = v7
    BY DEF IsCallRecord
<1>3. p = [kind |-> c.kind, g |-> c.g, emails |-> S, to |-> c.to, opened |-> c.opened, behind |-> c.behind, ans |-> c.ans]
    BY FieldExcept
<1>4. q = [kind |-> c.kind, g |-> c.g, emails |-> c.emails, to |-> c.to, opened |-> c.opened, behind |-> b, ans |-> c.ans]
    BY FieldExcept
<1>5. t = [kind |-> k, g |-> c.g, emails |-> c.emails, to |-> c.to, opened |-> c.opened, behind |-> c.behind, ans |-> c.ans]
    BY FieldExcept
<1> HIDE DEF p, q, t
<1>6. IsCallRecord(p) /\ p.kind = c.kind /\ p.g = c.g /\ p.emails = S /\ p.to = c.to /\ p.opened = c.opened /\ p.ans = c.ans
    BY <1>2, <1>3
<1>7. r = [kind |-> c.kind, g |-> c.g, emails |-> S, to |-> c.to, opened |-> c.opened, behind |-> b, ans |-> c.ans]
    <2>1. r = [kind |-> p.kind, g |-> p.g, emails |-> p.emails, to |-> p.to, opened |-> p.opened, behind |-> b, ans |-> p.ans]
        BY <1>6, FieldExcept
    <2> HIDE DEF r
    <2> QED BY <1>6, <2>1
<1> HIDE DEF r
<1>8. [q EXCEPT !.ans = a]
          = [kind |-> c.kind, g |-> c.g, emails |-> c.emails, to |-> c.to, opened |-> c.opened, behind |-> b, ans |-> a]
    BY <1>4
<1>9. [r EXCEPT !.ans = a] = [kind |-> c.kind, g |-> c.g, emails |-> S, to |-> c.to, opened |-> c.opened, behind |-> b, ans |-> a]
    BY <1>7
<1>10. [t EXCEPT !.ans = a]
          = [kind |-> k, g |-> c.g, emails |-> c.emails, to |-> c.to, opened |-> c.opened, behind |-> c.behind, ans |-> a]
    BY <1>5
<1> QED
    BY <1>1, <1>8, <1>9, <1>10

LEMMA ReadExcept ==
    ASSUME NEW c, IsCallRecord(c), NEW a, NEW b, NEW S, NEW d, d = [c EXCEPT !.emails = S, !.behind = b, !.ans = a]
    PROVE  d = [kind |-> c.kind, g |-> c.g, emails |-> S, to |-> c.to, opened |-> c.opened, behind |-> b, ans |-> a]
<1>1. \A b2, S2 : [c EXCEPT !.emails = S2, !.behind = b2, !.ans = a]
                 = [kind |-> c.kind, g |-> c.g, emails |-> S2, to |-> c.to, opened |-> c.opened, behind |-> b2, ans |-> a]
    BY AnswerExcept
<1> QED
    BY <1>1, Zenon

LEMMA KindExcept ==
    ASSUME NEW c, IsCallRecord(c), NEW a, NEW k, NEW d, d = [c EXCEPT !.kind = k, !.ans = a]
    PROVE  d = [kind |-> k, g |-> c.g, emails |-> c.emails, to |-> c.to, opened |-> c.opened, behind |-> c.behind, ans |-> a]
<1>1. \A k2 : [c EXCEPT !.kind = k2, !.ans = a]
         = [kind |-> k2, g |-> c.g, emails |-> c.emails, to |-> c.to, opened |-> c.opened, behind |-> c.behind, ans |-> a]
    BY AnswerExcept
<1> QED
    BY <1>1, Zenon

\* An answered call, of which only the clients and the answer are new.
LEMMA AnswerFollows ==
    ASSUME NEW c, IsGroupCall(c), NEW d, NEW S, NEW b \in BOOLEAN, NEW a \in {"ok", "refused", "read"},
           d = [kind |-> c.kind, g |-> c.g, emails |-> S, to |-> c.to, opened |-> c.opened, behind |-> b, ans |-> a]
    PROVE  Follows(c, d)
<1>1. /\ d.kind = c.kind /\ d.g = c.g /\ d.emails = S /\ d.to = c.to /\ d.opened = c.opened /\ d.behind = b /\ d.ans = a
      /\ d = [kind |-> d.kind, g |-> d.g, emails |-> d.emails, to |-> d.to, opened |-> d.opened, behind |-> d.behind,
              ans |-> d.ans]
    OBVIOUS
<1>2. IsGroupCall(d)
    BY <1>1 DEF IsGroupCall
<1>3. d.ans # "asked" /\ (d.opened = d.g \/ c.opened # c.g)
    BY <1>1
<1> QED
    BY <1>1, <1>2, <1>3 DEF Follows

\* What the server makes of its groups.
LEMMA Regrouped ==
    ASSUME GroupsTyped, NEW S, NEW g \in GroupName, groupOf' = [c \in DOMAIN groupOf |-> IF c \in S THEN g ELSE groupOf[c]]
    PROVE  DOMAIN groupOf' \subseteq Emails /\ \A c \in DOMAIN groupOf' : groupOf'[c] \in GroupName
BY DEF GroupsTyped

LEMMA ServeData ==
    ASSUME GroupsKnown, NEW c \in gcalls, GroupsP!serve(c)
    PROVE  /\ DOMAIN groupOf' \subseteq Emails /\ \A x \in DOMAIN groupOf' : groupOf'[x] \in GroupName
           /\ groupsStored' \subseteq GroupsP!Names
<1>1. GroupsTyped /\ IsGroupCall(c) /\ "" \in GroupName
    BY DEF GroupsKnown, GroupCallsKnown, GroupName
<1>2. /\ DOMAIN groupOf \subseteq Emails /\ \A x \in DOMAIN groupOf : groupOf[x] \in GroupName
      /\ groupsStored \subseteq GroupsP!Names
    BY <1>1 DEF GroupsTyped
<1>3. CASE c.kind = "create"
    <2>1. UNCHANGED groupOf /\ groupsStored' = groupsStored \cup {c.to} /\ c.to \in GroupsP!Names
        BY <1>1, <1>3 DEF GroupsP!serve, GroupsP!CreateGroup, IsGroupCall
    <2> QED BY <1>2, <2>1
<1>4. CASE c.kind = "rename"
    <2>1. GroupsP!RenameGroup(c) /\ c.to \in GroupsP!Names /\ c.to \in GroupName
        BY <1>1, <1>4 DEF GroupsP!serve, IsGroupCall
    <2>2. /\ GroupsP!Regroup(GroupsP!members(c.g), c.to)
          /\ groupsStored' = IF c.g \in groupsStored THEN (groupsStored \ {c.g}) \cup {c.to} ELSE groupsStored
        BY <2>1 DEF GroupsP!RenameGroup
    <2>3. DOMAIN groupOf' \subseteq Emails /\ \A x \in DOMAIN groupOf' : groupOf'[x] \in GroupName
        BY <1>1, <2>1, <2>2, Regrouped DEF GroupsP!Regroup
    <2> QED BY <1>2, <2>1, <2>2, <2>3
<1>5. CASE c.kind = "delete"
    <2>1. GroupsP!Regroup(GroupsP!members(c.g), "") /\ groupsStored' = groupsStored \ {c.g}
        BY <1>5 DEF GroupsP!serve, GroupsP!DeleteGroup
    <2>2. DOMAIN groupOf' \subseteq Emails /\ \A x \in DOMAIN groupOf' : groupOf'[x] \in GroupName
        BY <1>1, <2>1, Regrouped DEF GroupsP!Regroup
    <2> QED BY <1>2, <2>1, <2>2
<1>6. CASE c.kind = "add"
    <2>1. /\ GroupsP!Regroup(c.emails, c.g) /\ c.g \in GroupsP!Names /\ c.g \in GroupName
          /\ groupsStored' = IF c.g \in GroupsP!Known THEN groupsStored ELSE groupsStored \cup {c.g}
        BY <1>1, <1>6 DEF GroupsP!serve, GroupsP!AddToGroup, IsGroupCall
    <2>2. DOMAIN groupOf' \subseteq Emails /\ \A x \in DOMAIN groupOf' : groupOf'[x] \in GroupName
        BY <1>1, <2>1, Regrouped DEF GroupsP!Regroup
    <2> QED BY <1>2, <2>1, <2>2
<1>7. CASE c.kind = "remove"
    <2>1. GroupsP!Regroup(c.emails, "") /\ UNCHANGED groupsStored
        BY <1>7 DEF GroupsP!serve, GroupsP!RemoveFromGroup
    <2>2. DOMAIN groupOf' \subseteq Emails /\ \A x \in DOMAIN groupOf' : groupOf'[x] \in GroupName
        BY <1>1, <2>1, Regrouped DEF GroupsP!Regroup
    <2> QED BY <1>2, <2>1, <2>2
<1>8. CASE c.kind = "bulkDelete"
    <2>1. PICK some : GroupsP!Delete(some)
        BY <1>8 DEF GroupsP!serve, GroupsP!BulkDelete
    <2> QED BY <1>2, <2>1 DEF GroupsP!Delete
<1>9. CASE c.kind \in {"links", "adjust", "deleteClients", "reset", "bulkAdjust", "bulkReset"}
    <2>1. UNCHANGED <<groupOf, groupsStored>>
        BY <1>9 DEF GroupsP!serve, GroupsP!EmailsByGroup, GroupsP!Applied, GroupsP!groupTable
    <2> QED BY <1>2, <2>1
<1> QED
    BY <1>1, <1>3, <1>4, <1>5, <1>6, <1>7, <1>8, <1>9 DEF IsGroupCall, GroupKinds, Confirmed

\* The server has answered c with d.
IsAnswered(c, d) ==
    /\ Follows(c, d)
    /\ \/ gcalls' = GroupsP!Overtaken(gcalls \ {c}) \cup {d}
       \/ gcalls' = (gcalls \ {c}) \cup {d} /\ groupOf' = groupOf

LEMMA AnsweredFollows ==
    ASSUME NEW c, IsGroupCall(c), NEW a, a \in {"ok", "refused", "read"}
    PROVE  /\ Follows(c, [c EXCEPT !.ans = a]) /\ Follows(c, [c EXCEPT !.behind = FALSE, !.ans = a])
           /\ \A S : Follows(c, [c EXCEPT !.emails = S, !.behind = FALSE, !.ans = a])
<1> DEFINE b == FALSE
<1>1. b \in BOOLEAN /\ c.behind \in BOOLEAN /\ IsCallRecord(c)
    BY DEF IsGroupCall, IsCallRecord
<1> HIDE DEF b
<1>2. Follows(c, [c EXCEPT !.ans = a])
    <2> DEFINE d == [c EXCEPT !.ans = a]
    <2>1. d = [kind |-> c.kind, g |-> c.g, emails |-> c.emails, to |-> c.to, opened |-> c.opened, behind |-> c.behind, ans |-> a]
        BY <1>1, FieldExcept
    <2> HIDE DEF d
    <2>2. Follows(c, d)
        BY <1>1, <2>1, AnswerFollows
    <2> QED BY <2>2 DEF d
<1>3. Follows(c, [c EXCEPT !.behind = b, !.ans = a])
    <2> DEFINE d == [c EXCEPT !.behind = b, !.ans = a]
    <2>1. d = [kind |-> c.kind, g |-> c.g, emails |-> c.emails, to |-> c.to, opened |-> c.opened, behind |-> b, ans |-> a]
        BY <1>1, AnswerExcept
    <2> HIDE DEF d
    <2>2. Follows(c, d)
        BY <1>1, <2>1, AnswerFollows
    <2> QED BY <2>2 DEF d
<1>4. ASSUME NEW S PROVE Follows(c, [c EXCEPT !.emails = S, !.behind = b, !.ans = a])
    <2> DEFINE d == [c EXCEPT !.emails = S, !.behind = b, !.ans = a]
    <2>1. d = [kind |-> c.kind, g |-> c.g, emails |-> S, to |-> c.to, opened |-> c.opened, behind |-> b, ans |-> a]
        BY <1>1, ReadExcept
    <2> HIDE DEF d
    <2>2. Follows(c, d)
        BY <1>1, <2>1, AnswerFollows
    <2> QED BY <2>2 DEF d
<1> QED
    BY <1>2, <1>3, <1>4 DEF b

LEMMA ServeCalls == ASSUME GroupsKnown, NEW c \in gcalls, GroupsP!serve(c) PROVE \E d : IsAnswered(c, d)
<1>1. IsGroupCall(c)
    BY DEF GroupsKnown, GroupCallsKnown
<1>2. ASSUME NEW a \in {"ok", "refused", "read"}, NEW S
      PROVE  /\ Follows(c, [c EXCEPT !.behind = FALSE, !.ans = a])
             /\ Follows(c, [c EXCEPT !.emails = S, !.behind = FALSE, !.ans = a])
    BY <1>1, AnsweredFollows
<1>3. CASE GroupsP!Performed(c)
    <2> DEFINE d == [c EXCEPT !.behind = FALSE, !.ans = "ok"]
    <2>1. Follows(c, d) /\ gcalls' = GroupsP!Overtaken(gcalls \ {c}) \cup {d}
        BY <1>2, <1>3 DEF GroupsP!Performed
    <2> HIDE DEF d
    <2> QED BY <2>1 DEF IsAnswered
<1>4. CASE c.kind \in {"create", "rename", "delete", "add", "remove", "bulkDelete"}
    <2>1. GroupsP!Performed(c)
        BY <1>4 DEF GroupsP!serve, GroupsP!CreateGroup, GroupsP!RenameGroup, GroupsP!DeleteGroup, GroupsP!AddToGroup,
              GroupsP!RemoveFromGroup, GroupsP!BulkDelete
    <2> QED BY <1>3, <2>1
<1>5. CASE c.kind \in {"links", "adjust", "deleteClients", "reset"}
    <2>1. GroupsP!EmailsByGroup(c)
        BY <1>5 DEF GroupsP!serve
    <2>2. PICK S : gcalls' = (gcalls \ {c}) \cup {[c EXCEPT !.emails = S, !.behind = FALSE, !.ans = "read"]}
        BY <2>1 DEF GroupsP!EmailsByGroup
    <2>3. groupOf' = groupOf
        BY <2>1 DEF GroupsP!EmailsByGroup, GroupsP!groupTable
    <2> DEFINE d == [c EXCEPT !.emails = S, !.behind = FALSE, !.ans = "read"]
    <2>4. Follows(c, d) /\ gcalls' = (gcalls \ {c}) \cup {d}
        BY <1>2, <2>2
    <2> HIDE DEF d
    <2> QED BY <2>3, <2>4 DEF IsAnswered
<1>6. CASE c.kind \in {"bulkAdjust", "bulkReset"}
    <2>1. GroupsP!Applied(c)
        BY <1>6 DEF GroupsP!serve
    <2> DEFINE d == [c EXCEPT !.behind = FALSE, !.ans = "ok"]
    <2>2. Follows(c, d) /\ gcalls' = (gcalls \ {c}) \cup {d} /\ groupOf' = groupOf
        BY <1>2, <2>1 DEF GroupsP!Applied, GroupsP!groupTable
    <2> HIDE DEF d
    <2> QED BY <2>2 DEF IsAnswered
<1> QED
    BY <1>1, <1>4, <1>5, <1>6 DEF IsGroupCall, GroupKinds, Confirmed

\* A removal that nothing has overtaken takes no client from another group.
LEMMA ServeHarm ==
    ASSUME GroupsKnown, NEW c \in gcalls, GroupsP!serve(c)
    PROVE  CausesStay /\ GroupsP!RemovalHasCause'
<1>1. IsGroupCall(c) /\ GroupsP!RemovalHasCause
    BY DEF GroupsKnown, GroupCallsKnown
<1>2. c.ans = "asked" /\ gwhy' = gwhy \cup (IF c.behind THEN {"behind"} ELSE {})
    BY DEF GroupsP!serve, GroupsP!Asks, GroupsP!Whys
<1>3. CausesStay
    BY <1>2 DEF CausesStay
<1>4. CASE c.kind = "remove"
    <2>1. harmed' = (harmed \/ \E e \in c.emails \cap DOMAIN groupOf : groupOf[e] \notin {c.opened, ""})
        BY <1>4 DEF GroupsP!serve, GroupsP!RemoveFromGroup
    <2>2. CASE c.behind \/ gwhy \cap {"kept", "swapped"} # {}
        <3>1. "behind" \in gwhy' \/ "kept" \in gwhy' \/ "swapped" \in gwhy'
            BY <1>2, <2>2
        <3>2. gwhy' \cap {"behind", "kept", "swapped"} # {}
            BY <3>1
        <3> QED BY <1>3, <3>2 DEF GroupsP!RemovalHasCause
    <2>3. CASE ~c.behind /\ gwhy \cap {"kept", "swapped"} = {}
        <3>1. c.opened = c.g
            BY <2>3 DEF GroupsKnown, GroupCallsKnown, GroupsP!ActsOnOpened
        <3>2. \A e \in c.emails \cap DOMAIN groupOf : groupOf[e] = c.g
            BY <1>2, <1>4, <2>3 DEF GroupsKnown, GroupCallsKnown
        <3>3. harmed' => harmed
            BY <2>1, <3>1, <3>2
        <3> QED BY <1>1, <1>3, <3>3 DEF GroupsP!RemovalHasCause, CausesStay
    <2> QED BY <2>2, <2>3
<1>5. CASE c.kind # "remove"
    <2>1. UNCHANGED harmed
        BY <1>1, <1>5 DEF GroupsP!serve, GroupsP!CreateGroup, GroupsP!RenameGroup, GroupsP!DeleteGroup, GroupsP!AddToGroup,
              GroupsP!BulkDelete, GroupsP!Delete, GroupsP!EmailsByGroup, GroupsP!Applied, GroupsP!ghosts, IsGroupCall, GroupKinds, Confirmed
    <2> QED BY <1>1, <1>3, <2>1, CauseStays
<1> QED
    BY <1>3, <1>4, <1>5

\* What the page keeps when the server has done something.
LEMMA AnsweredKnown ==
    ASSUME GroupsKnown, NEW c \in gcalls, NEW d, IsAnswered(c, d), CausesStay, GroupsP!RemovalHasCause',
           UNCHANGED <<groups, groupsReq, all, GroupsP!dialogs>>,
           DOMAIN groupOf' \subseteq Emails, \A x \in DOMAIN groupOf' : groupOf'[x] \in GroupName,
           groupsStored' \subseteq GroupsP!Names
    PROVE  GroupsKnown'
<1>1. GroupsTyped /\ DialogsKnown /\ GroupCallsKnown
    BY DEF GroupsKnown
<1>2. UNCHANGED <<stack, openedFor, groupsDraft, confirming, groupsConfirmBusy, groupForAction, groupsSelected>>
    BY DEF GroupsP!dialogs
<1>3. GroupsTyped'
    BY <1>1 DEF GroupsTyped
<1>4. DialogsKnown'
    <2>1. IsAll(all)' /\ all'.data = all.data
        BY <1>1 DEF DialogsKnown, IsAll
    <2> QED BY <1>1, <1>2, <2>1, DialogsStay
<1>5. GroupCallsKnown'
    <2> DEFINE over == gcalls' = GroupsP!Overtaken(gcalls \ {c}) \cup {d}
    <2>1. /\ gcalls' = (IF over THEN GroupsP!Overtaken(gcalls \ {c}) ELSE gcalls \ {c}) \cup {d}
          /\ over \/ groupOf' = groupOf
          /\ over \in BOOLEAN /\ Follows(c, d)
        BY DEF IsAnswered
    <2> HIDE DEF over
    <2> QED BY <1>1, <1>2, <2>1, CallsServed
<1> QED
    BY <1>3, <1>4, <1>5 DEF GroupsKnown

LEMMA ServesKnown == ASSUME GroupsKnown, NEW c \in gcalls, GroupsP!serve(c) PROVE GroupsKnown'
<1>1. UNCHANGED <<groups, groupsReq, all, GroupsP!dialogs>>
    BY DEF GroupsP!serve, GroupsP!Asks
<1>2. PICK d : IsAnswered(c, d)
    BY ServeCalls
<1>3. CausesStay /\ GroupsP!RemovalHasCause'
    BY ServeHarm
<1>4. /\ DOMAIN groupOf' \subseteq Emails /\ \A x \in DOMAIN groupOf' : groupOf'[x] \in GroupName
      /\ groupsStored' \subseteq GroupsP!Names
    BY ServeData
<1> QED
    BY <1>1, <1>2, <1>3, <1>4, AnsweredKnown

\* A refused call, done in part or not at all, and a call whose answer is lost.
LEMMA RefusesKnown == ASSUME GroupsKnown, NEW c \in gcalls, GroupsP!refuse(c) \/ GroupsP!answerLost(c) PROVE GroupsKnown'
<1>1. /\ IsGroupCall(c) /\ GroupsP!RemovalHasCause /\ DOMAIN groupOf \subseteq Emails
      /\ \A x \in DOMAIN groupOf : groupOf[x] \in GroupName
      /\ groupsStored \subseteq GroupsP!Names
    BY DEF GroupsKnown, GroupCallsKnown, GroupsTyped
<1>2. UNCHANGED <<groups, groupsReq, all, GroupsP!dialogs>> /\ CausesStay
    BY DEF GroupsP!refuse, GroupsP!answerLost, GroupsP!Asks, GroupsP!Whys, GroupsP!onScreen, CausesStay
<1>3. CASE /\ gcalls' = (gcalls \ {c}) \cup {[c EXCEPT !.ans = "refused"]}
           /\ UNCHANGED <<GroupsP!groupTable, GroupsP!ghosts>>
    <2> DEFINE d == [c EXCEPT !.ans = "refused"]
    <2>1. Follows(c, d) /\ gcalls' = (gcalls \ {c}) \cup {d}
        BY <1>1, <1>3, AnsweredFollows
    <2>2. UNCHANGED <<groupOf, groupsStored, harmed>>
        BY <1>3 DEF GroupsP!groupTable, GroupsP!ghosts
    <2> HIDE DEF d
    <2>3. IsAnswered(c, d)
        BY <2>1, <2>2 DEF IsAnswered
    <2>4. GroupsP!RemovalHasCause'
        BY <1>1, <1>2, <2>2, CauseStays
    <2> QED BY <1>1, <1>2, <2>2, <2>3, <2>4, AnsweredKnown
<1>4. CASE GroupsP!RefusedPartly(c)
    <2> DEFINE d == [c EXCEPT !.behind = FALSE, !.ans = "refused"]
    <2>1. Follows(c, d) /\ gcalls' = GroupsP!Overtaken(gcalls \ {c}) \cup {d}
        BY <1>1, <1>4, AnsweredFollows DEF GroupsP!RefusedPartly
    <2> HIDE DEF d
    <2>2. IsAnswered(c, d)
        BY <2>1 DEF IsAnswered
    <2>3. UNCHANGED harmed
        BY <1>4 DEF GroupsP!RefusedPartly, GroupsP!Delete, GroupsP!ghosts
    <2>4. GroupsP!RemovalHasCause'
        BY <1>1, <1>2, <2>3, CauseStays
    <2>5. groupsStored' \subseteq GroupsP!Names
        BY <1>1, <1>4 DEF GroupsP!RefusedPartly, GroupsP!Delete, GroupsP!ghosts, IsGroupCall
    <2>6. groupOf' = groupOf \/ \E some : groupOf' = [x \in DOMAIN groupOf \ some |-> groupOf[x]]
        BY <1>4 DEF GroupsP!RefusedPartly, GroupsP!Delete
    <2>7. DOMAIN groupOf' \subseteq Emails /\ \A x \in DOMAIN groupOf' : groupOf'[x] \in GroupName
        BY <1>1, <2>6
    <2> QED BY <1>2, <2>2, <2>4, <2>5, <2>7, AnsweredKnown
<1> QED
    BY <1>3, <1>4 DEF GroupsP!refuse, GroupsP!answerLost, GroupsP!Refused

\* A dialog that only closes.
LEMMA DialogsClose ==
    ASSUME DialogsKnown, CausesStay, IsAll(all)', all'.data = all.data, IsStack(stack'),
           \A e : GroupsP!IsOpen(e)' => GroupsP!IsOpen(e),
           UNCHANGED <<openedFor, groupsDraft, groupForAction, groupsSelected>>,
           confirming' \in {confirming, GroupsP!None}, GroupsP!IsOpen("confirm")' <=> confirming' # GroupsP!None
    PROVE  DialogsKnown'
<1>1. GroupsP!Offered("remove", all.data)' = GroupsP!Offered("remove", all.data)
    BY DEF GroupsP!Offered
<1>2. "swapped" \in gwhy => "swapped" \in gwhy'
    BY DEF CausesStay
<1>3. gwhy' \cap {"kept", "swapped"} = {} => gwhy \cap {"kept", "swapped"} = {}
    BY DEF CausesStay
<1> QED
    BY <1>1, <1>2, <1>3 DEF DialogsKnown

LEMMA DialogAnswered ==
    ASSUME GroupsKnown, NEW c \in gcalls, NEW d, d # "confirm", GroupsP!dialogAnswered(c, d)
    PROVE  GroupsKnown'
<1>1. GroupsTyped /\ DialogsKnown /\ GroupCallsKnown /\ IsAll(all) /\ IsStack(stack)
    BY DEF GroupsKnown, DialogsKnown
<1>2. /\ UNCHANGED <<groupOf, groupsStored, groups, harmed, groupsConfirmBusy, gwhy>> /\ CausesStay
      /\ UNCHANGED <<openedFor, groupsDraft, confirming, groupForAction, groupsSelected>>
      /\ gcalls' = gcalls \ {c} /\ (stack' = GroupsP!Closed(d) \/ stack' = stack)
    BY DEF GroupsP!dialogAnswered, GroupsP!answerKeeps, GroupsP!groupTable, GroupsP!ghosts, CausesStay
<1>3. GroupsP!Invalidate \/ UNCHANGED <<groupsReq, all>>
    BY DEF GroupsP!dialogAnswered, GroupsP!Invalidated
<1>4. groupsReq' = GroupsP!Asked \/ UNCHANGED groupsReq
    BY <1>3 DEF GroupsP!Invalidate
<1>5. IsAll(all)' /\ all'.data = all.data
    BY <1>1, <1>3, AllKept
<1>6. GroupsTyped'
    BY <1>1, <1>2, <1>4, ServerStays
<1>7. GroupCallsKnown'
    BY <1>1, <1>2, CallsEnd
<1>8. DialogsKnown'
    <2>1. IsStack(stack') /\ \A e : /\ GroupsP!IsOpen(e)' => GroupsP!IsOpen(e)
                                    /\ e # d => (GroupsP!IsOpen(e)' <=> GroupsP!IsOpen(e))
        BY <1>1, <1>2, DialogClosed DEF GroupsP!IsOpen
    <2>2. GroupsP!IsOpen("confirm")' <=> confirming' # GroupsP!None
        BY <1>1, <1>2, <2>1 DEF DialogsKnown
    <2> QED BY <1>1, <1>2, <1>5, <2>1, <2>2, DialogsClose
<1> QED
    BY <1>6, <1>7, <1>8 DEF GroupsKnown

LEMMA ConfirmedAnswered ==
    ASSUME GroupsKnown, NEW c \in gcalls, c.kind \in Confirmed, GroupsP!confirmedAnswered(c)
    PROVE  GroupsKnown'
<1>1. GroupsTyped /\ DialogsKnown /\ GroupCallsKnown /\ IsAll(all) /\ IsStack(stack)
    BY DEF GroupsKnown, DialogsKnown
<1>2. /\ UNCHANGED <<groupOf, groupsStored, groups, harmed, gwhy>> /\ CausesStay
      /\ UNCHANGED <<openedFor, groupsDraft, groupForAction, groupsSelected>>
      /\ gcalls' = gcalls \ {c} /\ stack' = GroupsP!Closed("confirm") /\ confirming' = GroupsP!None
    BY DEF GroupsP!confirmedAnswered, GroupsP!answerKeeps, GroupsP!groupTable, GroupsP!ghosts, CausesStay
<1>3. GroupsP!Invalidate \/ UNCHANGED <<groupsReq, all>>
    BY DEF GroupsP!confirmedAnswered, GroupsP!Invalidated
<1>4. groupsReq' = GroupsP!Asked \/ UNCHANGED groupsReq
    BY <1>3 DEF GroupsP!Invalidate
<1>5. IsAll(all)' /\ all'.data = all.data
    BY <1>1, <1>3, AllKept
<1>6. GroupsTyped'
    BY <1>1, <1>2, <1>4, ServerStays
<1>7. GroupCallsKnown'
    <2>1. \A x \in gcalls' : x.kind \notin Confirmed
        BY <1>1, <1>2 DEF GroupCallsKnown
    <2> QED BY <1>1, <1>2, <2>1, CallsEnd
<1>8. DialogsKnown'
    <2>1. IsStack(stack') /\ \A e : GroupsP!IsOpen(e)' <=> GroupsP!IsOpen(e) /\ e # "confirm"
        BY <1>1, <1>2, DialogClosed DEF GroupsP!IsOpen
    <2> QED BY <1>1, <1>2, <1>5, <2>1, DialogsClose
<1> QED
    BY <1>6, <1>7, <1>8 DEF GroupsKnown

\* The clients of a group arrive and are acted on, or shown.
LEMMA ConfirmedRead ==
    ASSUME GroupsKnown, NEW c \in gcalls, c.kind \in {"deleteClients", "reset"}, GroupsP!confirmedRead(c)
    PROVE  GroupsKnown'
<1>1. GroupsTyped /\ DialogsKnown /\ GroupCallsKnown /\ IsGroupCall(c) /\ c.kind \in Confirmed
    BY DEF GroupsKnown, GroupCallsKnown, Confirmed
<1>2. CASE c.emails = {}
    BY <1>1, <1>2, ConfirmedAnswered DEF GroupsP!confirmedRead
<1>3. CASE c.emails # {}
    <2> DEFINE k == IF c.kind = "reset" THEN "bulkReset" ELSE "bulkDelete"
               a == "asked"
               d == [c EXCEPT !.kind = k, !.ans = a]
    <2>1. /\ UNCHANGED <<groupOf, groupsStored, groups, groupsReq, harmed, gwhy, all, groupsConfirmBusy>>
          /\ UNCHANGED <<stack, openedFor, groupsDraft, confirming, groupForAction, groupsSelected>> /\ CausesStay
          /\ gcalls' = (gcalls \ {c}) \cup {d}
        BY <1>3 DEF GroupsP!confirmedRead, GroupsP!answerKeeps, GroupsP!groupTable, GroupsP!ghosts, GroupsP!dialogs, CausesStay
    <2>2. k \in GroupKinds /\ k # "remove" /\ k # "add" /\ k \notin {"create", "rename"}
        BY DEF GroupKinds, Confirmed
    <2>3. a \in {"asked", "ok", "refused", "read"}
        OBVIOUS
    <2> HIDE DEF k, a
    <2>4. d = [kind |-> k, g |-> c.g, emails |-> c.emails, to |-> c.to, opened |-> c.opened, behind |-> c.behind, ans |-> a]
        <3>1. IsCallRecord(c)
            BY <1>1 DEF IsGroupCall, IsCallRecord
        <3> QED BY <3>1, KindExcept
    <2> HIDE DEF d
    <2>5. /\ d.kind = k /\ d.g = c.g /\ d.emails = c.emails /\ d.to = c.to /\ d.opened = c.opened /\ d.behind = c.behind
          /\ d.ans = a
          /\ d = [kind |-> d.kind, g |-> d.g, emails |-> d.emails, to |-> d.to, opened |-> d.opened, behind |-> d.behind,
                  ans |-> d.ans]
        BY <2>4
    <2>6. IsGroupCall(d)
        BY <1>1, <2>2, <2>3, <2>5 DEF IsGroupCall
    <2>7. Follows(c, d)
        BY <1>1, <2>2, <2>5, <2>6 DEF Follows
    <2>8. GroupsTyped'
        BY <1>1, <2>1, ServerStays
    <2>9. DialogsKnown'
        <3>1. IsAll(all)' /\ all'.data = all.data
            BY <1>1, <2>1 DEF DialogsKnown, IsAll
        <3> QED BY <1>1, <2>1, <3>1, DialogsStay
    <2>10. GroupCallsKnown'
        <3> DEFINE over == FALSE
        <3>1. over \in BOOLEAN /\ gcalls' = (IF over THEN GroupsP!Overtaken(gcalls \ {c}) ELSE gcalls \ {c}) \cup {d}
            BY <2>1
        <3>2. GroupsP!RemovalHasCause'
            BY <1>1, <2>1, CauseStays DEF GroupCallsKnown
        <3> HIDE DEF over
        <3> QED BY <1>1, <2>1, <2>7, <3>1, <3>2, CallsServed
    <2> QED BY <2>8, <2>9, <2>10 DEF GroupsKnown
<1> QED
    BY <1>2, <1>3

LEMMA EmailsArrive ==
    ASSUME GroupsKnown, NEW c \in gcalls, c.kind \in {"links", "adjust"}, NEW old \in BOOLEAN, GroupsP!emailsArrive(c, old)
    PROVE  GroupsKnown'
<1>1. GroupsTyped /\ DialogsKnown /\ GroupCallsKnown /\ IsGroupCall(c) /\ IsAll(all) /\ IsStack(stack)
    BY DEF GroupsKnown, GroupCallsKnown, DialogsKnown
<1>2. /\ UNCHANGED <<groupOf, groupsStored, groups, groupsReq, harmed, groupsConfirmBusy, groupsDraft, confirming>>
      /\ UNCHANGED groupsSelected /\ gcalls' = gcalls \ {c}
    BY DEF GroupsP!emailsArrive, GroupsP!answerKeeps, GroupsP!groupTable, GroupsP!ghosts
<1>3. CausesStay
    BY DEF GroupsP!emailsArrive, CausesStay
<1>4. GroupsTyped'
    BY <1>1, <1>2, ServerStays
<1>5. GroupCallsKnown'
    BY <1>1, <1>2, <1>3, CallsEnd
<1>6. DialogsKnown'
    <2>1. CASE c.emails = {}
        <3>1. UNCHANGED <<all, stack, openedFor, groupForAction>>
            BY <2>1 DEF GroupsP!emailsArrive
        <3>2. IsAll(all)' /\ all'.data = all.data
            BY <1>1, <3>1 DEF IsAll
        <3> QED BY <1>1, <1>2, <1>3, <3>1, <3>2, DialogsStay
    <2>2. CASE c.emails # {}
        <3> DEFINE k == c.kind
                   g == c.g
        <3>1. /\ groupForAction' = g /\ openedFor' = [openedFor EXCEPT ![k] = g] /\ stack' = GroupsP!Raised(k)
              /\ GroupsP!Enable(GroupsP!Raised(k), old)
            BY <2>2 DEF GroupsP!emailsArrive
        <3>2. "swapped" \notin gwhy' => \A d \in GroupsP!OnClients : GroupsP!IsOpen(d) => openedFor[d] = g
            BY <2>2 DEF GroupsP!emailsArrive
        <3>3. k \in GroupsP!OnClients /\ k \in Dialogs /\ k # "confirm" /\ k # "remove" /\ g \in GroupName
            BY <1>1 DEF GroupsP!OnClients, Dialogs, IsGroupCall
        <3>4. "remove" \in GroupsP!OnClients
            BY DEF GroupsP!OnClients, GroupsP!Pickers
        <3> HIDE DEF k, g
        <3>5. IsAll(all)' /\ all'.data = all.data
            BY <1>1, <3>1, AllKept
        <3>6. IsStack(stack') /\ \A e : GroupsP!IsOpen(e)' <=> GroupsP!IsOpen(e) \/ e = k
            BY <1>1, <3>1, <3>3, DialogRaised DEF GroupsP!IsOpen
        <3>7. openedFor' \in [GroupsP!OnClients -> GroupName] /\ groupForAction' \in GroupName
              /\ openedFor'[k] = g /\ \A d \in GroupsP!OnClients : d # k => openedFor'[d] = openedFor[d]
            BY <1>1, <3>1, <3>3 DEF DialogsKnown
        <3>8. \A d \in GroupsP!OnClients : GroupsP!IsOpen(d)' /\ openedFor'[d] # groupForAction' => "swapped" \in gwhy'
            BY <3>1, <3>2, <3>6, <3>7
        <3>9. (GroupsP!IsOpen("remove")' /\ gwhy' \cap {"kept", "swapped"} = {}) =>
                  groupsSelected'["remove"] \subseteq GroupsP!Offered("remove", all.data)'
            <4> SUFFICES ASSUME GroupsP!IsOpen("remove")', gwhy' \cap {"kept", "swapped"} = {}
                         PROVE  groupsSelected'["remove"] \subseteq GroupsP!Offered("remove", all.data)'
                OBVIOUS
            <4>1. GroupsP!IsOpen("remove") /\ gwhy \cap {"kept", "swapped"} = {} /\ "swapped" \notin gwhy'
                  /\ "swapped" \notin gwhy
                BY <1>3, <3>3, <3>6 DEF CausesStay
            <4>2. openedFor["remove"] = g /\ openedFor["remove"] = groupForAction
                BY <1>1, <3>2, <3>4, <4>1 DEF DialogsKnown
            <4>3. groupForAction' = groupForAction
                BY <3>1, <4>2
            <4>4. GroupsP!Offered("remove", all.data)' = GroupsP!Offered("remove", all.data)
                BY <3>5, <4>3 DEF GroupsP!Offered
            <4> QED BY <1>1, <1>2, <4>1, <4>4 DEF DialogsKnown
        <3>10. GroupsP!IsOpen("confirm")' <=> GroupsP!IsOpen("confirm")
            BY <3>3, <3>6
        <3> QED BY <1>1, <1>2, <3>5, <3>6, <3>7, <3>8, <3>9, <3>10 DEF DialogsKnown
    <2> QED BY <2>1, <2>2
<1> QED
    BY <1>4, <1>5, <1>6 DEF GroupsKnown

LEMMA AnswersKnown == ASSUME GroupsKnown, NEW c \in gcalls, GroupsP!answer(c) PROVE GroupsKnown'
<1>1. IsGroupCall(c)
    BY DEF GroupsKnown, GroupCallsKnown
<1>2. CASE c.kind \in {"create", "rename", "add", "remove"}
    <2>1. GroupsP!dialogAnswered(c, c.kind) /\ c.kind # "confirm"
        BY <1>2 DEF GroupsP!answer
    <2> QED BY <2>1, DialogAnswered
<1>3. CASE c.kind = "bulkAdjust"
    <2>1. GroupsP!dialogAnswered(c, "adjust")
        BY <1>3 DEF GroupsP!answer
    <2> QED BY <2>1, DialogAnswered
<1>4. CASE c.kind \in {"links", "adjust"}
    <2>1. \E old \in BOOLEAN : GroupsP!emailsArrive(c, old)
        BY <1>4 DEF GroupsP!answer
    <2> QED BY <1>4, <2>1, EmailsArrive
<1>5. CASE c.kind \in {"deleteClients", "reset"}
    <2>1. GroupsP!confirmedRead(c)
        BY <1>5 DEF GroupsP!answer
    <2> QED BY <1>5, <2>1, ConfirmedRead
<1>6. CASE c.kind \in {"delete", "bulkDelete", "bulkReset"}
    <2>1. GroupsP!confirmedAnswered(c) /\ c.kind \in Confirmed
        BY <1>6 DEF GroupsP!answer, Confirmed
    <2> QED BY <2>1, ConfirmedAnswered
<1> QED
    BY <1>1, <1>2, <1>3, <1>4, <1>5, <1>6 DEF IsGroupCall, GroupKinds, Confirmed

LEMMA NextGroups == ASSUME GroupsKnown, [GroupsP!Next]_groupsVars PROVE GroupsKnown'
<1>1. CASE UNCHANGED groupsVars
    <2>1. GroupsTyped /\ DialogsKnown /\ GroupCallsKnown
        BY DEF GroupsKnown
    <2>2. CausesStay /\ IsAll(all)' /\ all'.data = all.data
        BY <1>1, <2>1 DEF CausesStay, groupsVars, DialogsKnown, IsAll
    <2>3. GroupsTyped'
        BY <1>1, <2>1, ServerStays DEF groupsVars
    <2>4. DialogsKnown'
        BY <1>1, <2>1, <2>2, DialogsStay DEF groupsVars
    <2>5. GroupCallsKnown'
        BY <1>1, <2>1, <2>2, CallsEnd DEF groupsVars
    <2> QED BY <2>3, <2>4, <2>5 DEF GroupsKnown
<1>2. CASE \/ GroupsP!groupsRead \/ GroupsP!clientsRead \/ GroupsP!Refresh
           \/ \E b \in BOOLEAN : GroupsP!fetchGroups(b) \/ GroupsP!noticeArrives(b)
    BY <1>2, ReadsKnown
<1>3. CASE GroupsP!clientsLand \/ GroupsP!confirmCreate \/ GroupsP!confirmRename \/ GroupsP!runConfirm
           \/ GroupsP!submitAdjust \/ GroupsP!closeTop
    BY <1>3, ClientsLand, NamesKnown, ConfirmsKnown, AdjustsKnown, ClosesKnown
<1>4. ASSUME NEW c \in {"c1", "c2"},
             GroupsP!otherDeletes(c) \/ (\E g \in GroupsP!Names \cup {""} : GroupsP!otherMoves(c, g))
      PROVE  GroupsKnown'
    BY <1>4, ElsewhereKnown DEF Emails, GroupName
<1>5. CASE GroupsP!openCreate
    <2>1. GroupsP!openName("create", "") /\ "" \in GroupName
        BY <1>5 DEF GroupsP!openCreate, GroupName
    <2> QED BY <2>1, OpensKnown
<1>6. ASSUME NEW g \in GroupsP!Names,
             \/ GroupsP!openRename(g) \/ GroupsP!typeName(g) \/ GroupsP!onDelete(g) \/ GroupsP!onDeleteClients(g)
             \/ GroupsP!onResetTraffic(g)
      PROVE  GroupsKnown'
    <2>1. g \in GroupName
        BY DEF GroupName
    <2>2. CASE GroupsP!typeName(g)
        BY <2>1, <2>2, TypesKnown
    <2>3. CASE GroupsP!openRename(g)
        BY <2>1, <2>3, OpensKnown DEF GroupsP!openRename
    <2>4. CASE GroupsP!onDelete(g)
        BY <2>1, <2>4, OpensKnown DEF GroupsP!onDelete
    <2>5. CASE GroupsP!onDeleteClients(g)
        BY <2>1, <2>5, OpensKnown DEF GroupsP!onDeleteClients
    <2>6. CASE GroupsP!onResetTraffic(g)
        BY <2>1, <2>6, OpensKnown DEF GroupsP!onResetTraffic
    <2> QED BY <1>6, <2>2, <2>3, <2>4, <2>5, <2>6
<1>7. ASSUME NEW g \in GroupsP!Names, GroupsP!withEmails("links", g) \/ GroupsP!withEmails("adjust", g)
      PROVE  GroupsKnown'
    <2>1. g \in GroupName
        BY DEF GroupName
    <2> QED BY <1>7, <2>1, AsksKnown
<1>8. ASSUME NEW g \in GroupsP!Names, NEW old \in BOOLEAN,
             GroupsP!openAddClientsFor(g, old) \/ GroupsP!openRemoveClientsFor(g, old)
      PROVE  GroupsKnown'
    <2>1. g \in GroupName /\ "add" \in GroupsP!Pickers /\ "remove" \in GroupsP!Pickers
        BY DEF GroupName, GroupsP!Pickers
    <2>2. GroupsP!openPicker("add", g, old) \/ GroupsP!openPicker("remove", g, old)
        BY <1>8 DEF GroupsP!openAddClientsFor, GroupsP!openRemoveClientsFor
    <2> QED BY <2>1, <2>2, OpensKnown
<1>9. ASSUME NEW d \in GroupsP!Pickers,
             GroupsP!submitPicker(d) \/ (\E c : GroupsP!toggle(d, c)) \/ (\E F : GroupsP!toggleAll(d, F))
      PROVE  GroupsKnown'
    BY <1>9, SubmitsKnown, PicksKnown
<1>10. ASSUME NEW c \in gcalls, GroupsP!serve(c) \/ GroupsP!refuse(c) \/ GroupsP!answerLost(c) \/ GroupsP!answer(c)
       PROVE  GroupsKnown'
    BY <1>10, ServesKnown, RefusesKnown, AnswersKnown
<1>11. CASE GroupsP!Next
    BY <1>2, <1>3, <1>4, <1>5, <1>6, <1>7, <1>8, <1>9, <1>10, <1>11 DEF GroupsP!Next
<1> QED
    BY <1>1, <1>11

LEMMA GroupsSay ==
    ASSUME GroupsKnown
    PROVE  GroupsP!ActsOnOpened /\ GroupsP!RemovalHasCause /\ GroupsP!OneConfirmedGroup
<1>1. GroupsP!ActsOnOpened /\ GroupsP!RemovalHasCause
    BY DEF GroupsKnown, GroupCallsKnown
<1> DEFINE S == {c \in gcalls : c.kind \in {"delete", "deleteClients", "bulkDelete", "reset", "bulkReset"}}
<1>2. \A c, d \in S : c = d
    BY DEF GroupsKnown, GroupCallsKnown, Confirmed
<1> HIDE DEF S
<1>3. CASE S = {}
    <2>1. Cardinality(S) = 0
        BY <1>3, FS_EmptySet
    <2>2. GroupsP!Cardinality(S) = Cardinality(S)
        BY DEF GroupsP!Cardinality, Cardinality
    <2> QED BY <1>1, <2>1, <2>2 DEF GroupsP!OneConfirmedGroup, S
<1>4. CASE S # {}
    <2>1. PICK c \in S : S = {c}
        BY <1>2, <1>4
    <2>2. Cardinality(S) = 1
        BY <2>1, FS_Singleton
    <2>3. GroupsP!Cardinality(S) = Cardinality(S)
        BY DEF GroupsP!Cardinality, Cardinality
    <2> QED BY <1>1, <2>2, <2>3 DEF GroupsP!OneConfirmedGroup, S
<1> QED
    BY <1>3, <1>4

-----------------------------------------------------------------------------
(* The inbound dialog *)

CardRows == [k : Nat, own : 0..3, child : {"none", "c1", "c2"}, vals : {"", "typed", "c1", "c2"}]
OwnRows(id) == {r \in CardRows : r.own \in {0, id}}
TrueRows == {r \in CardRows : r.vals \in {"", "typed", r.child}}
CertRows == [c : Int, by : Int]
HasOwn(s, id) == \E i \in 1..Len(s) : s[i].own = id /\ s[i].child # "none"
KeysApart(s) == \A i, j \in 1..Len(s) : i # j => s[i].k # s[j].k

LEMMA InDialogOnly ==
    ASSUME NEW S, NEW s \in Seq(S), NEW T
    PROVE  Keeps(InDialog!Only(s, T), s, S, T, Len(s))
<1>1. Len(s) \in Nat
    OBVIOUS
<1>2. PICK k : Filters(k, s, T, Len(s)) /\ InDialog!Only(s, T) = k[Len(s)]
    <2>1. \E k : Filters(k, s, T, Len(s))
        BY <1>1, FilterExists
    <2> QED BY <2>1 DEF Filters, InDialog!Only
<1> QED BY <1>2, FilteredSays

LEMMA InSequence ==
    ASSUME NEW S, NEW s \in Seq(S), NEW R
    PROVE  /\ s \in Seq(R) <=> \A i \in 1..Len(s) : s[i] \in R
           /\ DOMAIN s = 1..Len(s) /\ Len(s) \in Nat
           /\ InDialog!ToSet(s) = {s[i] : i \in 1..Len(s)}
<1>1. Len(s) \in Nat /\ DOMAIN s = 1..Len(s) /\ s = [i \in 1..Len(s) |-> s[i]]
    OBVIOUS
<1>2. (\A i \in 1..Len(s) : s[i] \in R) => s \in Seq(R)
    BY <1>1
<1>3. s \in Seq(R) => \A i \in 1..Len(s) : s[i] \in R
    BY <1>1
<1> QED BY <1>1, <1>2, <1>3 DEF InDialog!ToSet

LEMMA RangeIn == ASSUME NEW R, NEW s \in Seq(R) PROVE \A r \in InDialog!ToSet(s) : r \in R
    BY DEF InDialog!ToSet

LEMMA MappedSays ==
    ASSUME NEW n \in Nat, NEW t, DOMAIN t = 1..n, t = [i \in DOMAIN t |-> t[i]], NEW R, \A i \in 1..n : t[i] \in R
    PROVE  t \in Seq(R) /\ Len(t) = n
    OBVIOUS

\* A sequence without its element k.
Dropped(s, k, n) == SubSeq(s, 1, k - 1) \o SubSeq(s, k + 1, n)
DropsOne(t, s, k, n) == Len(t) = n - 1 /\ \A i \in 1..(n - 1) : t[i] = IF i < k THEN s[i] ELSE s[i + 1]
Within(k, n) == k \in 1..n
LEMMA DroppedSays ==
    ASSUME NEW S, NEW s, s \in Seq(S), NEW n, n = Len(s), NEW k, Within(k, n), NEW t, t = Dropped(s, k, n)
    PROVE  t \in Seq(S) /\ DropsOne(t, s, k, n)
<1> DEFINE a == SubSeq(s, 1, k - 1)
           b == SubSeq(s, k + 1, n)
<1>1. n \in Nat /\ k \in 1..n
    BY DEF Within
<1>2. a \in Seq(S) /\ Len(a) = k - 1 /\ \A i \in 1..(k - 1) : a[i] = s[i]
    BY <1>1
<1>3. b \in Seq(S) /\ Len(b) = n - k /\ \A i \in 1..(n - k) : b[i] = s[k + i]
    BY <1>1
<1>4. t = a \o b
    BY DEF Dropped
<1> HIDE DEF a, b
<1>5. /\ a \o b \in Seq(S) /\ Len(a \o b) = Len(a) + Len(b)
      /\ \A i \in 1..Len(a) : (a \o b)[i] = a[i]
      /\ \A i \in 1..Len(a \o b) : i \notin 1..Len(a) => i - Len(a) \in 1..Len(b) /\ (a \o b)[i] = b[i - Len(a)]
    <2> HIDE DEF a, b
    <2>1. a \in Seq(S) /\ b \in Seq(S)
        BY <1>2, <1>3
    <2> QED BY <2>1, JoinSays
<1>0. (k - 1) + (n - k) = n - 1
    BY <1>1
<1>6. t \in Seq(S) /\ Len(t) = n - 1
    BY <1>0, <1>2, <1>3, <1>4, <1>5
<1>7. ASSUME NEW i \in 1..(n - 1) PROVE t[i] = IF i < k THEN s[i] ELSE s[i + 1]
    <2>1. CASE i < k
        <3>1. i \in 1..(k - 1)
            BY <1>1, <2>1
        <3> QED BY <1>2, <1>4, <1>5, <2>1, <3>1
    <2>2. CASE ~(i < k)
        <3>1. i \notin 1..(k - 1) /\ i - (k - 1) \in 1..(n - k) /\ k + (i - (k - 1)) = i + 1
            BY <1>1, <2>2
        <3>2. t[i] = b[i - (k - 1)]
            BY <1>2, <1>4, <1>5, <1>6, <3>1
        <3> QED BY <1>3, <2>2, <3>1, <3>2
    <2> QED BY <2>1, <2>2
<1> QED BY <1>6, <1>7 DEF DropsOne

\* The records have their fields; a call carries the number of an opening.
IsDlg(d) ==
    /\ d = [open |-> d.open, id |-> d.id, n |-> d.n, tag |-> d.tag, typed |-> d.typed, seeded |-> d.seeded]
    /\ d.id \in 0..3 /\ d.n \in Nat
IsDform(f) == f = [tag |-> f.tag, port |-> f.port, sec |-> f.sec, key |-> f.key]
IsInbound(r) ==
    /\ r = [tag |-> r.tag, port |-> r.port, sec |-> r.sec, key |-> r.key, fb |-> r.fb]
    /\ r.fb \in Seq(CardRows)
IsCall(c) ==
    /\ c = [kind |-> c.kind, n |-> c.n, id |-> c.id, i |-> c.i, row |-> c.row, form |-> c.form, fb |-> c.fb]
    /\ c.n \in Nat \ {0} /\ c.id \in 0..3 /\ c.row \in Int /\ c.fb \in Seq(CardRows)
IsStored(s) == s = [i \in 1..3 |-> s[i]] /\ \A i \in 1..3 : IsInbound(s[i])
DialogTyped ==
    /\ IsStored(indialogStored) /\ IsDlg(indialogDlg) /\ IsDform(dform)
    /\ certs \in Seq(CertRows) /\ fallbacks \in Seq(CardRows) /\ rowKey \in Nat /\ dsteps \in Nat
    /\ dsaving \in BOOLEAN /\ (indialogDlg.open => indialogDlg.n # 0)
    /\ \A c \in dcalls : IsCall(c) /\ (c.kind = "load" \/ c.kind = "saveFb" => c.id # 0)

\* The saving flag and the call that holds it.
Holds(c) == c.kind \in InDialog!Kinds
FlagHeld ==
    /\ dsaving => \E c \in dcalls : Holds(c)
    /\ ~dsaving => \A c \in dcalls : ~Holds(c)
    /\ \A c, d \in dcalls : Holds(c) /\ Holds(d) => c = d

\* Rows have keys of their own, given out in order, and values of their child.
RowsTrue ==
    /\ KeysApart(fallbacks) /\ \A i \in 1..Len(fallbacks) : fallbacks[i].k <= rowKey
    /\ "repicked" \notin indialogExcuses =>
        /\ fallbacks \in Seq(TrueRows)
        /\ \A c \in dcalls : c.fb \in Seq(TrueRows)
        /\ \A i \in 1..3 : indialogStored[i].fb \in Seq(TrueRows)

\* While the dialog was not opened over a call, each call is of this opening, and so are the key and
\* the rows, or they are what the server has.
Master == IF indialogDlg.id = 0 THEN 3 ELSE indialogDlg.id
NewKey(k) == k = 0 \/ k = indialogDlg.n
CallsHere ==
    \A c \in dcalls :
        /\ c.n = indialogDlg.n /\ c.id = IF c.kind = "saveFb" THEN Master ELSE indialogDlg.id
        /\ c.kind = "save" => NewKey(dform.key) \/ dform.key = c.form.key
KeyHere == NewKey(dform.key) \/ (indialogDlg.id # 0 /\ dform.key = indialogStored[indialogDlg.id].key)
RowsHere == InDialog!Asking("load") \/ fallbacks \in Seq(OwnRows(indialogDlg.id))
\* A certificate call names a row that is there, and no row has another's paths.
CertsHere ==
    /\ \A c \in dcalls : c.kind = "cert" => c.i \in 1..Len(certs) /\ certs[c.i].c = c.row
    /\ \A i \in 1..Len(certs) : certs[i].by \in {-1, certs[i].c}

\* What is stored, or about to be, is its inbound's own, and the row it came with is there.
Kept(s, id) == id = 1 \/ id = 2 => HasOwn(s, id)
Sends(c) == c.kind = "save" \/ c.kind = "saveFb"
RowsKept ==
    /\ \A i \in 1..3 : indialogStored[i].fb \in Seq(OwnRows(i))
    /\ \A c \in dcalls : Sends(c) => c.fb \in Seq(OwnRows(indialogDlg.id))
    /\ {"removed", "failed"} \cap indialogExcuses = {} =>
        /\ \A i \in 1..3 : Kept(indialogStored[i].fb, i)
        /\ InDialog!Asking("load") \/ Kept(fallbacks, indialogDlg.id)
        /\ \A c \in dcalls : Sends(c) => Kept(c.fb, indialogDlg.id)

\* A Reality form has a key pair, or asks for one.
Keyed(f) == f.sec = "reality" => f.key # 0
KeysKept ==
    /\ \A i \in 1..3 : Keyed(indialogStored[i])
    /\ Keyed(dform) \/ InDialog!Asking("security")
    /\ \A c \in dcalls : c.kind = "save" => Keyed(c.form)

None(S) == S \cap indialogExcuses = {}
Here == CallsHere /\ KeyHere /\ RowsHere
DialogKnown ==
    /\ DialogTyped /\ FlagHeld /\ RowsTrue
    /\ None({"crossed"}) => Here
    /\ None({"crossed", "moved"}) => CertsHere
    /\ None({"crossed", "early"}) => RowsKept
    /\ None({"crossed", "moved", "bare", "cleared"}) => KeysKept

LEMMA SameCardD == \A S : InDialog!Cardinality(S) = Cardinality(S)
    BY DEF InDialog!Cardinality, Cardinality

LEMMA DialogSays ==
    ASSUME DialogKnown
    PROVE  /\ InDialog!OneCallAtATime /\ InDialog!AnswersLand /\ InDialog!FallbacksStay
           /\ InDialog!NoBareReality /\ InDialog!RowsAreDistinct
<1>1. InDialog!OneCallAtATime
    <2> DEFINE S == {c \in dcalls : c.kind \in InDialog!Kinds}
    <2>1. CASE dsaving
        <3>1. PICK c \in dcalls : Holds(c)
            BY <2>1 DEF DialogKnown, FlagHeld
        <3>2. S = {c}
            BY <3>1 DEF DialogKnown, FlagHeld, Holds
        <3> QED BY <2>1, <3>2, SameCardD, FS_Singleton DEF InDialog!OneCallAtATime
    <2>2. CASE ~dsaving
        <3>1. S = {}
            BY <2>2 DEF DialogKnown, FlagHeld, Holds
        <3> QED BY <2>2, <3>1, SameCardD, FS_EmptySet DEF InDialog!OneCallAtATime
    <2> QED BY <2>1, <2>2
<1>2. fallbacks \in Seq(CardRows) /\ certs \in Seq(CertRows) /\ \A i \in 1..3 : indialogStored[i].fb \in Seq(CardRows)
    BY DEF DialogKnown, DialogTyped, IsStored, IsInbound
<1>3. InDialog!AnswersLand
    <2> SUFFICES ASSUME "crossed" \notin indialogExcuses, indialogDlg.open
                 PROVE  /\ dform.key \in {0, indialogDlg.n}
                           \/ (indialogDlg.id # 0 /\ dform.key = indialogStored[indialogDlg.id].key)
                        /\ "moved" \notin indialogExcuses => \A r \in InDialog!ToSet(certs) : r.by \in {-1, r.c}
                        /\ InDialog!Asking("load") \/ \A r \in InDialog!ToSet(fallbacks) : r.own \in {0, indialogDlg.id}
        BY DEF InDialog!AnswersLand
    <2>1. Here
        BY DEF DialogKnown, None
    <2>2. "moved" \notin indialogExcuses => CertsHere
        BY DEF DialogKnown, None
    <2>3. "moved" \notin indialogExcuses => \A r \in InDialog!ToSet(certs) : r.by \in {-1, r.c}
        BY <1>2, <2>2, InSequence DEF CertsHere
    <2>4. InDialog!Asking("load") \/ \A r \in InDialog!ToSet(fallbacks) : r.own \in {0, indialogDlg.id}
        BY <1>2, <2>1, InSequence DEF Here, RowsHere, OwnRows
    <2> QED BY <2>1, <2>3, <2>4 DEF Here, KeyHere, NewKey
<1>4. InDialog!FallbacksStay
    <2> SUFFICES ASSUME {"crossed", "early"} \cap indialogExcuses = {}, NEW i \in 1..3
                 PROVE  /\ \A r \in InDialog!ToSet(indialogStored[i].fb) : r.own \in {0, i}
                        /\ i \in 1..2 /\ {"removed", "failed"} \cap indialogExcuses = {} =>
                              \E r \in InDialog!ToSet(indialogStored[i].fb) : r.own = i
        BY DEF InDialog!FallbacksStay, InDialog!Ids
    <2>1. RowsKept
        BY DEF DialogKnown, None
    <2>2. \A r \in InDialog!ToSet(indialogStored[i].fb) : r.own \in {0, i}
        <3>1. indialogStored[i].fb \in Seq(OwnRows(i))
            BY <2>1 DEF RowsKept
        <3>2. \A r \in OwnRows(i) : r.own \in {0, i}
            BY DEF OwnRows
        <3> QED BY <3>1, <3>2, RangeIn
    <2>3. ASSUME i \in 1..2, {"removed", "failed"} \cap indialogExcuses = {}
          PROVE  \E r \in InDialog!ToSet(indialogStored[i].fb) : r.own = i
        <3>1. HasOwn(indialogStored[i].fb, i)
            BY <2>1, <2>3 DEF RowsKept, Kept
        <3> QED BY <1>2, <3>1, InSequence DEF HasOwn
    <2> QED BY <2>2, <2>3
<1>5. InDialog!NoBareReality
    BY DEF InDialog!NoBareReality, InDialog!Ids, DialogKnown, None, KeysKept, Keyed
<1>6. InDialog!RowsAreDistinct
    <2>1. \A i, j \in DOMAIN fallbacks : i # j => fallbacks[i].k # fallbacks[j].k
        BY <1>2, InSequence DEF DialogKnown, RowsTrue, KeysApart
    <2>2. ASSUME "repicked" \notin indialogExcuses
          PROVE  \A r \in InDialog!ToSet(fallbacks) : r.vals \in {"", "typed", r.child}
        <3>1. fallbacks \in Seq(TrueRows)
            BY <2>2 DEF DialogKnown, RowsTrue
        <3>2. \A r \in TrueRows : r.vals \in {"", "typed", r.child}
            BY DEF TrueRows
        <3> QED BY <3>1, <3>2, RangeIn
    <2> QED BY <2>1, <2>2 DEF InDialog!RowsAreDistinct
<1> QED BY <1>1, <1>3, <1>4, <1>5, <1>6

LEMMA InitDialog == ASSUME InDialog!Init PROVE DialogKnown
<1> DEFINE A(i) == <<[k |-> 0, own |-> i, child |-> "c2", vals |-> "typed"]>>
<1>1. /\ indialogStored = <<[tag |-> <<"auto", 1>>, port |-> 1, sec |-> "tls", key |-> 0, fb |-> A(1)],
                  [tag |-> <<"custom", 0>>, port |-> 2, sec |-> "reality", key |-> 99, fb |-> A(2)],
                  [tag |-> <<"none", 0>>, port |-> 0, sec |-> "none", key |-> 0, fb |-> <<>>]>>
    BY DEF InDialog!Init, InDialog!Own, InDialog!Absent
<1>2. /\ indialogDlg = [open |-> FALSE, id |-> 0, n |-> 0, tag |-> <<"none", 0>>, typed |-> FALSE, seeded |-> FALSE]
      /\ dform = [tag |-> <<"none", 0>>, port |-> 3, sec |-> "none", key |-> 0] /\ certs = <<>>
      /\ fallbacks = <<>> /\ rowKey = 0 /\ dsaving = FALSE /\ dcalls = {} /\ dsteps = 0
    BY DEF InDialog!Init
<1>3. ASSUME NEW i \in 1..2 
      PROVE  /\ A(i) \in Seq(CardRows) /\ A(i) \in Seq(TrueRows) /\ A(i) \in Seq(OwnRows(i)) /\ HasOwn(A(i), i)
    <2> DEFINE r == [k |-> 0, own |-> i, child |-> "c2", vals |-> "typed"]
    <2>0. r \in CardRows /\ r.own = i /\ r.child # "none" /\ r.vals = "typed"
        BY DEF CardRows
    <2>1. r \in TrueRows /\ r \in OwnRows(i)
        BY <2>0 DEF TrueRows, OwnRows
    <2> HIDE DEF r
    <2>2. Len(<<r>>) = 1 /\ <<r>>[1] = r
        OBVIOUS
    <2>3. HasOwn(<<r>>, i)
        BY <2>0, <2>2 DEF HasOwn
    <2>4. <<r>> \in Seq(CardRows) /\ <<r>> \in Seq(TrueRows) /\ <<r>> \in Seq(OwnRows(i))
        BY <2>0, <2>1
    <2> QED BY <2>3, <2>4 DEF r
<1> HIDE DEF A
<1>4. /\ indialogStored = [i \in 1..3 |-> indialogStored[i]]
      /\ indialogStored[1].fb = A(1) /\ indialogStored[2].fb = A(2) /\ indialogStored[3].fb = <<>>
      /\ \A i \in 1..3 : /\ Keyed(indialogStored[i])
                         /\ indialogStored[i] = [tag |-> indialogStored[i].tag, port |-> indialogStored[i].port,
                                                 sec |-> indialogStored[i].sec, key |-> indialogStored[i].key,
                                                 fb |-> indialogStored[i].fb]
    <2>1. indialogStored = [i \in 1..3 |-> indialogStored[i]]
        BY <1>1
    <2>2. /\ indialogStored[1].fb = A(1) /\ indialogStored[2].fb = A(2) /\ indialogStored[3].fb = <<>>
        BY <1>1
    <2>3. \A i \in 1..3 : Keyed(indialogStored[i])
        BY <1>1 DEF Keyed
    <2>4. \A i \in 1..3 : indialogStored[i] = [tag |-> indialogStored[i].tag, port |-> indialogStored[i].port,
                                                 sec |-> indialogStored[i].sec, key |-> indialogStored[i].key,
                                                 fb |-> indialogStored[i].fb]
        BY <1>1
    <2> QED BY <2>1, <2>2, <2>3, <2>4
<1>5. ASSUME NEW i \in 1..3
      PROVE  /\ indialogStored[i].fb \in Seq(CardRows) /\ indialogStored[i].fb \in Seq(TrueRows)
             /\ indialogStored[i].fb \in Seq(OwnRows(i)) /\ Kept(indialogStored[i].fb, i)
    <2>1. CASE i \in 1..2
        <3>1. indialogStored[i].fb = A(i)
            BY <1>4, <2>1
        <3> QED BY <1>3, <2>1, <3>1 DEF Kept
    <2>2. CASE i = 3
        <3>1. indialogStored[i].fb = <<>>
            BY <1>4, <2>2
        <3>2. <<>> \in Seq(CardRows) /\ <<>> \in Seq(TrueRows) /\ <<>> \in Seq(OwnRows(i))
            OBVIOUS
        <3> QED BY <2>2, <3>1, <3>2 DEF Kept
    <2> QED BY <2>1, <2>2
<1>6. DialogTyped
    <2>1. IsStored(indialogStored)
        BY <1>4, <1>5 DEF IsStored, IsInbound
    <2>2. IsDlg(indialogDlg) /\ IsDform(dform) /\ (indialogDlg.open => indialogDlg.n # 0)
        BY <1>2 DEF IsDlg, IsDform
    <2>3. certs \in Seq(CertRows) /\ fallbacks \in Seq(CardRows) 
        BY <1>2
    <2>5. rowKey \in Nat /\ dsteps \in Nat /\ dsaving \in BOOLEAN
        BY <1>2
    <2>4. \A c \in dcalls : FALSE
        BY <1>2
    <2> QED BY <2>1, <2>2, <2>3, <2>4, <2>5 DEF DialogTyped
<1>7. FlagHeld /\ RowsTrue
    BY <1>2, <1>5 DEF FlagHeld, RowsTrue, KeysApart
<1>8. Here /\ CertsHere
    BY <1>2 DEF Here, CallsHere, KeyHere, RowsHere, NewKey, CertsHere
<1>9. RowsKept
    BY <1>2, <1>5 DEF RowsKept, Kept
<1>10. KeysKept
    BY <1>2, <1>4 DEF KeysKept, Keyed
<1> QED BY <1>6, <1>7, <1>8, <1>9, <1>10 DEF DialogKnown

-----------------------------------------------------------------------------
(* The dialog's acts *)

LEMMA NoneBefore == ASSUME indialogExcuses \subseteq indialogExcuses', NEW S, None(S)' PROVE None(S)
    BY DEF None

\* The form's name and port, and closing.
LEMMA QuietActs ==
    ASSUME DialogKnown, InDialog!Close \/ InDialog!TypeTag(<<"custom", 0>>) \/ \E p \in 1..3 : InDialog!SetPort(p)
    PROVE  DialogKnown'
<1>1. /\ UNCHANGED <<indialogStored, certs, fallbacks, rowKey, dsaving, dcalls, indialogExcuses>>
      /\ dsteps' \in {dsteps, dsteps + 1}
    BY DEF InDialog!Close, InDialog!TypeTag, InDialog!SetPort, InDialog!Step, InDialog!formVars, InDialog!fallbackVars
<1>2. IsDlg(indialogDlg)' /\ indialogDlg'.id = indialogDlg.id /\ indialogDlg'.n = indialogDlg.n
      /\ (indialogDlg'.open => indialogDlg.open)
    <2>0. IsDlg(indialogDlg)
        BY DEF DialogKnown, DialogTyped
    <2>1. CASE InDialog!Close
        <3>1. indialogDlg' = [indialogDlg EXCEPT !.open = FALSE]
            BY <2>1 DEF InDialog!Close
        <3> QED BY <2>0, <3>1 DEF IsDlg
    <2>2. CASE InDialog!TypeTag(<<"custom", 0>>)
        <3>1. indialogDlg' = [indialogDlg EXCEPT !.typed = TRUE]
            BY <2>2 DEF InDialog!TypeTag
        <3> QED BY <2>0, <3>1 DEF IsDlg
    <2>3. ASSUME NEW p, InDialog!SetPort(p)
          PROVE  indialogDlg' = indialogDlg
        BY <2>3 DEF InDialog!SetPort
    <2> QED BY <2>0, <2>1, <2>2, <2>3 DEF IsDlg
<1>3. IsDform(dform)' /\ dform'.sec = dform.sec /\ dform'.key = dform.key
    <2>0. IsDform(dform)
        BY DEF DialogKnown, DialogTyped
    <2>1. CASE dform' = dform
        BY <2>0, <2>1
    <2>2. ASSUME NEW t, dform' = [dform EXCEPT !.tag = t] PROVE IsDform(dform)' /\ dform'.sec = dform.sec /\ dform'.key = dform.key
        BY <2>0, <2>2 DEF IsDform
    <2>3. ASSUME NEW p, NEW t, dform' = [dform EXCEPT !.port = p, !.tag = t]
          PROVE  IsDform(dform)' /\ dform'.sec = dform.sec /\ dform'.key = dform.key
        BY <2>0, <2>3 DEF IsDform
    <2>4. \/ dform' = dform \/ \E t : dform' = [dform EXCEPT !.tag = t]
          \/ \E p, t : dform' = [dform EXCEPT !.port = p, !.tag = t]
        BY DEF InDialog!Close, InDialog!TypeTag, InDialog!SetPort, InDialog!formVars
    <2> QED BY <2>1, <2>2, <2>3, <2>4
<1>4. DialogTyped'
    BY <1>1, <1>2, <1>3 DEF DialogKnown, DialogTyped
<1>5. FlagHeld' /\ RowsTrue'
    BY <1>1 DEF DialogKnown, FlagHeld, RowsTrue
<1>6. Here => Here'
    BY <1>1, <1>2, <1>3 DEF Here, CallsHere, KeyHere, RowsHere, NewKey, Master, InDialog!Asking
<1>7. CertsHere => CertsHere'
    BY <1>1 DEF CertsHere
<1>8. RowsKept => RowsKept'
    BY <1>1, <1>2 DEF RowsKept, InDialog!Asking
<1>9. KeysKept => KeysKept'
    BY <1>1, <1>3 DEF KeysKept, Keyed, InDialog!Asking
<1> QED BY <1>1, <1>4, <1>5, <1>6, <1>7, <1>8, <1>9 DEF DialogKnown, None

LEMMA RemovedCert ==
    ASSUME certs \in Seq(CertRows), NEW k, InDialog!RemoveCert(k)
    PROVE  /\ k \in 1..Len(certs) /\ certs' \in Seq(CertRows) /\ Len(certs') = Len(certs) - 1
           /\ \A i \in 1..(Len(certs) - 1) : certs'[i] = IF i < k THEN certs[i] ELSE certs[i + 1]
<1>1. k \in 1..Len(certs) /\ Within(k, Len(certs))
    BY DEF InDialog!RemoveCert, Within
<1>2. certs' = Dropped(certs, k, Len(certs))
    BY DEF InDialog!RemoveCert, InDialog!EditCerts, InDialog!RemoveAt, Dropped
<1>3. certs' \in Seq(CertRows) /\ DropsOne(certs', certs, k, Len(certs))
    BY <1>1, <1>2, DroppedSays
<1> QED BY <1>1, <1>3 DEF DropsOne

LEMMA CertActs ==
    ASSUME DialogKnown, InDialog!AddCert \/ \E i \in 1..2 : InDialog!RemoveCert(i) PROVE DialogKnown'
<1>1. /\ UNCHANGED <<indialogStored, indialogDlg, dform, fallbacks, rowKey, dsaving, dcalls>>
      /\ indialogExcuses \subseteq indialogExcuses' /\ indialogExcuses' \subseteq indialogExcuses \cup {"moved"}
      /\ dsteps' = dsteps + 1
    BY DEF InDialog!AddCert, InDialog!RemoveCert, InDialog!EditCerts, InDialog!Step, InDialog!fallbackVars, InDialog!Excuse
<1>2. certs \in Seq(CertRows) /\ dsteps \in Nat /\ Len(certs) \in Nat
    BY DEF DialogKnown, DialogTyped
<1>3. certs' \in Seq(CertRows) /\ (None({"moved"})' /\ CertsHere => CertsHere')
    <2>1. CASE InDialog!AddCert
        <3> DEFINE r == [c |-> dsteps', by |-> -1]
        <3>1. certs' = Append(certs, r) /\ r \in CertRows /\ r.by = -1
            BY <1>1, <1>2, <2>1 DEF InDialog!AddCert, InDialog!EditCerts, CertRows
        <3> HIDE DEF r
        <3>2. /\ certs' \in Seq(CertRows) /\ Len(certs') = Len(certs) + 1 /\ certs'[Len(certs) + 1] = r
              /\ \A i \in 1..Len(certs) : certs'[i] = certs[i]
            BY <1>2, <3>1
        <3>3. \A i \in 1..Len(certs') : i \in 1..Len(certs) \/ i = Len(certs) + 1
            BY <1>2, <3>2
        <3>4. \A i \in 1..Len(certs) : i \in 1..Len(certs')
            BY <1>2, <3>2
        <3> QED BY <1>1, <3>1, <3>2, <3>3, <3>4 DEF CertsHere
    <2>2. ASSUME NEW k, k \in 1..2, InDialog!RemoveCert(k) PROVE certs' \in Seq(CertRows) /\ (None({"moved"})' /\ CertsHere => CertsHere')
        <3> DEFINE n == Len(certs)
        <3>1. n = Len(certs) /\ n \in Nat
            BY <1>2
        <3> HIDE DEF n
        <3>3. /\ k \in 1..n /\ certs' \in Seq(CertRows) /\ Len(certs') = n - 1
              /\ \A i \in 1..(n - 1) : certs'[i] = IF i < k THEN certs[i] ELSE certs[i + 1]
            BY <1>2, <2>2, <3>1, RemovedCert
        <3>4. n \in Nat /\ \A i \in 1..(n - 1) : i \in 1..n /\ i + 1 \in 1..n
            BY <3>1
        <3>5. CASE InDialog!Asking("cert")
            <4>1. "moved" \in indialogExcuses'
                BY <2>2, <3>5 DEF InDialog!RemoveCert, InDialog!Excuse
            <4> QED BY <3>3, <4>1 DEF None
        <3>6. CASE ~InDialog!Asking("cert")
            <4>1. \A c \in dcalls : c.kind # "cert"
                BY <3>6 DEF InDialog!Asking
            <4>2. CertsHere => \A i \in 1..n : certs[i].by \in {-1, certs[i].c}
                BY <3>1 DEF CertsHere
            <4>3. CertsHere => \A i \in 1..Len(certs') : certs'[i].by \in {-1, certs'[i].c}
                BY <3>3, <3>4, <4>2
            <4> QED BY <1>1, <3>3, <4>1, <4>3 DEF CertsHere
        <3> QED BY <3>5, <3>6
    <2> QED BY <2>1, <2>2
<1>4. DialogTyped'
    BY <1>1, <1>2, <1>3 DEF DialogKnown, DialogTyped
<1>5. FlagHeld' /\ RowsTrue'
    BY <1>1 DEF DialogKnown, FlagHeld, RowsTrue
<1>6. Here => Here'
    BY <1>1 DEF Here, CallsHere, KeyHere, RowsHere, NewKey, Master, InDialog!Asking
<1>7. RowsKept => RowsKept'
    BY <1>1 DEF RowsKept, InDialog!Asking
<1>8. KeysKept => KeysKept'
    BY <1>1 DEF KeysKept, InDialog!Asking
<1> QED BY <1>1, <1>3, <1>4, <1>5, <1>6, <1>7, <1>8 DEF DialogKnown, None

LEMMA ClearActs == ASSUME DialogKnown, InDialog!clearRealityKeypair PROVE DialogKnown'
<1>1. /\ UNCHANGED <<indialogStored, indialogDlg, certs, fallbacks, rowKey, dsaving, dcalls>>
      /\ dform' = [dform EXCEPT !.key = 0] /\ indialogExcuses' = indialogExcuses \cup {"cleared"}
      /\ dsteps' = dsteps + 1
    BY DEF InDialog!clearRealityKeypair, InDialog!Step, InDialog!fallbackVars, InDialog!Excuse
<1>2. IsDform(dform)' /\ dform'.key = 0
    BY <1>1 DEF DialogKnown, DialogTyped, IsDform
<1>3. DialogTyped'
    BY <1>1, <1>2 DEF DialogKnown, DialogTyped
<1>4. FlagHeld' /\ RowsTrue'
    BY <1>1 DEF DialogKnown, FlagHeld, RowsTrue
<1>5. Here => Here'
    BY <1>1, <1>2 DEF Here, CallsHere, KeyHere, RowsHere, NewKey, Master, InDialog!Asking
<1>6. CertsHere => CertsHere'
    BY <1>1 DEF CertsHere
<1>7. RowsKept => RowsKept'
    BY <1>1 DEF RowsKept, InDialog!Asking
<1> QED BY <1>1, <1>3, <1>4, <1>5, <1>6, <1>7 DEF DialogKnown, None

-----------------------------------------------------------------------------
(* The fallback card *)

\* An edit of the card keeps the rows apart, their owners and, but for a cause, their values and
\* the row the inbound came with.
RowsEdited ==
    /\ fallbacks' \in Seq(CardRows) /\ rowKey' \in Nat /\ rowKey <= rowKey'
    /\ KeysApart(fallbacks)' /\ \A i \in 1..Len(fallbacks') : fallbacks'[i].k <= rowKey'
    /\ \A i \in 1..Len(fallbacks') :
         /\ fallbacks'[i].own = 0 \/ \E j \in 1..Len(fallbacks) : fallbacks[j].own = fallbacks'[i].own
         /\ fallbacks \in Seq(TrueRows) /\ "repicked" \notin indialogExcuses' => fallbacks'[i] \in TrueRows
    /\ \A id : HasOwn(fallbacks, id) => HasOwn(fallbacks', id) \/ "removed" \in indialogExcuses'

LEMMA EditedRows ==
    ASSUME DialogKnown, RowsEdited, indialogExcuses \subseteq indialogExcuses', dsteps' \in Nat,
           UNCHANGED <<indialogStored, indialogDlg, dform, certs, dsaving, dcalls>>
    PROVE  DialogKnown'
<1>1. fallbacks \in Seq(CardRows) /\ fallbacks' \in Seq(CardRows)
    BY DEF DialogKnown, DialogTyped, RowsEdited
<1>2. DialogTyped'
    BY DEF DialogKnown, DialogTyped, RowsEdited
<1>3. FlagHeld'
    BY DEF DialogKnown, FlagHeld
<1>4. ASSUME fallbacks \in Seq(TrueRows), "repicked" \notin indialogExcuses' PROVE fallbacks' \in Seq(TrueRows)
    <2>1. \A i \in 1..Len(fallbacks') : fallbacks'[i] \in TrueRows
        BY <1>4 DEF RowsEdited
    <2> QED BY <1>1, <2>1, InSequence
<1>5. RowsTrue'
    BY <1>4 DEF DialogKnown, RowsTrue, RowsEdited
<1>6. Here => Here'
    <2> SUFFICES ASSUME Here PROVE Here'
        OBVIOUS
    <2>1. CallsHere' /\ KeyHere' /\ (InDialog!Asking("load") => InDialog!Asking("load")')
        BY DEF Here, CallsHere, KeyHere, NewKey, Master, InDialog!Asking
    <2>2. ASSUME fallbacks \in Seq(OwnRows(indialogDlg.id)) PROVE fallbacks' \in Seq(OwnRows(indialogDlg.id))
        <3>1. \A i \in 1..Len(fallbacks) : fallbacks[i] \in OwnRows(indialogDlg.id)
            BY <1>1, <2>2
        <3>2. \A i \in 1..Len(fallbacks') : fallbacks'[i] \in CardRows
            BY <1>1
        <3>3. \A i \in 1..Len(fallbacks') : fallbacks'[i] \in OwnRows(indialogDlg.id)
            BY <3>1, <3>2 DEF RowsEdited, OwnRows
        <3> QED BY <1>1, <3>3, InSequence
    <2> QED BY <2>1, <2>2 DEF Here, RowsHere
<1>7. CertsHere => CertsHere'
    BY DEF CertsHere
<1>8. RowsKept => RowsKept'
    BY DEF RowsKept, InDialog!Asking, RowsEdited, Kept
<1>9. KeysKept => KeysKept'
    BY DEF KeysKept, InDialog!Asking
<1> QED BY <1>2, <1>3, <1>5, <1>6, <1>7, <1>8, <1>9 DEF DialogKnown, None

LEMMA EditSays ==
    ASSUME NEW rows, NEW keys, InDialog!EditFallbacks(rows, keys)
    PROVE  /\ fallbacks' = rows /\ rowKey' = rowKey + keys /\ dsteps' = dsteps + 1
           /\ UNCHANGED <<indialogStored, indialogDlg, dform, certs, dsaving, dcalls>>
    BY DEF InDialog!EditFallbacks, InDialog!Step, InDialog!formVars

LEMMA RowsBefore ==
    ASSUME DialogKnown
    PROVE  /\ fallbacks \in Seq(CardRows) /\ DOMAIN fallbacks = 1..Len(fallbacks) /\ Len(fallbacks) \in Nat
           /\ rowKey \in Nat /\ dsteps \in Nat /\ KeysApart(fallbacks)
           /\ \A i \in 1..Len(fallbacks) : fallbacks[i] \in CardRows /\ fallbacks[i].k <= rowKey /\ fallbacks[i].k \in Nat
           /\ fallbacks \in Seq(TrueRows) => \A i \in 1..Len(fallbacks) : fallbacks[i] \in TrueRows
<1>1. fallbacks \in Seq(CardRows) /\ rowKey \in Nat /\ dsteps \in Nat /\ KeysApart(fallbacks)
      /\ \A i \in 1..Len(fallbacks) : fallbacks[i].k <= rowKey
    BY DEF DialogKnown, DialogTyped, RowsTrue
<1>2. DOMAIN fallbacks = 1..Len(fallbacks) /\ Len(fallbacks) \in Nat /\ \A i \in 1..Len(fallbacks) : fallbacks[i] \in CardRows
    BY <1>1
<1>3. \A r \in CardRows : r.k \in Nat
    BY DEF CardRows
<1>4. fallbacks \in Seq(TrueRows) => \A i \in 1..Len(fallbacks) : fallbacks[i] \in TrueRows
    OBVIOUS
<1> QED BY <1>1, <1>2, <1>3, <1>4

\* Rows that are the same in another order, some of them gone.
Permutes(At, n) ==
    /\ n \in Nat /\ n = Len(fallbacks')
    /\ \A i \in 1..n : At[i] \in 1..Len(fallbacks) /\ fallbacks'[i] = fallbacks[At[i]]
    /\ \A i, j \in 1..n : At[i] = At[j] => i = j
    /\ "removed" \in indialogExcuses' \/ \A i \in 1..Len(fallbacks) : \E j \in 1..n : At[j] = i

LEMMA PermutedRows ==
    ASSUME DialogKnown, fallbacks' \in Seq(CardRows), rowKey' = rowKey, NEW At, NEW n, Permutes(At, n)
    PROVE  RowsEdited
<1> USE DEF Permutes
<1>1. ASSUME NEW i \in 1..n, NEW j \in 1..n, i # j PROVE fallbacks'[i].k # fallbacks'[j].k
    <2>1. At[i] # At[j] /\ At[i] \in 1..Len(fallbacks) /\ At[j] \in 1..Len(fallbacks)
        BY <1>1
    <2>2. fallbacks[At[i]].k # fallbacks[At[j]].k
        BY <2>1, RowsBefore DEF KeysApart
    <2> QED BY <2>2
<1>2. \A i \in 1..n : fallbacks'[i].k <= rowKey'
    BY RowsBefore
<1>3. ASSUME NEW i \in 1..n
      PROVE  /\ \E j \in 1..Len(fallbacks) : fallbacks[j].own = fallbacks'[i].own
             /\ fallbacks \in Seq(TrueRows) => fallbacks'[i] \in TrueRows
    BY RowsBefore
<1>4. ASSUME NEW id, HasOwn(fallbacks, id), "removed" \notin indialogExcuses' PROVE HasOwn(fallbacks', id)
    <2>1. PICK i \in 1..Len(fallbacks) : fallbacks[i].own = id /\ fallbacks[i].child # "none"
        BY <1>4 DEF HasOwn
    <2>2. PICK j \in 1..n : At[j] = i
        BY <1>4
    <2>3. j \in 1..Len(fallbacks') /\ fallbacks'[j] = fallbacks[i]
        BY <2>2
    <2> QED BY <2>1, <2>3 DEF HasOwn
<1>5. rowKey' \in Nat /\ rowKey <= rowKey' /\ n = Len(fallbacks')
    BY RowsBefore
<1>6. KeysApart(fallbacks)'
    BY <1>1, <1>5 DEF KeysApart
<1>7. \A i \in 1..Len(fallbacks') :
         /\ \E j \in 1..Len(fallbacks) : fallbacks[j].own = fallbacks'[i].own
         /\ fallbacks \in Seq(TrueRows) => fallbacks'[i] \in TrueRows
    BY <1>3, <1>5
<1> QED BY <1>2, <1>4, <1>5, <1>6, <1>7 DEF RowsEdited

LEMMA RemoveRow == ASSUME DialogKnown, NEW k \in DOMAIN fallbacks, InDialog!removeFallback(k) PROVE DialogKnown'
<1> DEFINE n == Len(fallbacks)
           At == [i \in 1..(n - 1) |-> IF i < k THEN i ELSE i + 1]
<1>1. /\ fallbacks' = SubSeq(fallbacks, 1, k - 1) \o SubSeq(fallbacks, k + 1, n)
      /\ rowKey' = rowKey + 0 /\ dsteps' = dsteps + 1
      /\ UNCHANGED <<indialogStored, indialogDlg, dform, certs, dsaving, dcalls>>
    BY EditSays DEF InDialog!removeFallback, InDialog!RemoveAt
<1>2. "removed" \in indialogExcuses' /\ indialogExcuses \subseteq indialogExcuses'
    BY DEF InDialog!removeFallback, InDialog!Excuse
<1>3. n = Len(fallbacks) /\ n \in Nat /\ k \in 1..n /\ rowKey' = rowKey /\ dsteps' \in Nat /\ fallbacks \in Seq(CardRows)
    BY <1>1, RowsBefore
<1> HIDE DEF n
<1>4. /\ fallbacks' \in Seq(CardRows) /\ Len(fallbacks') = n - 1
      /\ \A i \in 1..(n - 1) : fallbacks'[i] = IF i < k THEN fallbacks[i] ELSE fallbacks[i + 1]
    <2>1. Within(k, n) /\ fallbacks' = Dropped(fallbacks, k, n)
        BY <1>1, <1>3 DEF Within, Dropped
    <2>2. fallbacks' \in Seq(CardRows) /\ DropsOne(fallbacks', fallbacks, k, n)
        BY <1>3, <2>1, DroppedSays
    <2> QED BY <2>2 DEF DropsOne
<1>5. /\ n - 1 \in Nat /\ \A i \in 1..(n - 1) : At[i] \in 1..n /\ fallbacks'[i] = fallbacks[At[i]]
      /\ \A i, j \in 1..(n - 1) : At[i] = At[j] => i = j
    BY <1>3, <1>4
<1> HIDE DEF At
<1>7. Permutes(At, n - 1)
    BY <1>2, <1>3, <1>4, <1>5 DEF Permutes
<1>6. RowsEdited
    BY <1>3, <1>4, <1>7, PermutedRows
<1> QED BY <1>1, <1>2, <1>3, <1>6, EditedRows

LEMMA MoveRow ==
    ASSUME DialogKnown, NEW k \in DOMAIN fallbacks, NEW d \in {-1, 1}, InDialog!moveFallback(k, d) PROVE DialogKnown'
<1> DEFINE n == Len(fallbacks)
           m == k + d
           At == [i \in 1..n |-> IF i = k THEN m ELSE IF i = m THEN k ELSE i]
<1>1. /\ fallbacks' = [fallbacks EXCEPT ![k] = fallbacks[m], ![m] = fallbacks[k]]
      /\ m \in DOMAIN fallbacks /\ rowKey' = rowKey + 0 /\ dsteps' = dsteps + 1 /\ indialogExcuses' = indialogExcuses
      /\ UNCHANGED <<indialogStored, indialogDlg, dform, certs, dsaving, dcalls>>
    BY EditSays DEF InDialog!moveFallback
<1>2. n = Len(fallbacks) /\ n \in Nat /\ k \in 1..n /\ m \in 1..n /\ m # k /\ rowKey' = rowKey /\ dsteps' \in Nat
      /\ fallbacks \in Seq(CardRows)
    BY <1>1, RowsBefore
<1> HIDE DEF n, m
<1>3. /\ fallbacks' \in Seq(CardRows) /\ Len(fallbacks') = n
      /\ fallbacks'[k] = fallbacks[m] /\ fallbacks'[m] = fallbacks[k]
      /\ \A i \in 1..n : i # k /\ i # m => fallbacks'[i] = fallbacks[i]
    BY <1>1, <1>2
<1>4. \A i \in 1..n : At[i] \in 1..n /\ fallbacks'[i] = fallbacks[At[i]] /\ At[At[i]] = i
    BY <1>2, <1>3
<1> HIDE DEF At
<1>6. /\ n = Len(fallbacks') /\ \A i \in 1..n : At[i] \in 1..Len(fallbacks) /\ fallbacks'[i] = fallbacks[At[i]]
    BY <1>2, <1>3, <1>4
<1>9. ASSUME NEW i \in 1..n, NEW j \in 1..n, At[i] = At[j] PROVE i = j
    <2>1. At[At[i]] = i /\ At[At[j]] = j
        BY <1>4
    <2> QED BY <1>9, <2>1
<1>7. ASSUME NEW i \in 1..Len(fallbacks) PROVE \E j \in 1..n : At[j] = i
    <2>1. i \in 1..n
        BY <1>2
    <2>2. At[i] \in 1..n /\ At[At[i]] = i
        BY <1>4, <2>1
    <2> QED BY <2>2
<1>8. Permutes(At, n)
    BY <1>2, <1>6, <1>7, <1>9 DEF Permutes
<1>5. RowsEdited
    BY <1>2, <1>3, <1>8, PermutedRows
<1> QED BY <1>1, <1>2, <1>5, EditedRows

\* New rows at the end, with new keys.
LEMMA AppendedRows ==
    ASSUME DialogKnown, fallbacks' \in Seq(CardRows), NEW m \in Nat, rowKey' = rowKey + m,
           NEW n, n = Len(fallbacks), Len(fallbacks') = n + m,
           \A i \in 1..n : fallbacks'[i] = fallbacks[i],
           \A i \in 1..(n + m) : i \notin 1..n =>
               fallbacks'[i].k = rowKey + (i - n) /\ fallbacks'[i].own = 0 /\ fallbacks'[i] \in TrueRows
    PROVE  RowsEdited
<1>1. n \in Nat /\ rowKey \in Nat
    BY RowsBefore
<1>2. \A i \in 1..n : fallbacks[i].k \in Nat /\ fallbacks[i].k <= rowKey /\ i \in 1..(n + m)
    BY <1>1, RowsBefore
<1>3. ASSUME NEW i \in 1..(n + m), NEW j \in 1..(n + m), i # j PROVE fallbacks'[i].k # fallbacks'[j].k
    <2>1. CASE i \in 1..n /\ j \in 1..n
        BY <1>3, <2>1, RowsBefore DEF KeysApart
    <2>2. CASE i \in 1..n /\ j \notin 1..n
        <3>1. j - n > 0 /\ j - n \in Int
            BY <1>1, <2>2
        <3> QED BY <1>1, <1>2, <2>2, <3>1
    <2>3. CASE i \notin 1..n /\ j \in 1..n
        <3>1. i - n > 0 /\ i - n \in Int
            BY <1>1, <2>3
        <3> QED BY <1>1, <1>2, <2>3, <3>1
    <2>4. CASE i \notin 1..n /\ j \notin 1..n
        BY <1>1, <1>3, <2>4
    <2> QED BY <2>1, <2>2, <2>3, <2>4
<1>4. ASSUME NEW i \in 1..(n + m)
      PROVE  /\ fallbacks'[i].k <= rowKey'
             /\ fallbacks'[i].own = 0 \/ \E j \in 1..n : fallbacks[j].own = fallbacks'[i].own
             /\ fallbacks \in Seq(TrueRows) => fallbacks'[i] \in TrueRows
    <2>1. CASE i \in 1..n
        <3>1. fallbacks'[i] = fallbacks[i] /\ fallbacks[i].k <= rowKey'
            BY <1>1, <1>2, <2>1
        <3> QED BY <2>1, <3>1, RowsBefore
    <2>2. CASE i \notin 1..n
        BY <1>1, <2>2
    <2> QED BY <2>1, <2>2
<1>5. \A id : HasOwn(fallbacks, id) => HasOwn(fallbacks', id)
    BY <1>2 DEF HasOwn
<1>6. KeysApart(fallbacks)'
    <2>1. \A i, j \in 1..Len(fallbacks') : i # j => fallbacks'[i].k # fallbacks'[j].k
        BY <1>3
    <2> QED BY <2>1 DEF KeysApart
<1>7. /\ rowKey' \in Nat /\ rowKey <= rowKey'
      /\ \A i \in 1..Len(fallbacks') : fallbacks'[i].k <= rowKey'
    BY <1>1, <1>4
<1>8. \A i \in 1..Len(fallbacks') :
          /\ fallbacks'[i].own = 0 \/ \E j \in 1..Len(fallbacks) : fallbacks[j].own = fallbacks'[i].own
          /\ fallbacks \in Seq(TrueRows) => fallbacks'[i] \in TrueRows
    BY <1>4
<1> QED BY <1>5, <1>6, <1>7, <1>8 DEF RowsEdited

RowFields(a, o, c, v) == a \in Nat /\ o \in 0..3 /\ c \in {"none", "c1", "c2"} /\ v \in {"", "typed", "c1", "c2"}
LEMMA RowIn ==
    ASSUME NEW a, NEW o, NEW c, NEW v, RowFields(a, o, c, v), NEW r, r = [k |-> a, own |-> o, child |-> c, vals |-> v]
    PROVE  r \in CardRows /\ (v \in {"", "typed", c} => r \in TrueRows)
<1>1. r \in CardRows
    BY DEF CardRows, RowFields
<1> QED BY <1>1 DEF TrueRows

\* A row that was given other values, or another child.
LEMMA RowParts ==
    ASSUME NEW r, r \in CardRows
    PROVE  r = [k |-> r.k, own |-> r.own, child |-> r.child, vals |-> r.vals] /\ RowFields(r.k, r.own, r.child, r.vals)
    BY DEF CardRows, RowFields

LEMMA RowWith ==
    ASSUME NEW r, r \in CardRows, NEW v, NEW w, NEW t,
           \/ w = r.child /\ t = [r EXCEPT !.vals = v]
           \/ t = [r EXCEPT !.child = w, !.vals = v]
    PROVE  t = [k |-> r.k, own |-> r.own, child |-> w, vals |-> v]
<1>1. r = [k |-> r.k, own |-> r.own, child |-> r.child, vals |-> r.vals]
    BY RowParts
<1>2. t.k = r.k /\ t.own = r.own /\ t.child = w /\ t.vals = v
    BY <1>1
<1>3. t = [k |-> t.k, own |-> t.own, child |-> t.child, vals |-> t.vals]
    BY <1>1
<1> QED BY <1>2, <1>3

LEMMA AddRow == ASSUME DialogKnown, InDialog!addFallback PROVE DialogKnown'
<1> DEFINE n == Len(fallbacks)
           r == [k |-> rowKey + 1, own |-> 0, child |-> "none", vals |-> ""]
<1>1. /\ fallbacks' = Append(fallbacks, r) /\ rowKey' = rowKey + 1 /\ dsteps' = dsteps + 1 /\ indialogExcuses' = indialogExcuses
      /\ UNCHANGED <<indialogStored, indialogDlg, dform, certs, dsaving, dcalls>>
    BY EditSays DEF InDialog!addFallback, InDialog!NewRow
<1> HIDE DEF r
<1>2. n = Len(fallbacks) /\ n \in Nat /\ rowKey \in Nat /\ dsteps' \in Nat /\ fallbacks \in Seq(CardRows)
    BY <1>1, RowsBefore
<1>3. r \in CardRows /\ r \in TrueRows /\ r.k = rowKey + 1 /\ r.own = 0
    <2>1. r = [k |-> rowKey + 1, own |-> 0, child |-> "none", vals |-> ""] /\ "" \in {"", "typed", "none"}
        BY DEF r
    <2>2. RowFields(rowKey + 1, 0, "none", "")
        BY <1>2 DEF RowFields
    <2>3. r \in CardRows /\ r \in TrueRows
        BY <2>1, <2>2, RowIn
    <2> QED BY <2>1, <2>3
<1> HIDE DEF n
<1>4. /\ fallbacks' \in Seq(CardRows) /\ Len(fallbacks') = n + 1 /\ fallbacks'[n + 1] = r
      /\ \A i \in 1..n : fallbacks'[i] = fallbacks[i]
    BY <1>1, <1>2, <1>3
<1>5. \A i \in 1..(n + 1) : i \notin 1..n => i = n + 1 /\ i - n = 1
    BY <1>2
<1>6. \A i \in 1..(n + 1) : i \notin 1..n =>
          fallbacks'[i].k = rowKey + (i - n) /\ fallbacks'[i].own = 0 /\ fallbacks'[i] \in TrueRows
    BY <1>3, <1>4, <1>5
<1>7. 1 \in Nat
    OBVIOUS
<1>8. RowsEdited
    BY <1>1, <1>2, <1>4, <1>6, <1>7, AppendedRows
<1> QED BY <1>1, <1>2, <1>8, EditedRows

LEMMA AddAllRows == ASSUME DialogKnown, InDialog!addAllFallbacks PROVE DialogKnown'
<1> DEFINE n == Len(fallbacks)
           A == InDialog!Children \ {r.child : r \in InDialog!ToSet(fallbacks)}
           missing == InDialog!Only(<<"c1", "c2">>, A)
           m == Len(missing)
           Row(j) == [k |-> rowKey + j, own |-> 0, child |-> missing[j], vals |-> InDialog!deriveFallbackDefaults(missing[j])]
           new == [j \in DOMAIN missing |-> Row(j)]
<1>1. /\ fallbacks' = fallbacks \o new /\ rowKey' = rowKey + m /\ dsteps' = dsteps + 1 /\ indialogExcuses' = indialogExcuses
      /\ UNCHANGED <<indialogStored, indialogDlg, dform, certs, dsaving, dcalls>>
    BY EditSays DEF InDialog!addAllFallbacks, InDialog!NewRow
<1>2. n = Len(fallbacks) /\ n \in Nat /\ rowKey \in Nat /\ dsteps' \in Nat /\ fallbacks \in Seq(CardRows)
    BY <1>1, RowsBefore
<1>3. missing \in Seq({"c1", "c2"})
    <2>1. <<"c1", "c2">> \in Seq({"c1", "c2"})
        OBVIOUS
    <2> QED BY <2>1, InDialogOnly DEF Keeps
<1> HIDE DEF missing
<1>4. m \in Nat /\ DOMAIN missing = 1..m /\ \A j \in 1..m : missing[j] \in {"c1", "c2"}
    BY <1>3
<1>5. ASSUME NEW j \in 1..m
      PROVE  Row(j) \in CardRows /\ Row(j) \in TrueRows /\ Row(j).k = rowKey + j /\ Row(j).own = 0
    <2>1. rowKey + j \in Nat /\ missing[j] \in {"c1", "c2"}
        BY <1>2, <1>4
    <2>2. InDialog!deriveFallbackDefaults(missing[j]) \in {"", missing[j]}
        BY <2>1 DEF InDialog!deriveFallbackDefaults
    <2> DEFINE v == InDialog!deriveFallbackDefaults(missing[j])
    <2>3. v \in {"", "typed", missing[j]} /\ v \in {"", "typed", "c1", "c2"} /\ missing[j] \in {"none", "c1", "c2"}
        BY <2>1, <2>2
    <2> HIDE DEF v
    <2>4. Row(j) = [k |-> rowKey + j, own |-> 0, child |-> missing[j], vals |-> v]
        BY DEF v
    <2>5. Row(j).k = rowKey + j /\ Row(j).own = 0
        BY <2>4
    <2> DEFINE a == rowKey + j
    <2>7. a \in Nat /\ 0 \in 0..3
        BY <2>1
    <2> HIDE DEF a
    <2>8. RowFields(a, 0, missing[j], v)
        BY <2>3, <2>7 DEF RowFields
    <2>6. RowFields(rowKey + j, 0, missing[j], v)
        BY <2>8 DEF a
    <2> HIDE DEF Row
    <2> QED BY <2>3, <2>4, <2>5, <2>6, RowIn
<1> HIDE DEF Row, m
<1>6. new \in Seq(CardRows) /\ Len(new) = m /\ \A j \in 1..m : new[j] = Row(j)
    <2>1. DOMAIN new = 1..m /\ \A j \in 1..m : new[j] = Row(j)
        BY <1>4
    <2>2. new = [i \in DOMAIN new |-> new[i]]
        OBVIOUS
    <2> HIDE DEF new
    <2> QED BY <1>4, <1>5, <2>1, <2>2, MappedSays
<1> HIDE DEF new, n
<1>7. /\ fallbacks \o new \in Seq(CardRows) /\ Len(fallbacks \o new) = n + m
      /\ \A i \in 1..n : (fallbacks \o new)[i] = fallbacks[i]
      /\ \A i \in 1..(n + m) : i \notin 1..n => i - n \in 1..m /\ (fallbacks \o new)[i] = new[i - n]
    BY <1>2, <1>6, JoinSays
<1>8. \A i \in 1..(n + m) : i \notin 1..n =>
          fallbacks'[i].k = rowKey + (i - n) /\ fallbacks'[i].own = 0 /\ fallbacks'[i] \in TrueRows
    BY <1>1, <1>5, <1>6, <1>7
<1>9. RowsEdited
    BY <1>1, <1>2, <1>4, <1>7, <1>8, AppendedRows
<1> QED BY <1>1, <1>2, <1>9, EditedRows

\* The same rows, with another child or other values.
Patched(i) ==
    /\ fallbacks'[i].k = fallbacks[i].k /\ fallbacks'[i].own = fallbacks[i].own
    /\ fallbacks[i].child # "none" => fallbacks'[i].child # "none"
    /\ fallbacks[i] \in TrueRows /\ "repicked" \notin indialogExcuses' => fallbacks'[i] \in TrueRows
LEMMA PatchedRows ==
    ASSUME DialogKnown, fallbacks' \in Seq(CardRows), rowKey' = rowKey, NEW n, n = Len(fallbacks), Len(fallbacks') = n,
           \A i \in 1..n : Patched(i)
    PROVE  RowsEdited
<1> USE DEF Patched
<1>1. rowKey' \in Nat /\ rowKey <= rowKey'
    BY RowsBefore
<1>2. KeysApart(fallbacks)' /\ \A i \in 1..n : fallbacks'[i].k <= rowKey'
    BY RowsBefore DEF KeysApart
<1>3. \A i \in 1..n : fallbacks \in Seq(TrueRows) => fallbacks[i] \in TrueRows
    BY RowsBefore
<1>4. \A id : HasOwn(fallbacks, id) => HasOwn(fallbacks', id)
    BY DEF HasOwn
<1> QED BY <1>1, <1>2, <1>3, <1>4 DEF RowsEdited

LEMMA TypeRow == ASSUME DialogKnown, NEW k, InDialog!typeFallback(k) PROVE DialogKnown'
<1> DEFINE n == Len(fallbacks)
           P(i) == IF fallbacks[i].k = k THEN [fallbacks[i] EXCEPT !.vals = "typed"] ELSE fallbacks[i]
<1>1. /\ fallbacks' = [i \in DOMAIN fallbacks |-> P(i)] /\ rowKey' = rowKey + 0 /\ dsteps' = dsteps + 1
      /\ indialogExcuses' = indialogExcuses
      /\ UNCHANGED <<indialogStored, indialogDlg, dform, certs, dsaving, dcalls>>
    BY EditSays DEF InDialog!typeFallback
<1>2. /\ n = Len(fallbacks) /\ n \in Nat /\ DOMAIN fallbacks = 1..n /\ rowKey' = rowKey /\ dsteps' \in Nat
      /\ \A i \in 1..n : fallbacks[i] \in CardRows
    BY <1>1, RowsBefore
<1>3. ASSUME NEW i \in 1..n
      PROVE  /\ P(i) \in CardRows /\ P(i).k = fallbacks[i].k /\ P(i).own = fallbacks[i].own /\ P(i).child = fallbacks[i].child
             /\ fallbacks[i] \in TrueRows => P(i) \in TrueRows
    <2> DEFINE r == fallbacks[i]
    <2>1. r \in CardRows
        BY <1>2
    <2> HIDE DEF r
    <2>2. CASE r.k # k
        BY <2>1, <2>2 DEF r
    <2>3. CASE r.k = k
        <3>1. P(i) = [k |-> r.k, own |-> r.own, child |-> r.child, vals |-> "typed"]
            <4>1. P(i) = [r EXCEPT !.vals = "typed"]
                BY <2>3 DEF r
            <4> HIDE DEF P
            <4> QED BY <2>1, <4>1, RowWith
        <3> HIDE DEF P
        <3>2. RowFields(r.k, r.own, r.child, "typed") /\ "typed" \in {"", "typed", r.child}
            BY <2>1, RowParts DEF RowFields
        <3>3. P(i) \in CardRows /\ P(i) \in TrueRows
            BY <3>1, <3>2, RowIn
        <3>4. P(i).k = r.k /\ P(i).own = r.own /\ P(i).child = r.child
            BY <3>1
        <3> QED BY <3>3, <3>4 DEF r
    <2> QED BY <2>2, <2>3
<1> HIDE DEF n, P
<1>4. DOMAIN fallbacks' = 1..n /\ fallbacks' = [i \in DOMAIN fallbacks' |-> fallbacks'[i]] /\ \A i \in 1..n : fallbacks'[i] = P(i)
    BY <1>1, <1>2
<1>5. fallbacks' \in Seq(CardRows) /\ Len(fallbacks') = n
    BY <1>2, <1>3, <1>4, MappedSays
<1>6. \A i \in 1..n : Patched(i)
    BY <1>3, <1>4 DEF Patched
<1>7. RowsEdited
    BY <1>2, <1>5, <1>6, PatchedRows
<1> QED BY <1>1, <1>2, <1>7, EditedRows

LEMMA UpdateRow ==
    ASSUME DialogKnown, NEW k, NEW child, child \in InDialog!Children, InDialog!updateFallback(k, child) PROVE DialogKnown'
<1> DEFINE n == Len(fallbacks)
           V(r) == IF child \in InDialog!Children \ {r.child} /\ InDialog!isPristine(r)
                   THEN InDialog!deriveFallbackDefaults(child) ELSE r.vals
           P(r) == IF r.k # k THEN r ELSE [r EXCEPT !.child = child, !.vals = V(r)]
           repicked == \E r \in InDialog!ToSet(fallbacks) : r.k = k /\ r.vals \in InDialog!Children \ {child}
<1>1. /\ fallbacks' = [i \in DOMAIN fallbacks |-> P(fallbacks[i])] /\ rowKey' = rowKey + 0 /\ dsteps' = dsteps + 1
      /\ UNCHANGED <<indialogStored, indialogDlg, dform, certs, dsaving, dcalls>>
    BY EditSays DEF InDialog!updateFallback
<1>2. indialogExcuses' = indialogExcuses \cup (IF repicked THEN {"repicked"} ELSE {})
    BY DEF InDialog!updateFallback, InDialog!Excuse
<1> HIDE DEF P, V, repicked
<1>3. /\ n = Len(fallbacks) /\ n \in Nat /\ DOMAIN fallbacks = 1..n /\ rowKey' = rowKey /\ dsteps' \in Nat
      /\ \A i \in 1..n : fallbacks[i] \in CardRows
    BY <1>1, RowsBefore
<1>4. ASSUME NEW i \in 1..n, fallbacks[i].k = k, "repicked" \notin indialogExcuses'
      PROVE  fallbacks[i].vals \notin InDialog!Children \ {child}
    <2>1. fallbacks[i] \in InDialog!ToSet(fallbacks)
        BY <1>3 DEF InDialog!ToSet
    <2> QED BY <1>2, <1>4, <2>1 DEF repicked
<1> USE DEF P, V
<1>5. ASSUME NEW i \in 1..n
      PROVE  /\ P(fallbacks[i]) \in CardRows /\ P(fallbacks[i]).k = fallbacks[i].k /\ P(fallbacks[i]).own = fallbacks[i].own
             /\ fallbacks[i].child # "none" => P(fallbacks[i]).child # "none"
             /\ fallbacks[i] \in TrueRows /\ "repicked" \notin indialogExcuses' => P(fallbacks[i]) \in TrueRows
    <2> DEFINE r == fallbacks[i]
    <2>1. r \in CardRows /\ (r.k = k /\ "repicked" \notin indialogExcuses' => r.vals \notin InDialog!Children \ {child})
        BY <1>3, <1>4
    <2> HIDE DEF r
    <2>2. CASE r.k # k
        BY <2>1, <2>2 DEF r
    <2>3. CASE r.k = k
        <3>1. V(r) \in {"", "typed", "c1", "c2"} /\ (V(r) = r.vals \/ V(r) \in {"", child}) /\ child \in {"c1", "c2"}
            <4>1. InDialog!deriveFallbackDefaults(child) \in {"", child}
                BY DEF InDialog!deriveFallbackDefaults, InDialog!Children
            <4>2. r.vals \in {"", "typed", "c1", "c2"} /\ child \in {"c1", "c2"}
                BY <2>1, RowParts DEF InDialog!Children, RowFields
            <4> QED BY <4>1, <4>2
        <3> HIDE DEF V
        <3>2. P(r) = [k |-> r.k, own |-> r.own, child |-> child, vals |-> V(r)]
            <4>1. P(r) = [r EXCEPT !.child = child, !.vals = V(r)]
                BY <2>3
            <4> HIDE DEF P
            <4> QED BY <2>1, <4>1, RowWith
        <3> HIDE DEF P
        <3>3. P(r) \in CardRows /\ P(r).k = r.k /\ P(r).own = r.own /\ P(r).child = child
            <4>1. RowFields(r.k, r.own, child, V(r))
                BY <2>1, <3>1, RowParts DEF RowFields
            <4>2. P(r) \in CardRows
                BY <3>2, <4>1, RowIn
            <4> QED BY <3>2, <4>2
        <3>4. ASSUME "repicked" \notin indialogExcuses' PROVE V(r) \in {"", "typed", child}
            <4>1. r.vals \in {"", "typed", "c1", "c2"} /\ r.vals \notin {"c1", "c2"} \ {child}
                BY <2>1, <2>3, <3>4, RowParts DEF InDialog!Children, RowFields
            <4> QED BY <3>1, <4>1
        <3>5. P(r).vals = V(r) /\ child # "none"
            <4>1. P(r).vals = V(r)
                BY <3>2
            <4> QED BY <3>1, <4>1
        <3>6. "repicked" \notin indialogExcuses' => P(r) \in TrueRows
            BY <3>3, <3>4, <3>5 DEF TrueRows
        <3> QED BY <3>3, <3>5, <3>6 DEF r
    <2> QED BY <2>2, <2>3
<1> HIDE DEF n, P
<1>6. /\ DOMAIN fallbacks' = 1..n /\ fallbacks' = [i \in DOMAIN fallbacks' |-> fallbacks'[i]]
      /\ \A i \in 1..n : fallbacks'[i] = P(fallbacks[i])
    BY <1>1, <1>3
<1>7. fallbacks' \in Seq(CardRows) /\ Len(fallbacks') = n
    BY <1>3, <1>5, <1>6, MappedSays
<1>8. \A i \in 1..n : Patched(i)
    BY <1>5, <1>6 DEF Patched
<1>9. RowsEdited
    BY <1>3, <1>7, <1>8, PatchedRows
<1> QED BY <1>1, <1>2, <1>3, <1>9, EditedRows

-----------------------------------------------------------------------------
(* The requests of the form *)

LEMMA CallSaysD ==
    ASSUME DialogKnown, indialogDlg.open, NEW kind, NEW i, i = 0 \/ i \in 1..Len(certs), kind \in {"keys", "cert", "save", "security"},
           NEW c, c = InDialog!Call(kind, i)
    PROVE  /\ IsCall(c) /\ c.kind = kind /\ c.n = indialogDlg.n /\ c.id = indialogDlg.id /\ c.i = i
           /\ i \in 1..Len(certs) => c.row = certs[i].c
           /\ kind = "save" => c.form = dform /\ c.fb = fallbacks
           /\ kind # "save" => c.fb = <<>>
<1>1. /\ fallbacks \in Seq(CardRows) /\ certs \in Seq(CertRows) /\ indialogDlg.n \in Nat \ {0} /\ indialogDlg.id \in 0..3
    BY DEF DialogKnown, DialogTyped, IsDlg
<1> DEFINE row == IF i = 0 THEN -1 ELSE certs[i].c
           f == IF kind = "save" THEN dform ELSE InDialog!Absent
           b == IF kind = "save" THEN fallbacks ELSE <<>>
<1>2. b \in Seq(CardRows)
    BY <1>1
<1>3. row \in Int /\ (i \in 1..Len(certs) => row = certs[i].c)
    <2>1. CASE i = 0
        BY <2>1
    <2>2. CASE i \in 1..Len(certs)
        <3>1. certs[i] \in CertRows /\ i # 0
            BY <1>1, <2>2
        <3>2. certs[i].c \in Int
            BY <3>1 DEF CertRows
        <3> QED BY <3>1, <3>2
    <2> QED BY <2>1, <2>2
<1>4. c = [kind |-> kind, n |-> indialogDlg.n, id |-> indialogDlg.id, i |-> i, row |-> row, form |-> f, fb |-> b]
    BY DEF InDialog!Call
<1>5. kind = "save" => f = dform /\ b = fallbacks
    OBVIOUS
<1>6. kind # "save" => b = <<>>
    OBVIOUS
<1> HIDE DEF row, f, b
<1>7. IsCall(c)
    BY <1>1, <1>2, <1>3, <1>4 DEF IsCall
<1> QED BY <1>3, <1>4, <1>5, <1>6, <1>7

LEMMA Asked ==
    ASSUME DialogKnown, indialogDlg.open, NEW kind, NEW i, NEW c, c = InDialog!Call(kind, i), dcalls' = dcalls \cup {c},
           ~dsaving, dsaving' = TRUE, kind \in {"keys", "cert", "save"}, IF kind = "cert" THEN i \in 1..Len(certs) ELSE i = 0,
           kind = "save" => /\ InDialog!Asking("load") => "early" \in indialogExcuses'
                            /\ InDialog!Asking("security") => "bare" \in indialogExcuses',
           indialogExcuses \subseteq indialogExcuses', dsteps' \in Nat,
           UNCHANGED <<indialogStored, indialogDlg, dform, certs, fallbacks, rowKey>>
    PROVE  DialogKnown'
<1>1. /\ IsCall(c) /\ c.kind = kind /\ c.n = indialogDlg.n /\ c.id = indialogDlg.id /\ c.i = i
      /\ i \in 1..Len(certs) => c.row = certs[i].c
      /\ kind = "save" => c.form = dform /\ c.fb = fallbacks
      /\ kind # "save" => c.fb = <<>>
    BY CallSaysD
<1>2. DialogTyped'
    BY <1>1 DEF DialogKnown, DialogTyped
<1>3. FlagHeld'
    <2>1. \A d \in dcalls : ~Holds(d)
        BY DEF DialogKnown, FlagHeld
    <2>2. Holds(c) /\ c \in dcalls'
        BY <1>1 DEF Holds, InDialog!Kinds
    <2> QED BY <2>1, <2>2 DEF FlagHeld
<1>4. RowsTrue'
    <2>1. <<>> \in Seq(TrueRows)
        OBVIOUS
    <2>2. c.fb = fallbacks \/ c.fb = <<>>
        BY <1>1
    <2> QED BY <2>1, <2>2 DEF DialogKnown, RowsTrue
<1>5. InDialog!Asking("load")' <=> InDialog!Asking("load")
    BY <1>1 DEF InDialog!Asking
<1>6. InDialog!Asking("security")' <=> InDialog!Asking("security")
    BY <1>1 DEF InDialog!Asking
<1>7. Here => Here'
    BY <1>1, <1>5 DEF Here, CallsHere, KeyHere, RowsHere, NewKey, Master
<1>8. CertsHere => CertsHere'
    BY <1>1 DEF CertsHere
<1>9. ASSUME None({"crossed", "early"})', RowsKept, RowsHere PROVE RowsKept'
    <2>1. ASSUME kind = "save" PROVE /\ fallbacks \in Seq(OwnRows(indialogDlg.id))
                                     /\ {"removed", "failed"} \cap indialogExcuses' = {} => Kept(fallbacks, indialogDlg.id)
        <3>1. ~InDialog!Asking("load")
            BY <1>9, <2>1 DEF None
        <3> QED BY <1>9, <3>1 DEF RowsKept, RowsHere
    <2>2. Sends(c) => kind = "save"
        BY <1>1 DEF Sends
    <2>3. \A d \in dcalls' : Sends(d) => d \in dcalls \/ (d.fb = fallbacks /\ kind = "save")
        BY <1>1, <2>2
    <2>4. \A d \in dcalls' : Sends(d) => d.fb \in Seq(OwnRows(indialogDlg.id))
        BY <1>9, <2>1, <2>3 DEF RowsKept
    <2>5. ASSUME {"removed", "failed"} \cap indialogExcuses' = {}
          PROVE  /\ \A i_1 \in 1..3 : Kept(indialogStored[i_1].fb, i_1)
                 /\ InDialog!Asking("load") \/ Kept(fallbacks, indialogDlg.id)
                 /\ \A d \in dcalls' : Sends(d) => Kept(d.fb, indialogDlg.id)
        <3>1. {"removed", "failed"} \cap indialogExcuses = {}
            BY <2>5
        <3> QED BY <1>9, <2>1, <2>3, <2>5, <3>1 DEF RowsKept
    <2> QED BY <1>5, <1>9, <2>4, <2>5 DEF RowsKept
<1>10. ASSUME None({"crossed", "moved", "bare", "cleared"})', KeysKept PROVE KeysKept'
    <2>1. kind = "save" => Keyed(dform)
        BY <1>10 DEF KeysKept, None
    <2> QED BY <1>1, <1>6, <1>10, <2>1 DEF KeysKept
<1>11. None({"crossed", "early"})' => RowsHere
    BY DEF DialogKnown, None, Here
<1> QED BY <1>2, <1>3, <1>4, <1>7, <1>8, <1>9, <1>10, <1>11 DEF DialogKnown, None

LEMMA FormAsks ==
    ASSUME DialogKnown, InDialog!genRealityKeypair \/ InDialog!submit \/ \E i \in 1..2 : InDialog!setCertFromPanel(i)
    PROVE  DialogKnown'
<1>1. /\ UNCHANGED <<indialogStored, indialogDlg, dform, certs, fallbacks, rowKey>>
      /\ indialogExcuses \subseteq indialogExcuses' /\ (dsteps' = dsteps \/ dsteps' = dsteps + 1)
      /\ ~dsaving /\ dsaving' = TRUE /\ indialogDlg.open
    BY DEF InDialog!genRealityKeypair, InDialog!submit, InDialog!setCertFromPanel, InDialog!Step, InDialog!formVars,
           InDialog!fallbackVars, InDialog!Excuse, InDialog!Flagged
<1>2. dsteps' \in Nat /\ DOMAIN certs = 1..Len(certs)
    BY <1>1 DEF DialogKnown, DialogTyped
<1>3. ASSUME InDialog!genRealityKeypair PROVE DialogKnown'
    <2>1. dcalls' = dcalls \cup {InDialog!Call("keys", 0)}
        BY <1>3 DEF InDialog!genRealityKeypair, InDialog!Flagged, InDialog!Ask
    <2> QED BY <1>1, <1>2, <2>1, Asked
<1>4. ASSUME NEW i, InDialog!setCertFromPanel(i) PROVE DialogKnown'
    <2>1. dcalls' = dcalls \cup {InDialog!Call("cert", i)} /\ i \in 1..Len(certs)
        BY <1>2, <1>4 DEF InDialog!setCertFromPanel, InDialog!Flagged, InDialog!Ask
    <2> QED BY <1>1, <1>2, <2>1, Asked
<1>5. ASSUME InDialog!submit PROVE DialogKnown'
    <2>1. dcalls' = dcalls \cup {InDialog!Call("save", 0)}
        BY <1>5 DEF InDialog!submit, InDialog!Flagged, InDialog!Ask
    <2>2. /\ InDialog!Asking("load") => "early" \in indialogExcuses'
          /\ InDialog!Asking("security") => "bare" \in indialogExcuses'
        BY <1>5 DEF InDialog!submit, InDialog!Excuse
    <2> QED BY <1>1, <1>2, <2>1, <2>2, Asked
<1> QED BY <1>3, <1>4, <1>5

\* Choosing the security of the form.
LEMMA SecurityActs == ASSUME DialogKnown, NEW s, InDialog!onSecurityChange(s) PROVE DialogKnown'
<1> DEFINE c == InDialog!Call("security", 0)
<1>1. /\ UNCHANGED <<indialogStored, indialogDlg, fallbacks, rowKey, dsaving>> /\ dsteps' = dsteps + 1 /\ indialogDlg.open
      /\ dform' = [dform EXCEPT !.sec = s, !.key = 0]
      /\ certs' = IF s = "tls" THEN <<[c |-> dsteps', by |-> -1]>> ELSE <<>>
      /\ dcalls' = dcalls \cup (IF s = "reality" THEN {c} ELSE {})
      /\ indialogExcuses \subseteq indialogExcuses'
      /\ InDialog!Asking("cert") => "moved" \in indialogExcuses'
    BY DEF InDialog!onSecurityChange, InDialog!Step, InDialog!fallbackVars, InDialog!Excuse
<1>2. IsCall(c) /\ c.kind = "security" /\ c.n = indialogDlg.n /\ c.id = indialogDlg.id /\ c.fb = <<>>
    BY <1>1, CallSaysD
<1> HIDE DEF c
<1>3. IsDform(dform)' /\ dform'.key = 0 /\ dform'.sec = s
    BY <1>1 DEF DialogKnown, DialogTyped, IsDform
<1>4. certs' \in Seq(CertRows) /\ \A i \in 1..Len(certs') : certs'[i].by = -1
    <2>1. dsteps' \in Int
        BY <1>1 DEF DialogKnown, DialogTyped
    <2>2. CASE s = "tls"
        <3> DEFINE r == [c |-> dsteps', by |-> -1]
        <3>1. r \in CertRows /\ r.by = -1 /\ certs' = <<r>>
            BY <1>1, <2>1, <2>2 DEF CertRows
        <3> HIDE DEF r
        <3> QED BY <3>1
    <2>3. CASE s # "tls"
        BY <1>1, <2>3
    <2> QED BY <2>2, <2>3
<1>5. dcalls \subseteq dcalls' /\ dcalls' \subseteq dcalls \cup {c} /\ (s = "reality" => c \in dcalls')
    BY <1>1
<1>6. DialogTyped'
    <2>1. \A d \in dcalls' : IsCall(d) /\ (d.kind = "load" \/ d.kind = "saveFb" => d.id # 0)
        BY <1>2, <1>5 DEF DialogKnown, DialogTyped
    <2>2. dsteps' \in Nat
        BY <1>1 DEF DialogKnown, DialogTyped
    <2> QED BY <1>1, <1>3, <1>4, <2>1, <2>2 DEF DialogKnown, DialogTyped
<1>7. FlagHeld'
    <2>1. ~Holds(c)
        BY <1>2 DEF Holds, InDialog!Kinds
    <2> QED BY <1>1, <1>5, <2>1 DEF DialogKnown, FlagHeld
<1>8. RowsTrue'
    <2>1. <<>> \in Seq(TrueRows)
        OBVIOUS
    <2> QED BY <1>1, <1>2, <1>5, <2>1 DEF DialogKnown, RowsTrue
<1>9. InDialog!Asking("load")' <=> InDialog!Asking("load")
    BY <1>2, <1>5 DEF InDialog!Asking
<1>10. Here => Here'
    BY <1>1, <1>2, <1>3, <1>5, <1>9 DEF Here, CallsHere, KeyHere, RowsHere, NewKey, Master
<1>11. None({"crossed", "moved"})' => CertsHere'
    <2> SUFFICES ASSUME None({"crossed", "moved"})' PROVE CertsHere'
        OBVIOUS
    <2>1. \A d \in dcalls' : d.kind # "cert"
        BY <1>1, <1>2, <1>5 DEF InDialog!Asking, None
    <2> QED BY <1>4, <2>1 DEF CertsHere
<1>12. RowsKept => RowsKept'
    <2>1. ~Sends(c)
        BY <1>2 DEF Sends
    <2>2. \A d \in dcalls' : Sends(d) => d \in dcalls
        BY <1>5, <2>1
    <2> QED BY <1>1, <1>9, <2>2 DEF RowsKept
<1>13. KeysKept => KeysKept'
    <2>1. Keyed(dform') \/ InDialog!Asking("security")'
        <3>1. s = "reality" => InDialog!Asking("security")'
            BY <1>2, <1>5 DEF InDialog!Asking
        <3> QED BY <1>3, <3>1 DEF Keyed
    <2>2. \A d \in dcalls' : d.kind = "save" => d \in dcalls
        BY <1>2, <1>5
    <2> QED BY <1>1, <2>1, <2>2 DEF KeysKept
<1> QED BY <1>1, <1>6, <1>7, <1>8, <1>10, <1>11, <1>12, <1>13 DEF DialogKnown, None

-----------------------------------------------------------------------------
(* The opening *)

LEMMA OpenActs == ASSUME DialogKnown, NEW id, id \in 0..3, InDialog!Open(id) PROVE DialogKnown'
<1> DEFINE f == InDialog!FormOf(id)
           n == indialogDlg.n + 1
           c == [kind |-> "load", n |-> n, id |-> id, i |-> 0, form |-> InDialog!Absent, fb |-> <<>>, row |-> -1]
<1>1. /\ UNCHANGED <<indialogStored, rowKey, dsaving>> /\ dsteps' = dsteps + 1
      /\ certs' = IF f.sec = "tls" THEN <<[c |-> 0, by |-> -1]>> ELSE <<>>
      /\ dcalls' = IF id = 0 THEN dcalls ELSE dcalls \cup {c}
      /\ fallbacks' = IF id = 0 THEN <<>> ELSE fallbacks
      /\ indialogExcuses \subseteq indialogExcuses' /\ (dcalls # {} => "crossed" \in indialogExcuses')
    BY DEF InDialog!Open, InDialog!loadFallbacks, InDialog!Excuse
<1>2. \E t : dform' = [f EXCEPT !.tag = t]
    BY DEF InDialog!Open, InDialog!OpenEffects
<1>3. \E t, b : indialogDlg' = [open |-> TRUE, id |-> id, n |-> n, tag |-> t, typed |-> FALSE, seeded |-> b]
    BY DEF InDialog!Open
<1>4. /\ IsStored(indialogStored) /\ indialogDlg.n \in Nat /\ fallbacks \in Seq(CardRows) /\ rowKey \in Nat /\ dsteps \in Nat
      /\ dsaving \in BOOLEAN
    BY DEF DialogKnown, DialogTyped, IsDlg
<1>5. /\ \E t, p, s, k : f = [tag |-> t, port |-> p, sec |-> s, key |-> k]
      /\ id = 0 => f.key = 0 /\ f.sec = "none"
      /\ id # 0 => f.key = indialogStored[id].key /\ f.sec = indialogStored[id].sec
    BY DEF InDialog!FormOf
<1> HIDE DEF f
<1>6. IsDform(dform)' /\ dform'.key = f.key /\ dform'.sec = f.sec
    <2>1. PICK t, p, s, k : f = [tag |-> t, port |-> p, sec |-> s, key |-> k]
        BY <1>5
    <2>2. PICK u : dform' = [f EXCEPT !.tag = u]
        BY <1>2
    <2>3. dform' = [tag |-> u, port |-> p, sec |-> s, key |-> k]
        BY <2>1, <2>2
    <2> QED BY <2>1, <2>3 DEF IsDform
<1>7. n \in Nat \ {0} /\ n = indialogDlg.n + 1
    BY <1>4
<1> HIDE DEF n
<1>8. IsDlg(indialogDlg)' /\ indialogDlg'.id = id /\ indialogDlg'.n = n
    <2>1. PICK t, b : indialogDlg' = [open |-> TRUE, id |-> id, n |-> n, tag |-> t, typed |-> FALSE, seeded |-> b]
        BY <1>3
    <2> QED BY <1>7, <2>1 DEF IsDlg
<1>9. /\ c.kind = "load" /\ c.n = n /\ c.id = id /\ c.fb = <<>> /\ IsCall(c)
    <2>1. /\ c.kind = "load" /\ c.n = n /\ c.id = id /\ c.fb = <<>> /\ c.row = -1 /\ c.i = 0 /\ c.form = InDialog!Absent
        OBVIOUS
    <2>2. <<>> \in Seq(CardRows) /\ -1 \in Int
        OBVIOUS
    <2>3. c = [kind |-> c.kind, n |-> c.n, id |-> c.id, i |-> c.i, row |-> c.row, form |-> c.form, fb |-> c.fb]
        OBVIOUS
    <2> HIDE DEF c
    <2> QED BY <1>7, <2>1, <2>2, <2>3 DEF IsCall
<1> HIDE DEF c
<1>10. certs' \in Seq(CertRows) /\ \A i \in 1..Len(certs') : certs'[i].by = -1
    <2>1. CASE f.sec = "tls"
        <3> DEFINE r == [c |-> 0, by |-> -1]
        <3>1. r \in CertRows /\ r.by = -1 /\ certs' = <<r>>
            BY <1>1, <2>1 DEF CertRows
        <3> HIDE DEF r
        <3> QED BY <3>1
    <2>2. CASE f.sec # "tls"
        BY <1>1, <2>2
    <2> QED BY <2>1, <2>2
<1>11. /\ dcalls \subseteq dcalls' /\ dcalls' \subseteq dcalls \cup {c} /\ (id # 0 => c \in dcalls') /\ (id = 0 => dcalls' = dcalls)
    BY <1>1
<1>12. /\ fallbacks' \in Seq(CardRows) /\ (fallbacks' = fallbacks \/ Len(fallbacks') = 0)
       /\ (fallbacks \in Seq(TrueRows) => fallbacks' \in Seq(TrueRows))
    BY <1>1, <1>4
<1>13. DialogTyped'
    <2>1. \A d \in dcalls' : IsCall(d) /\ (d.kind = "load" \/ d.kind = "saveFb" => d.id # 0)
        BY <1>9, <1>11 DEF DialogKnown, DialogTyped
    <2>2. IsStored(indialogStored)' /\ rowKey' \in Nat /\ dsteps' \in Nat /\ dsaving' \in BOOLEAN /\ indialogDlg'.n # 0
        BY <1>1, <1>4, <1>7, <1>8 DEF IsStored
    <2> QED BY <1>6, <1>8, <1>10, <1>12, <2>1, <2>2 DEF DialogTyped
<1>14. FlagHeld'
    <2>1. ~Holds(c)
        BY <1>9 DEF Holds, InDialog!Kinds
    <2> QED BY <1>1, <1>11, <2>1 DEF DialogKnown, FlagHeld
<1>15. RowsTrue'
    <2>1. <<>> \in Seq(TrueRows)
        OBVIOUS
    <2>2. KeysApart(fallbacks) /\ \A i \in 1..Len(fallbacks) : fallbacks[i].k <= rowKey
        BY DEF DialogKnown, RowsTrue
    <2>3. KeysApart(fallbacks)' /\ \A i \in 1..Len(fallbacks') : fallbacks'[i].k <= rowKey'
        BY <1>1, <1>12, <2>2 DEF KeysApart
    <2>4. ASSUME "repicked" \notin indialogExcuses'
          PROVE  /\ fallbacks' \in Seq(TrueRows) /\ \A d \in dcalls' : d.fb \in Seq(TrueRows)
                 /\ \A i \in 1..3 : indialogStored'[i].fb \in Seq(TrueRows)
        <3>1. "repicked" \notin indialogExcuses
            BY <1>1, <2>4
        <3> QED BY <1>1, <1>9, <1>11, <1>12, <2>1, <3>1 DEF DialogKnown, RowsTrue
    <2> QED BY <2>3, <2>4 DEF RowsTrue
<1>16. ASSUME None({"crossed"})'
       PROVE  /\ Here' /\ (None({"moved"})' => CertsHere')
              /\ (None({"early"})' /\ RowsKept => RowsKept') /\ (None({"moved", "bare", "cleared"})' /\ KeysKept => KeysKept')
    <2>1. \A d \in dcalls' : d = c /\ id # 0
        BY <1>1, <1>11, <1>16 DEF None
    <2>2. InDialog!Asking("load")' \/ id = 0
        BY <1>9, <1>11 DEF InDialog!Asking
    <2>3. CallsHere'
        BY <1>8, <1>9, <2>1 DEF CallsHere
    <2>4. KeyHere'
        BY <1>1, <1>5, <1>6, <1>8 DEF KeyHere, NewKey
    <2>5. RowsHere'
        <3>1. CASE id = 0
            BY <1>1, <3>1 DEF RowsHere
        <3> QED BY <2>2, <3>1 DEF RowsHere
    <2>6. CertsHere'
        BY <1>9, <1>10, <2>1 DEF CertsHere
    <2>7. RowsKept => RowsKept'
        <3>1. \A d \in dcalls' : ~Sends(d)
            BY <1>9, <2>1 DEF Sends
        <3>2. id = 0 => Kept(fallbacks', indialogDlg'.id)
            BY <1>8 DEF Kept
        <3> QED BY <1>1, <2>2, <3>1, <3>2 DEF RowsKept
    <2>8. KeysKept => KeysKept'
        <3>1. ASSUME KeysKept PROVE Keyed(dform')
            BY <1>5, <1>6, <3>1 DEF KeysKept, Keyed
        <3>2. \A d \in dcalls' : d.kind # "save"
            BY <1>9, <2>1
        <3> QED BY <1>1, <3>1, <3>2 DEF KeysKept
    <2> QED BY <2>3, <2>4, <2>5, <2>6, <2>7, <2>8 DEF Here
<1>17. /\ None({"crossed", "moved"})' => None({"crossed"})' /\ None({"moved"})'
       /\ None({"crossed", "early"})' => None({"crossed"})' /\ None({"early"})' /\ None({"crossed", "early"})
       /\ None({"crossed", "moved", "bare", "cleared"})' =>
             None({"crossed"})' /\ None({"moved", "bare", "cleared"})' /\ None({"crossed", "moved", "bare", "cleared"})
    BY <1>1 DEF None
<1> QED BY <1>13, <1>14, <1>15, <1>16, <1>17 DEF DialogKnown

-----------------------------------------------------------------------------
(* The answers *)

LEMMA AnswerSays ==
    ASSUME DialogKnown, NEW c, c \in dcalls, dcalls' = dcalls \ {c}, UNCHANGED dsaving, ~Holds(c)
    PROVE  FlagHeld'
    BY DEF DialogKnown, FlagHeld

LEMMA HolderSays ==
    ASSUME DialogKnown, NEW c, c \in dcalls, dcalls' = dcalls \ {c}, dsaving' = FALSE, Holds(c)
    PROVE  FlagHeld' /\ \A d \in dcalls' : ~Holds(d)
    BY DEF DialogKnown, FlagHeld

LEMMA KeysAnswer ==
    ASSUME DialogKnown, NEW c, c \in dcalls, NEW ok, ok \in BOOLEAN, InDialog!KeysArrive(c, ok) PROVE DialogKnown'
<1>1. /\ UNCHANGED <<indialogStored, indialogDlg, certs, fallbacks, rowKey, dsteps>>
      /\ c.kind \in {"keys", "security"} /\ dcalls' = dcalls \ {c}
      /\ dform' = IF ok THEN [dform EXCEPT !.key = c.n] ELSE dform
      /\ dsaving' = (c.kind = "security" /\ dsaving)
      /\ indialogExcuses \subseteq indialogExcuses' /\ (~ok => "bare" \in indialogExcuses')
    BY DEF InDialog!KeysArrive, InDialog!fallbackVars, InDialog!Excuse, InDialog!Done
<1>2. c.n # 0 /\ IsDform(dform) /\ dsaving \in BOOLEAN
    BY DEF DialogKnown, DialogTyped, IsCall
<1>3. IsDform(dform)' /\ dform'.sec = dform.sec /\ dform'.key = IF ok THEN c.n ELSE dform.key
    <2>1. CASE ok
        BY <1>1, <1>2, <2>1 DEF IsDform
    <2>2. CASE ~ok
        BY <1>1, <1>2, <2>2
    <2> QED BY <2>1, <2>2
<1>4. FlagHeld' /\ dsaving' \in BOOLEAN
    <2>1. CASE c.kind = "keys"
        <3>1. dsaving' = FALSE /\ Holds(c)
            BY <1>1, <2>1 DEF Holds, InDialog!Kinds
        <3> QED BY <1>1, <3>1, HolderSays
    <2>2. CASE c.kind = "security"
        <3>1. ~Holds(c)
            BY <2>2 DEF Holds, InDialog!Kinds
        <3>2. dsaving' = dsaving
            BY <1>1, <1>2, <2>2
        <3> QED BY <1>1, <1>2, <3>1, <3>2, AnswerSays
    <2> QED BY <1>1, <2>1, <2>2
<1>5. DialogTyped'
    BY <1>1, <1>3, <1>4 DEF DialogKnown, DialogTyped
<1>6. RowsTrue'
    BY <1>1 DEF DialogKnown, RowsTrue
<1>7. InDialog!Asking("load") <=> InDialog!Asking("load")'
    BY <1>1 DEF InDialog!Asking
<1>8. Here => Here'
    <2> SUFFICES ASSUME Here PROVE Here'
        OBVIOUS
    <2>1. c.n = indialogDlg.n
        BY DEF Here, CallsHere
    <2>2. CallsHere'
        BY <1>1, <1>3, <2>1 DEF Here, CallsHere, NewKey, Master
    <2>3. KeyHere'
        BY <1>1, <1>3, <2>1 DEF Here, KeyHere, NewKey
    <2> QED BY <1>1, <1>7, <2>2, <2>3 DEF Here, RowsHere
<1>9. CertsHere => CertsHere'
    BY <1>1 DEF CertsHere
<1>10. RowsKept => RowsKept'
    BY <1>1, <1>7 DEF RowsKept
<1>11. None({"crossed", "moved", "bare", "cleared"})' /\ KeysKept => KeysKept'
    <2>1. None({"crossed", "moved", "bare", "cleared"})' => ok
        BY <1>1 DEF None
    <2>2. ok => Keyed(dform')
        BY <1>2, <1>3 DEF Keyed
    <2> QED BY <1>1, <2>1, <2>2 DEF KeysKept
<1> QED BY <1>1, <1>5, <1>4, <1>6, <1>8, <1>9, <1>10, <1>11 DEF DialogKnown, None

LEMMA CertAnswer ==
    ASSUME DialogKnown, NEW c, c \in dcalls, NEW ok, ok \in BOOLEAN, InDialog!CertArrives(c, ok) PROVE DialogKnown'
<1>1. /\ UNCHANGED <<indialogStored, indialogDlg, dform, fallbacks, rowKey, indialogExcuses, dsteps>>
      /\ c.kind = "cert" /\ dcalls' = dcalls \ {c} /\ dsaving' = FALSE
      /\ certs' = IF ~ok THEN certs
                  ELSE IF c.i \in DOMAIN certs THEN [certs EXCEPT ![c.i].by = c.row] ELSE Append(certs, [c |-> -2, by |-> c.row])
    BY DEF InDialog!CertArrives, InDialog!fallbackVars, InDialog!Done
<1>2. c.row \in Int /\ certs \in Seq(CertRows)
    BY DEF DialogKnown, DialogTyped, IsCall
<1>3. FlagHeld' /\ \A d \in dcalls' : d.kind # "cert"
    <2>1. Holds(c) /\ \A d : d.kind = "cert" => Holds(d)
        BY <1>1 DEF Holds, InDialog!Kinds
    <2> QED BY <1>1, <2>1, HolderSays
<1>4. certs' \in Seq(CertRows) /\ (CertsHere => CertsHere')
    <2>1. CASE ~ok
        BY <1>1, <1>2, <2>1 DEF CertsHere
    <2>2. CASE ok /\ c.i \in DOMAIN certs
        <3> DEFINE r == [certs[c.i] EXCEPT !.by = c.row]
        <3>1. c.i \in 1..Len(certs) /\ certs[c.i] \in CertRows
            BY <1>2, <2>2
        <3>2. r \in CertRows /\ r.by = c.row /\ r.c = certs[c.i].c
            BY <1>2, <3>1 DEF CertRows
        <3>3. certs' = [certs EXCEPT ![c.i] = r]
            BY <1>1, <2>2
        <3> HIDE DEF r
        <3>4. certs' \in Seq(CertRows) /\ Len(certs') = Len(certs)
              /\ \A i \in 1..Len(certs) : certs'[i] = IF i = c.i THEN r ELSE certs[i]
            BY <1>2, <3>1, <3>2, <3>3
        <3>5. CertsHere => r.by \in {-1, r.c}
            BY <1>1, <3>1, <3>2 DEF CertsHere
        <3> QED BY <1>3, <3>4, <3>5 DEF CertsHere
    <2>3. CASE ok /\ c.i \notin DOMAIN certs
        <3> DEFINE r == [c |-> -2, by |-> c.row]
        <3>1. r \in CertRows /\ certs' = Append(certs, r)
            BY <1>1, <1>2, <2>3 DEF CertRows
        <3> HIDE DEF r
        <3>2. certs' \in Seq(CertRows)
            BY <1>2, <3>1
        <3>3. ~CertsHere
            BY <1>1, <1>2, <2>3 DEF CertsHere
        <3> QED BY <3>2, <3>3
    <2> QED BY <2>1, <2>2, <2>3
<1>5. DialogTyped'
    BY <1>1, <1>4 DEF DialogKnown, DialogTyped
<1>6. RowsTrue'
    BY <1>1 DEF DialogKnown, RowsTrue
<1>7. InDialog!Asking("load") <=> InDialog!Asking("load")'
    BY <1>1 DEF InDialog!Asking
<1>8. Here => Here'
    BY <1>1, <1>7 DEF Here, CallsHere, KeyHere, RowsHere, NewKey, Master
<1>9. RowsKept => RowsKept'
    BY <1>1, <1>7 DEF RowsKept
<1>10. KeysKept => KeysKept'
    BY <1>1 DEF KeysKept, InDialog!Asking
<1> QED BY <1>1, <1>3, <1>4, <1>5, <1>6, <1>8, <1>9, <1>10 DEF DialogKnown, None

\* The rows that a load brings.
Loaded(id) ==
    /\ fallbacks' \in Seq(CardRows) /\ rowKey' \in Nat
    /\ KeysApart(fallbacks)' /\ \A i \in 1..Len(fallbacks') : fallbacks'[i].k <= rowKey'
    /\ fallbacks' \in Seq(OwnRows(id))
    /\ "repicked" \notin indialogExcuses => fallbacks' \in Seq(TrueRows)
    /\ "failed" \in indialogExcuses' \/ (Kept(indialogStored[id].fb, id) => Kept(fallbacks', id))

LoadsRow(t, r, k, id) ==
    t \in CardRows /\ t.k = k /\ t.own = id /\ t.child = r.child /\ (r \in TrueRows => t \in TrueRows)
OwnedBy(k, id) == k \in Nat /\ id \in 1..3
LEMMA LoadedRow ==
    ASSUME NEW r, r \in CardRows, NEW k, NEW id, OwnedBy(k, id), NEW t, t = [r EXCEPT !.k = k, !.own = id]
    PROVE  LoadsRow(t, r, k, id)
<1>1. r = [k |-> r.k, own |-> r.own, child |-> r.child, vals |-> r.vals] /\ RowFields(r.k, r.own, r.child, r.vals)
    BY RowParts
<1>2. t.k = k /\ t.own = id /\ t.child = r.child /\ t.vals = r.vals
    BY <1>1
<1>3. t = [k |-> t.k, own |-> t.own, child |-> t.child, vals |-> t.vals]
    BY <1>1
<1>4. t = [k |-> k, own |-> id, child |-> r.child, vals |-> r.vals]
    BY <1>2, <1>3
<1>5. RowFields(k, id, r.child, r.vals)
    <2>1. k \in Nat /\ id \in 0..3
        BY DEF OwnedBy
    <2>2. r.child \in {"none", "c1", "c2"} /\ r.vals \in {"", "typed", "c1", "c2"}
        BY <1>1 DEF RowFields
    <2> QED BY <2>1, <2>2 DEF RowFields
<1>6. t \in CardRows /\ (r.vals \in {"", "typed", r.child} => t \in TrueRows)
    BY <1>4, <1>5, RowIn
<1>7. r \in TrueRows => r.vals \in {"", "typed", r.child}
    BY DEF TrueRows
<1> QED BY <1>2, <1>6, <1>7 DEF LoadsRow

Loads(id) ==
    LET rows == indialogStored[id].fb
    IN  /\ fallbacks' = [i \in DOMAIN rows |-> [rows[i] EXCEPT !.k = rowKey + i, !.own = id]]
        /\ rowKey' = rowKey + Len(rows)
LEMMA LoadedRows == ASSUME DialogKnown, NEW id, id \in 1..3, Loads(id) PROVE Loaded(id)
<1> DEFINE rows == indialogStored[id].fb
           n == Len(rows)
           P(i) == [rows[i] EXCEPT !.k = rowKey + i, !.own = id]
<1>1. fallbacks' = [i \in DOMAIN rows |-> P(i)] /\ rowKey' = rowKey + n
    BY DEF Loads
<1> HIDE DEF P
<1>2. /\ rows \in Seq(CardRows) /\ rowKey \in Nat
      /\ "repicked" \notin indialogExcuses => rows \in Seq(TrueRows)
    BY DEF DialogKnown, DialogTyped, IsStored, IsInbound, RowsTrue
<1> HIDE DEF rows
<1>3. DOMAIN rows = 1..n /\ n \in Nat /\ (\A i \in 1..n : rows[i] \in CardRows)
    BY <1>2
<1>4. "repicked" \notin indialogExcuses => \A i \in 1..n : rows[i] \in TrueRows
    BY <1>2
<1>5. n = Len(rows)
    OBVIOUS
<1> HIDE DEF n
<1>6. ASSUME NEW i, i \in 1..n PROVE LoadsRow(P(i), rows[i], rowKey + i, id)
    <2>1. rowKey + i \in Nat
        BY <1>2, <1>3, <1>6
    <2>2. OwnedBy(rowKey + i, id) /\ rows[i] \in CardRows
        BY <1>3, <1>6, <2>1 DEF OwnedBy
    <2>3. P(i) = [rows[i] EXCEPT !.k = rowKey + i, !.own = id]
        BY DEF P
    <2> QED BY <2>2, <2>3, LoadedRow
<1>7. DOMAIN fallbacks' = 1..n /\ fallbacks' = [i \in DOMAIN fallbacks' |-> fallbacks'[i]] /\ \A i \in 1..n : fallbacks'[i] = P(i)
    BY <1>1, <1>3
<1>8. \A i \in 1..n : LoadsRow(fallbacks'[i], rows[i], rowKey + i, id)
    BY <1>6, <1>7
<1>9. \A i \in 1..n : fallbacks'[i] \in CardRows
    BY <1>8 DEF LoadsRow
<1>10. fallbacks' \in Seq(CardRows) /\ Len(fallbacks') = n
    BY <1>3, <1>7, <1>9, MappedSays
<1>11. \A i \in 1..n : fallbacks'[i].k = rowKey + i /\ fallbacks'[i].own = id /\ fallbacks'[i].child = rows[i].child
    BY <1>8 DEF LoadsRow
<1>12. rowKey' \in Nat /\ KeysApart(fallbacks)' /\ \A i \in 1..n : fallbacks'[i].k <= rowKey'
    <2>1. rowKey' \in Nat
        BY <1>1, <1>2, <1>3
    <2>2. \A i \in 1..n : fallbacks'[i].k <= rowKey'
        BY <1>1, <1>2, <1>3, <1>11
    <2>3. \A i, j \in 1..n : i # j => fallbacks'[i].k # fallbacks'[j].k
        BY <1>2, <1>3, <1>11
    <2> QED BY <1>10, <2>1, <2>2, <2>3 DEF KeysApart
<1>13. fallbacks' \in Seq(OwnRows(id))
    <2>1. \A i \in 1..n : fallbacks'[i] \in OwnRows(id)
        BY <1>9, <1>11 DEF OwnRows
    <2> QED BY <1>10, <2>1, InSequence
<1>14. ASSUME "repicked" \notin indialogExcuses PROVE fallbacks' \in Seq(TrueRows)
    <2>1. \A i \in 1..n : fallbacks'[i] \in TrueRows
        BY <1>4, <1>8, <1>14 DEF LoadsRow
    <2> QED BY <1>10, <2>1, InSequence
<1>15. Kept(rows, id) => Kept(fallbacks', id)
    <2>1. HasOwn(rows, id) => HasOwn(fallbacks', id)
        BY <1>5, <1>10, <1>11 DEF HasOwn
    <2> QED BY <2>1 DEF Kept
<1> QED BY <1>10, <1>12, <1>13, <1>14, <1>15 DEF Loaded, rows

LEMMA LoadAnswer ==
    ASSUME DialogKnown, NEW c, c \in dcalls, NEW ok, ok \in BOOLEAN, InDialog!LoadArrives(c, ok) PROVE DialogKnown'
<1>1. /\ UNCHANGED <<indialogStored, indialogDlg, dform, certs, dsaving, dsteps>>
      /\ c.kind = "load" /\ dcalls' = dcalls \ {c}
      /\ indialogExcuses \subseteq indialogExcuses' /\ (~ok => "failed" \in indialogExcuses')
      /\ "repicked" \in indialogExcuses' => "repicked" \in indialogExcuses
    BY DEF InDialog!LoadArrives, InDialog!formVars, InDialog!Excuse, InDialog!Done
<1>2. c.id \in 1..3 /\ rowKey \in Nat
    BY <1>1 DEF DialogKnown, DialogTyped, IsCall
<1>3. Loaded(c.id)
    <2>1. CASE ok
        <3>1. Loads(c.id)
            BY <2>1 DEF InDialog!LoadArrives, Loads
        <3> QED BY <1>2, <3>1, LoadedRows
    <2>2. CASE ~ok
        <3>1. fallbacks' = <<>> /\ rowKey' = rowKey
            BY <2>2 DEF InDialog!LoadArrives
        <3>2. Len(fallbacks') = 0 /\ \A R : fallbacks' \in Seq(R)
            BY <3>1
        <3> QED BY <1>1, <1>2, <2>2, <3>1, <3>2 DEF Loaded, KeysApart
    <2> QED BY <2>1, <2>2
<1>4. FlagHeld'
    <2>1. ~Holds(c)
        BY <1>1 DEF Holds, InDialog!Kinds
    <2> QED BY <1>1, <2>1, AnswerSays
<1>5. DialogTyped'
    BY <1>1, <1>3 DEF DialogKnown, DialogTyped, Loaded
<1>6. RowsTrue'
    BY <1>1, <1>3 DEF DialogKnown, RowsTrue, Loaded
<1>7. Here => Here' /\ c.id = indialogDlg.id
    <2> SUFFICES ASSUME Here PROVE Here' /\ c.id = indialogDlg.id
        OBVIOUS
    <2>1. c.id = indialogDlg.id
        BY <1>1 DEF Here, CallsHere
    <2>2. fallbacks' \in Seq(OwnRows(indialogDlg.id))
        BY <1>3, <2>1 DEF Loaded
    <2> QED BY <1>1, <2>1, <2>2 DEF Here, CallsHere, KeyHere, RowsHere, NewKey, Master
<1>8. CertsHere => CertsHere'
    BY <1>1 DEF CertsHere
<1>9. RowsKept /\ c.id = indialogDlg.id => RowsKept'
    <2> SUFFICES ASSUME RowsKept, c.id = indialogDlg.id PROVE RowsKept'
        OBVIOUS
    <2>1. ASSUME {"removed", "failed"} \cap indialogExcuses' = {} PROVE Kept(fallbacks', indialogDlg.id)
        <3>1. Kept(indialogStored[c.id].fb, c.id) /\ "failed" \notin indialogExcuses'
            BY <1>1, <1>2, <2>1 DEF RowsKept
        <3>2. Kept(fallbacks', c.id)
            BY <1>3, <3>1 DEF Loaded
        <3> QED BY <3>2
    <2>2. {"removed", "failed"} \cap indialogExcuses' = {} => {"removed", "failed"} \cap indialogExcuses = {}
        BY <1>1
    <2> QED BY <1>1, <2>1, <2>2 DEF RowsKept
<1>10. KeysKept => KeysKept'
    <2>1. InDialog!Asking("security") => InDialog!Asking("security")'
        BY <1>1 DEF InDialog!Asking
    <2> QED BY <1>1, <2>1 DEF KeysKept
<1>11. /\ None({"crossed"})' => None({"crossed"})
       /\ None({"crossed", "moved"})' => None({"crossed", "moved"})
       /\ None({"crossed", "early"})' => None({"crossed", "early"}) /\ None({"crossed"})
       /\ None({"crossed", "moved", "bare", "cleared"})' => None({"crossed", "moved", "bare", "cleared"})
    BY <1>1 DEF None
<1> QED BY <1>4, <1>5, <1>6, <1>7, <1>8, <1>9, <1>10, <1>11 DEF DialogKnown

-----------------------------------------------------------------------------
(* The save *)

LEMMA SaveFailed == ASSUME DialogKnown, NEW c, c \in dcalls, InDialog!saveFails(c) PROVE DialogKnown'
<1>1. /\ UNCHANGED <<indialogStored, indialogDlg, dform, certs, fallbacks, rowKey, indialogExcuses, dsteps>>
      /\ c.kind = "save" /\ dcalls' = dcalls \ {c} /\ dsaving' = FALSE
    BY DEF InDialog!saveFails, InDialog!formVars, InDialog!fallbackVars, InDialog!Done
<1>2. FlagHeld'
    <2>1. Holds(c)
        BY <1>1 DEF Holds, InDialog!Kinds
    <2> QED BY <1>1, <2>1, HolderSays
<1>3. DialogTyped'
    BY <1>1 DEF DialogKnown, DialogTyped
<1>4. RowsTrue'
    BY <1>1 DEF DialogKnown, RowsTrue
<1>5. InDialog!Asking("load") <=> InDialog!Asking("load")'
    BY <1>1 DEF InDialog!Asking
<1>6. InDialog!Asking("security") <=> InDialog!Asking("security")'
    BY <1>1 DEF InDialog!Asking
<1>7. Here => Here'
    BY <1>1, <1>5 DEF Here, CallsHere, KeyHere, RowsHere, NewKey, Master
<1>8. CertsHere => CertsHere'
    BY <1>1 DEF CertsHere
<1>9. RowsKept => RowsKept'
    BY <1>1, <1>5 DEF RowsKept
<1>10. KeysKept => KeysKept'
    BY <1>1, <1>6 DEF KeysKept
<1> QED BY <1>1, <1>2, <1>3, <1>4, <1>7, <1>8, <1>9, <1>10 DEF DialogKnown, None

\* The inbound is saved: its fields are the form's, its rows are still the old ones.
LEMMA SavedInbound == ASSUME DialogKnown, NEW c, c \in dcalls, InDialog!saveInbound(c) PROVE DialogKnown'
<1> DEFINE m == IF c.id = 0 THEN 3 ELSE c.id
           d == [c EXCEPT !.kind = "saveFb", !.id = m]
           host == InDialog!isFallbackHost(c.form)
<1>1. /\ UNCHANGED <<dform, certs, fallbacks, rowKey, indialogExcuses, dsteps>> /\ c.kind = "save"
      /\ IF host THEN dcalls' = (dcalls \ {c}) \cup {d} /\ indialogDlg' = indialogDlg /\ dsaving' = dsaving
         ELSE dcalls' = dcalls \ {c} /\ dsaving' = FALSE /\ indialogDlg' = [indialogDlg EXCEPT !.open = FALSE]
    BY DEF InDialog!saveInbound, InDialog!formVars, InDialog!fallbackVars, InDialog!Finish, InDialog!Done
<1>2. \E t : indialogStored' = [indialogStored EXCEPT ![m] = [tag |-> t, port |-> c.form.port, sec |-> c.form.sec,
                                                           key |-> c.form.key, fb |-> indialogStored[m].fb]]
    BY DEF InDialog!saveInbound
<1> HIDE DEF host
<1>3. /\ IsCall(c) /\ IsStored(indialogStored) /\ IsDlg(indialogDlg) /\ (dsaving \in BOOLEAN)
      /\ \A e \in dcalls : IsCall(e) /\ (e.kind = "load" \/ e.kind = "saveFb" => e.id # 0)
    BY DEF DialogKnown, DialogTyped
<1>4. m \in 1..3 /\ m = IF c.id = 0 THEN 3 ELSE c.id
    BY <1>3 DEF IsCall
<1> HIDE DEF m
<1>5. /\ IsStored(indialogStored)' /\ \A i \in 1..3 : indialogStored'[i].fb = indialogStored[i].fb
      /\ \A i \in 1..3 : i # m => indialogStored'[i] = indialogStored[i]
      /\ indialogStored'[m].sec = c.form.sec /\ indialogStored'[m].key = c.form.key
    <2>1. PICK t : indialogStored' = [indialogStored EXCEPT ![m] = [tag |-> t, port |-> c.form.port, sec |-> c.form.sec,
                                                           key |-> c.form.key, fb |-> indialogStored[m].fb]]
        BY <1>2
    <2> DEFINE r == [tag |-> t, port |-> c.form.port, sec |-> c.form.sec, key |-> c.form.key, fb |-> indialogStored[m].fb]
    <2>2. r = [tag |-> r.tag, port |-> r.port, sec |-> r.sec, key |-> r.key, fb |-> r.fb]
          /\ r.sec = c.form.sec /\ r.key = c.form.key /\ r.fb = indialogStored[m].fb
        OBVIOUS
    <2>3. indialogStored' = [indialogStored EXCEPT ![m] = r]
        BY <2>1
    <2> HIDE DEF r
    <2>4. IsInbound(r)
        BY <1>3, <1>4, <2>2 DEF IsInbound, IsStored
    <2>5. /\ indialogStored' = [i \in 1..3 |-> indialogStored'[i]]
          /\ \A i \in 1..3 : indialogStored'[i] = IF i = m THEN r ELSE indialogStored[i]
        BY <1>3, <1>4, <2>3 DEF IsStored
    <2>6. IsStored(indialogStored)'
        BY <1>3, <2>4, <2>5 DEF IsStored
    <2> QED BY <1>4, <2>2, <2>5, <2>6
<1>6. /\ d = [kind |-> "saveFb", n |-> c.n, id |-> m, i |-> c.i, row |-> c.row, form |-> c.form, fb |-> c.fb]
    <2>1. c = [kind |-> c.kind, n |-> c.n, id |-> c.id, i |-> c.i, row |-> c.row, form |-> c.form, fb |-> c.fb]
        BY <1>3 DEF IsCall
    <2>2. /\ d.kind = "saveFb" /\ d.n = c.n /\ d.id = m /\ d.i = c.i /\ d.row = c.row /\ d.form = c.form /\ d.fb = c.fb
        BY <2>1
    <2>3. d = [kind |-> d.kind, n |-> d.n, id |-> d.id, i |-> d.i, row |-> d.row, form |-> d.form, fb |-> d.fb]
        <3>1. DOMAIN c = {"kind", "n", "id", "i", "row", "form", "fb"}
            BY <2>1
        <3>2. DOMAIN d = DOMAIN c /\ d = [x \in DOMAIN c |-> d[x]]
            OBVIOUS
        <3> HIDE DEF d
        <3>3. d = [x \in {"kind", "n", "id", "i", "row", "form", "fb"} |-> d[x]]
            BY <3>1, <3>2
        <3> QED BY <3>3
    <2> QED BY <2>2, <2>3
<1> HIDE DEF d
<1>7. IsCall(d) /\ d.kind = "saveFb" /\ d.id = m /\ d.id # 0 /\ d.n = c.n /\ d.fb = c.fb
    <2>1. d.kind = "saveFb" /\ d.n = c.n /\ d.id = m /\ d.i = c.i /\ d.row = c.row /\ d.form = c.form /\ d.fb = c.fb
        BY <1>6
    <2>2. m \in 0..3 /\ m # 0
        BY <1>4
    <2>3. d = [kind |-> d.kind, n |-> d.n, id |-> d.id, i |-> d.i, row |-> d.row, form |-> d.form, fb |-> d.fb]
        BY <1>6, <2>1
    <2> QED BY <1>3, <2>1, <2>2, <2>3 DEF IsCall
<1>8. /\ dcalls' \subseteq (dcalls \ {c}) \cup {d} /\ dcalls \ {c} \subseteq dcalls'
      /\ indialogDlg'.id = indialogDlg.id /\ indialogDlg'.n = indialogDlg.n /\ IsDlg(indialogDlg)' /\ dsaving' \in BOOLEAN
      /\ indialogDlg'.open => indialogDlg'.n # 0
    <2>1. CASE host
        BY <1>1, <1>3, <2>1 DEF DialogKnown, DialogTyped
    <2>2. CASE ~host
        <3>1. indialogDlg' = [indialogDlg EXCEPT !.open = FALSE]
            BY <1>1, <2>2
        <3>2. indialogDlg'.open = FALSE /\ indialogDlg'.id = indialogDlg.id /\ indialogDlg'.n = indialogDlg.n /\ IsDlg(indialogDlg)'
            BY <1>3, <3>1 DEF IsDlg
        <3> QED BY <1>1, <2>2, <3>2
    <2> QED BY <2>1, <2>2
<1>9. Holds(c) /\ Holds(d) /\ \A e \in dcalls : Holds(e) => e = c
    <2>1. Holds(c) /\ Holds(d)
        BY <1>1, <1>7 DEF Holds, InDialog!Kinds
    <2> QED BY <2>1 DEF DialogKnown, FlagHeld
<1>10. FlagHeld'
    <2>1. CASE host
        <3>1. dsaving' = TRUE
            BY <1>1, <1>3, <1>9, <2>1 DEF DialogKnown, FlagHeld
        <3> QED BY <1>1, <1>9, <2>1, <3>1 DEF FlagHeld
    <2>2. CASE ~host
        BY <1>1, <1>9, <2>2, HolderSays
    <2> QED BY <2>1, <2>2
<1>11. DialogTyped'
    <2>1. \A e \in dcalls' : IsCall(e) /\ (e.kind = "load" \/ e.kind = "saveFb" => e.id # 0)
        BY <1>3, <1>7, <1>8
    <2> QED BY <1>1, <1>5, <1>8, <2>1 DEF DialogKnown, DialogTyped
<1>12. RowsTrue'
    BY <1>1, <1>5, <1>7, <1>8 DEF DialogKnown, RowsTrue
<1>13. InDialog!Asking("load") <=> InDialog!Asking("load")'
    BY <1>1, <1>7, <1>8 DEF InDialog!Asking
<1>14. InDialog!Asking("security") <=> InDialog!Asking("security")'
    BY <1>1, <1>7, <1>8 DEF InDialog!Asking
<1>15. Here => Here' /\ m = Master
    <2> SUFFICES ASSUME Here PROVE Here' /\ m = Master
        OBVIOUS
    <2>1. /\ c.id = indialogDlg.id /\ c.n = indialogDlg.n /\ (NewKey(dform.key) \/ dform.key = c.form.key)
        BY <1>1 DEF Here, CallsHere
    <2>2. m = Master
        BY <1>4, <2>1 DEF Master
    <2>3. KeyHere'
        <3>1. CASE NewKey(dform.key)
            BY <1>1, <1>8, <3>1 DEF KeyHere, NewKey
        <3>2. CASE ~NewKey(dform.key)
            <4>1. indialogDlg.id # 0 /\ m = indialogDlg.id
                BY <2>2, <3>2 DEF Here, KeyHere, Master
            <4> QED BY <1>1, <1>5, <1>8, <2>1, <3>2, <4>1 DEF KeyHere
        <3> QED BY <3>1, <3>2
    <2>4. \A e \in dcalls' : e = d \/ (e \in dcalls /\ e.kind # "save")
        <3>1. \A e : e.kind = "save" => Holds(e)
            BY DEF Holds, InDialog!Kinds
        <3> QED BY <1>8, <1>9, <3>1
    <2>5. CallsHere'
        BY <1>7, <1>8, <2>1, <2>2, <2>4 DEF Here, CallsHere, Master
    <2>6. RowsHere'
        BY <1>1, <1>8, <1>13 DEF Here, RowsHere
    <2> QED BY <2>2, <2>3, <2>5, <2>6 DEF Here
<1>16. CertsHere => CertsHere'
    BY <1>1, <1>7, <1>8 DEF CertsHere
<1>17. RowsKept => RowsKept'
    <2>1. \A e \in dcalls' : Sends(e) => \E g \in dcalls : Sends(g) /\ g.fb = e.fb
        BY <1>1, <1>7, <1>8 DEF Sends
    <2> QED BY <1>1, <1>5, <1>8, <1>13, <2>1 DEF RowsKept
<1>18. KeysKept => KeysKept'
    <2>1. KeysKept => \A i \in 1..3 : Keyed(indialogStored'[i])
        BY <1>1, <1>5 DEF KeysKept, Keyed
    <2>2. \A e \in dcalls' : e.kind = "save" => e \in dcalls
        BY <1>7, <1>8
    <2> QED BY <1>1, <1>14, <2>1, <2>2 DEF KeysKept
<1> QED BY <1>1, <1>10, <1>11, <1>12, <1>15, <1>16, <1>17, <1>18 DEF DialogKnown, None

\* The rows are saved, or that call failed: the dialog closes.
LEMMA SavedFallbacks ==
    ASSUME DialogKnown, NEW c, c \in dcalls, NEW ok, ok \in BOOLEAN, InDialog!saveFallbacks(c, ok) PROVE DialogKnown'
<1> DEFINE T == {r \in InDialog!ToSet(c.fb) : r.child # "none"}
           new == InDialog!Only(c.fb, T)
<1>1. /\ UNCHANGED <<dform, certs, fallbacks, rowKey, indialogExcuses, dsteps>> /\ c.kind = "saveFb"
      /\ dcalls' = dcalls \ {c} /\ dsaving' = FALSE /\ indialogDlg' = [indialogDlg EXCEPT !.open = FALSE]
      /\ indialogStored' = IF ok THEN [indialogStored EXCEPT ![c.id].fb = new] ELSE indialogStored
    BY DEF InDialog!saveFallbacks, InDialog!formVars, InDialog!fallbackVars, InDialog!Finish, InDialog!Done
<1>2. /\ IsCall(c) /\ c.id \in 1..3 /\ IsStored(indialogStored) /\ IsDlg(indialogDlg) /\ c.fb \in Seq(CardRows)
    BY <1>1 DEF DialogKnown, DialogTyped, IsCall
<1>3. Keeps(new, c.fb, CardRows, T, Len(c.fb))
    BY <1>2, InDialogOnly
<1>4. new \in Seq(CardRows) /\ \A R : c.fb \in Seq(R) => new \in Seq(R)
    <2>1. \A R : c.fb \in Seq(R) => Keeps(new, c.fb, R, T, Len(c.fb))
        BY InDialogOnly
    <2> QED BY <1>3, <2>1 DEF Keeps
<1>5. \A id : HasOwn(c.fb, id) => HasOwn(new, id)
    <2> SUFFICES ASSUME NEW id, HasOwn(c.fb, id) PROVE HasOwn(new, id)
        OBVIOUS
    <2>1. PICK i \in 1..Len(c.fb) : c.fb[i].own = id /\ c.fb[i].child # "none"
        BY DEF HasOwn
    <2>2. c.fb[i] \in T
        BY <1>2, <2>1, InSequence
    <2>3. PICK j \in 1..Len(new) : new[j] = c.fb[i]
        BY <1>3, <2>2 DEF Keeps
    <2> QED BY <2>1, <2>3 DEF HasOwn
<1> HIDE DEF new
<1>6. /\ IsStored(indialogStored)' /\ \A i \in 1..3 : i # c.id => indialogStored'[i] = indialogStored[i]
      /\ \A i \in 1..3 : indialogStored'[i].sec = indialogStored[i].sec /\ indialogStored'[i].key = indialogStored[i].key
      /\ indialogStored'[c.id].fb = new \/ indialogStored'[c.id].fb = indialogStored[c.id].fb
    <2>1. CASE ~ok
        BY <1>1, <1>2, <2>1 DEF IsStored
    <2>2. CASE ok
        <3> DEFINE o == indialogStored[c.id]
                   r == [o EXCEPT !.fb = new]
        <3>1. o = [tag |-> o.tag, port |-> o.port, sec |-> o.sec, key |-> o.key, fb |-> o.fb]
            BY <1>2 DEF IsStored, IsInbound
        <3>2. indialogStored' = [indialogStored EXCEPT ![c.id] = r]
            BY <1>1, <2>2
        <3> HIDE DEF o
        <3>3. r.sec = o.sec /\ r.key = o.key /\ r.fb = new
              /\ r = [tag |-> r.tag, port |-> r.port, sec |-> r.sec, key |-> r.key, fb |-> r.fb]
            BY <3>1
        <3> HIDE DEF r
        <3>4. IsInbound(r)
            BY <1>4, <3>3 DEF IsInbound
        <3>5. /\ indialogStored' = [i \in 1..3 |-> indialogStored'[i]]
              /\ \A i \in 1..3 : indialogStored'[i] = IF i = c.id THEN r ELSE indialogStored[i]
            BY <1>2, <3>2 DEF IsStored
        <3>6. IsStored(indialogStored)'
            BY <1>2, <3>4, <3>5 DEF IsStored
        <3> QED BY <1>2, <3>3, <3>5, <3>6 DEF o
    <2> QED BY <2>1, <2>2
<1>7. indialogDlg'.open = FALSE /\ indialogDlg'.id = indialogDlg.id /\ indialogDlg'.n = indialogDlg.n /\ IsDlg(indialogDlg)'
    BY <1>1, <1>2 DEF IsDlg
<1>8. FlagHeld'
    <2>1. Holds(c)
        BY <1>1 DEF Holds, InDialog!Kinds
    <2> QED BY <1>1, <2>1, HolderSays
<1>9. DialogTyped'
    BY <1>1, <1>6, <1>7 DEF DialogKnown, DialogTyped
<1>10. RowsTrue'
    <2>1. ASSUME "repicked" \notin indialogExcuses
          PROVE  /\ fallbacks \in Seq(TrueRows) /\ \A e \in dcalls' : e.fb \in Seq(TrueRows)
                 /\ \A i \in 1..3 : indialogStored'[i].fb \in Seq(TrueRows)
        <3>1. /\ fallbacks \in Seq(TrueRows) /\ \A e \in dcalls : e.fb \in Seq(TrueRows)
              /\ \A i \in 1..3 : indialogStored[i].fb \in Seq(TrueRows)
            BY <2>1 DEF DialogKnown, RowsTrue
        <3>2. new \in Seq(TrueRows)
            BY <1>4, <3>1
        <3> QED BY <1>1, <1>6, <3>1, <3>2
    <2> QED BY <1>1, <2>1 DEF DialogKnown, RowsTrue
<1>11. InDialog!Asking("load") <=> InDialog!Asking("load")'
    BY <1>1 DEF InDialog!Asking
<1>12. InDialog!Asking("security") <=> InDialog!Asking("security")'
    BY <1>1 DEF InDialog!Asking
<1>13. Here => Here' /\ c.id = Master
    <2> SUFFICES ASSUME Here PROVE Here' /\ c.id = Master
        OBVIOUS
    <2>1. c.id = Master
        BY <1>1 DEF Here, CallsHere
    <2>2. CallsHere' /\ RowsHere'
        BY <1>1, <1>7, <1>11 DEF Here, CallsHere, RowsHere, NewKey, Master
    <2>3. KeyHere'
        <3>1. indialogDlg.id # 0 => indialogDlg.id \in 1..3
            BY <1>2 DEF IsDlg
        <3> QED BY <1>1, <1>6, <1>7, <3>1 DEF Here, KeyHere, NewKey
    <2> QED BY <2>1, <2>2, <2>3 DEF Here
<1>14. CertsHere => CertsHere'
    BY <1>1 DEF CertsHere
<1>15. RowsKept /\ c.id = Master => RowsKept'
    <2> SUFFICES ASSUME RowsKept, c.id = Master PROVE RowsKept'
        OBVIOUS
    <2>1. Sends(c)
        BY <1>1 DEF Sends
    <2>2. new \in Seq(OwnRows(c.id))
        <3>1. c.fb \in Seq(OwnRows(indialogDlg.id))
            BY <2>1 DEF RowsKept
        <3>2. \A r \in OwnRows(indialogDlg.id) : r \in OwnRows(c.id)
            BY DEF Master, OwnRows
        <3>3. c.fb \in Seq(OwnRows(c.id))
            BY <1>2, <3>1, <3>2, InSequence
        <3> QED BY <1>4, <3>3
    <2>3. \A i \in 1..3 : indialogStored'[i].fb \in Seq(OwnRows(i))
        BY <1>6, <2>2 DEF RowsKept
    <2>4. ASSUME {"removed", "failed"} \cap indialogExcuses = {} PROVE \A i \in 1..3 : Kept(indialogStored'[i].fb, i)
        <3>1. Kept(c.fb, indialogDlg.id) /\ \A i \in 1..3 : Kept(indialogStored[i].fb, i)
            BY <2>1, <2>4 DEF RowsKept
        <3>2. Kept(new, c.id)
            BY <1>5, <3>1 DEF Kept, Master
        <3> QED BY <1>6, <3>1, <3>2
    <2> QED BY <1>1, <1>7, <1>11, <2>3, <2>4 DEF RowsKept
<1>16. KeysKept => KeysKept'
    BY <1>1, <1>6, <1>12 DEF KeysKept, Keyed
<1>17. None({"crossed", "early"}) => None({"crossed"})
    BY DEF None
<1> QED BY <1>1, <1>8, <1>9, <1>10, <1>13, <1>14, <1>15, <1>16, <1>17 DEF DialogKnown, None

LEMMA NextDialog == ASSUME DialogKnown, [InDialog!Next]_indialogVars PROVE DialogKnown'
<1>1. ASSUME UNCHANGED indialogVars PROVE DialogKnown'
    BY <1>1 DEF DialogKnown, DialogTyped, FlagHeld, RowsTrue, Here, CallsHere, KeyHere, RowsHere, NewKey, Master, CertsHere,
                RowsKept, KeysKept, None, InDialog!Asking, indialogVars
<1>2. ASSUME NEW id \in 0..3, InDialog!Open(id) PROVE DialogKnown'
    BY <1>2, OpenActs
<1>3. ASSUME InDialog!Close \/ InDialog!TypeTag(<<"custom", 0>>) \/ \E p \in 1..3 : InDialog!SetPort(p) PROVE DialogKnown'
    BY <1>3, QuietActs
<1>4. ASSUME NEW s, InDialog!onSecurityChange(s) PROVE DialogKnown'
    BY <1>4, SecurityActs
<1>5. ASSUME InDialog!genRealityKeypair \/ InDialog!submit \/ \E i \in 1..2 : InDialog!setCertFromPanel(i) PROVE DialogKnown'
    BY <1>5, FormAsks
<1>6. ASSUME InDialog!clearRealityKeypair PROVE DialogKnown'
    BY <1>6, ClearActs
<1>7. ASSUME InDialog!AddCert \/ \E i \in 1..2 : InDialog!RemoveCert(i) PROVE DialogKnown'
    BY <1>7, CertActs
<1>8. ASSUME InDialog!addFallback \/ InDialog!addAllFallbacks PROVE DialogKnown'
    BY <1>8, AddRow, AddAllRows
<1>9. ASSUME NEW k, InDialog!typeFallback(k) \/ \E child \in InDialog!Children : InDialog!updateFallback(k, child) PROVE DialogKnown'
    BY <1>9, TypeRow, UpdateRow
<1>10. ASSUME NEW i \in DOMAIN fallbacks, InDialog!removeFallback(i) \/ \E d \in {-1, 1} : InDialog!moveFallback(i, d)
       PROVE  DialogKnown'
    BY <1>10, RemoveRow, MoveRow
<1>11. ASSUME NEW c \in dcalls, NEW ok \in BOOLEAN,
              InDialog!KeysArrive(c, ok) \/ InDialog!CertArrives(c, ok) \/ InDialog!LoadArrives(c, ok) \/ InDialog!saveFallbacks(c, ok)
       PROVE  DialogKnown'
    BY <1>11, KeysAnswer, CertAnswer, LoadAnswer, SavedFallbacks
<1>12. ASSUME NEW c \in dcalls, InDialog!saveInbound(c) \/ InDialog!saveFails(c) PROVE DialogKnown'
    BY <1>12, SavedInbound, SaveFailed
<1> QED BY <1>1, <1>2, <1>3, <1>4, <1>5, <1>6, <1>7, <1>8, <1>9, <1>10, <1>11, <1>12 DEF InDialog!Next

-----------------------------------------------------------------------------
(* The forms and pages side by side *)

\* A step of the module is a step of each part or leaves it alone.
LEMMA PartsStep ==
    ASSUME [CallsNext]_callsVars
    PROVE  /\ [InDialog!Next]_indialogVars /\ [InPage!Next]_inpageVars /\ [NodesP!Next]_nodesVars
           /\ [GroupsP!Next]_groupsVars /\ [ClEdit!Next]_cleditVars
<1>1. CASE IndialogNext
    BY <1>1 DEF IndialogNext
<1>2. CASE InpageNext
    BY <1>2 DEF InpageNext
<1>3. CASE NodesNext
    BY <1>3 DEF NodesNext
<1>4. CASE GroupsNext
    BY <1>4 DEF GroupsNext
<1>5. CASE CleditNext
    BY <1>5 DEF CleditNext
<1>6. CASE UNCHANGED callsVars
    BY <1>6 DEF callsVars
<1> QED
    BY <1>1, <1>2, <1>3, <1>4, <1>5, <1>6 DEF CallsNext

PagesInv ==
    /\ DialogKnown /\ PromiseKnown /\ SelectionKnown
    /\ ClientInv /\ ClientKnown
    /\ NodesTyped /\ NodesKnown
    /\ GroupsKnown

\* The inbound dialog, the inbounds page, the client's form, the nodes page and
\* the groups page keep what ties each call under way to the form, the dialog or
\* the selection it was made from.
THEOREM PagesHold == CallsSpec => []PagesInv
<1>1. CallsInit => PagesInv
    <2> SUFFICES ASSUME CallsInit PROVE PagesInv
        OBVIOUS
    <2>1. InDialog!Init /\ InPage!Init /\ ClEdit!Init /\ NodesP!Init /\ GroupsP!Init
        BY DEF CallsInit
    <2> QED BY <2>1, InitDialog, InitPromise, InitClient, InitClientKnown, InitNodes, InitGroups DEF PagesInv
<1>2. PagesInv /\ [CallsNext]_callsVars => PagesInv'
    <2> SUFFICES ASSUME PagesInv, [CallsNext]_callsVars PROVE PagesInv'
        OBVIOUS
    <2>1. /\ [InDialog!Next]_indialogVars /\ [InPage!Next]_inpageVars /\ [ClEdit!Next]_cleditVars
          /\ [NodesP!Next]_nodesVars /\ [GroupsP!Next]_groupsVars
        BY PartsStep
    <2>2. DialogKnown' /\ PromiseKnown' /\ SelectionKnown'
        BY <2>1, NextDialog, NextPage DEF PagesInv
    <2>3. ClientInv' /\ ClientTyped
        BY <2>1, NextClient DEF PagesInv, ClientInv, ClientKnown
    <2>4. ClientKnown'
        BY <2>1, <2>3, NextClientKnown DEF PagesInv
    <2>5. NodesTyped' /\ NodesKnown' /\ GroupsKnown'
        BY <2>1, NextNodes, NextGroups DEF PagesInv
    <2> QED BY <2>2, <2>3, <2>4, <2>5 DEF PagesInv
<1> QED
    BY <1>1, <1>2, PTL DEF CallsSpec

\* A late answer lands where it was asked for: in the form of the inbound dialog
\* that asked, with its own fallback rows; a confirmation's promise is settled and
\* attaches the target's own selection; a client is saved under its own
\* credentials, on the inbounds its form shows, and an overwritten edit has a
\* cause; a node keeps its form until its save has ended, and its own pin; a
\* dialog on the clients of a group acts on the group it was opened for.
THEOREM AnswersLandHolds == CallsSpec => []AnswersLand
<1>1. PagesInv => AnswersLand
    <2> SUFFICES ASSUME PagesInv PROVE AnswersLand
        OBVIOUS
    <2>1. /\ InDialog!OneCallAtATime /\ InDialog!AnswersLand /\ InDialog!FallbacksStay
          /\ InDialog!NoBareReality /\ InDialog!RowsAreDistinct
        BY DialogSays DEF PagesInv
    <2>2. InPage!PromiseSettles /\ InPage!AttachedOwn
        BY DEF PagesInv, PromiseKnown, SelectionKnown
    <2>3. ClEdit!SavedMeansAttached
        BY ClientInvSays DEF PagesInv
    <2>4. ClEdit!CredentialsKept /\ ClEdit!OverwrittenHasCause /\ ClEdit!FormOfOneClient
        BY ClientKnownSays DEF PagesInv
    <2>5. /\ NodesP!SubmitHoldsForm /\ NodesP!ResultIsOfForm /\ NodesP!PinIsOfItsAddress
          /\ NodesP!OneConfirmedCall /\ NodesP!OverlaidHasCause
        BY NodesSay DEF PagesInv
    <2>6. GroupsP!ActsOnOpened /\ GroupsP!RemovalHasCause /\ GroupsP!OneConfirmedGroup
        BY GroupsSay DEF PagesInv
    <2> QED BY <2>1, <2>2, <2>3, <2>4, <2>5, <2>6 DEF AnswersLand
<1> QED
    BY <1>1, PagesHold, PTL
=============================================================================
