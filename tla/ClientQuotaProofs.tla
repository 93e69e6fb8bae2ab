-------------------------- MODULE ClientQuotaProofs --------------------------
(***************************************************************************)
(* Safety of the limits of a client for any number of inbounds, any plans  *)
(* an administrator can save, and any bounds on the clock, the usage, the  *)
(* edits and the failures.                                                 *)
(***************************************************************************)
EXTENDS ClientQuota, TLAPS

DbType == [settings : [Inbounds -> PlanType], record : PlanType, row : RowType]

Limits(p) == <<p.total, p.expiry, p.reset>>

\* The three copies of the plan agree, on the switch as well; only the row may
\* be enabled alone, by a reset.
Whole(d) ==
    /\ \A i \in Inbounds : /\ Limits(d.settings[i]) = Limits(d.row)
                           /\ d.settings[i].enable = d.record.enable
    /\ Limits(d.record) = Limits(d.row)
    /\ d.record.enable => d.row.enable

\* An edit to plan p that has still to reach the inbounds of todo.
Written(d, p, todo) ==
    /\ \A i \in Inbounds \ todo : /\ Limits(d.settings[i]) = Limits(p)
                                  /\ d.settings[i].enable = p.enable
    /\ Limits(d.record) = Limits(p) /\ d.record.enable = p.enable
    /\ Limits(d.row) = Limits(p)
    /\ d.record.enable => d.row.enable

\* No edit has written anything yet.
Unwritten == edit.step = "idle" \/ edit.todo = Inbounds

\* An edit is at an inbound it has still to do; only an edit and a reset under way
\* remember a restart to ask for.
OpInv ==
    /\ edit.step = "commit" => edit.at \in edit.todo
    /\ edit.step = "idle" => ~edit.need
    /\ reset.step = "idle" => ~reset.need

\* Unless a write was lost the copies agree between operations, and an edit has
\* read what is still there.
CopyInv ==
    ~torn =>
        /\ IF Unwritten THEN Whole(db) ELSE Written(db, edit.to, edit.todo)
        /\ edit.step = "commit" => edit.old = db.settings[edit.at].enable

\* A restart is due, or under way, or an operation will ask for one.
Pending == need \/ forced \/ restart.step # "idle" \/ edit.need \/ reset.need

\* With no restart to come the core serves what the database says; where an edit
\* has been it has the new state, and where an edit that disables the client has
\* still to go, only a client it will find enabled.
CoreInv ==
    (cause = "none" /\ ~torn /\ ~Pending) =>
        /\ Unwritten => served = GetXrayConfig(db)
        /\ ~Unwritten =>
            /\ \A i \in Inbounds \ edit.todo : i \in served <=> edit.to.enable
            /\ \A i \in edit.todo : i \in served /\ ~edit.to.enable => db.settings[i].enable

IInv == TypeOK /\ OpInv /\ CopyInv /\ CoreInv

-----------------------------------------------------------------------------
(* What the operators of the traffic poll do to the copies *)

LEMMA MultipleHasNoRest ==
    ASSUME NEW k \in Int, NEW r \in Int, r > 0
    PROVE  (r * k) % r = 0
<1> DEFINE x == r * k
           q == x \div r
           m == x % r
<1>1. x \in Int /\ q \in Int /\ m \in Int /\ x = r * q + m /\ 0 <= m /\ m < r
    OBVIOUS
<1>2. r * (k - q) = m
    BY <1>1
<1>3. CASE k - q >= 1
    <2>1. r * (k - q) >= r
        BY <1>1, <1>3
    <2> QED
        BY <1>1, <1>2, <2>1
<1>4. CASE k - q <= -1
    <2>1. r * (k - q) <= -r
        BY <1>1, <1>4
    <2> QED
        BY <1>1, <1>2, <2>1
<1>5. CASE k - q = 0
    BY <1>1, <1>2, <1>5
<1> QED
    BY <1>1, <1>3, <1>4, <1>5

\* The loop of the renewal ends at a date, which is not in the past.
LEMMA NextDate ==
    ASSUME NEW x \in Int, NEW n \in Int, NEW r \in Int, r > 0, x <= n
    PROVE  \E e \in x..(n + r) : e >= n /\ e - r < n /\ (e - x) % r = 0
<1> DEFINE a == n - x
           q == a \div r
           m == a % r
<1>1. a \in Int /\ a >= 0
    OBVIOUS
<1>2. q \in Int /\ m \in Int /\ a = r * q + m /\ 0 <= m /\ m < r
    <2> HIDE DEF a
    <2> QED
        BY <1>1
<1>3. a - m = r * q /\ r * (q + 1) = r * q + r
    <2> HIDE DEF a, q, m
    <2> QED
        BY <1>1, <1>2
<1>4. m <= a
    <2> HIDE DEF a
    <2> QED
        BY <1>1
<1>5. CASE m = 0
    <2>1. n \in x..(n + r)
        OBVIOUS
    <2> QED
        BY <1>5, <2>1
<1>6. CASE m # 0
    <2> DEFINE e == n - m + r
    <2>1. e - x = r * (q + 1)
        <3> HIDE DEF q, m
        <3> QED
            BY <1>2, <1>3
    <2>2. (r * (q + 1)) % r = 0
        <3>1. q + 1 \in Int
            BY <1>2
        <3> HIDE DEF q
        <3> QED
            BY <3>1, MultipleHasNoRest
    <2>3. e \in x..(n + r) /\ e >= n /\ e - r < n
        <3> HIDE DEF m
        <3> QED
            BY <1>1, <1>2, <1>4, <1>6
    <2> QED
        BY <2>1, <2>2, <2>3
<1> QED
    BY <1>5, <1>6

LEMMA NewExpirySays ==
    ASSUME NEW r \in RowType, Renewable(r), now \in Nat
    PROVE  NewExpiry(r) \in Int /\ NewExpiry(r) >= now
<1>1. r.expiry \in Int /\ r.reset \in Int /\ r.reset > 0 /\ r.expiry <= now
    BY DEF RowType, Renewable
<1>2. \E e \in r.expiry..(now + r.reset) :
        e >= now /\ e - r.reset < now /\ (e - r.expiry) % r.reset = 0
    <2> DEFINE x == r.expiry
               s == r.reset
    <2>1. x \in Int /\ s \in Int /\ s > 0 /\ x <= now /\ now \in Int
        BY <1>1
    <2> HIDE DEF x, s
    <2>2. \E e \in x..(now + s) : e >= now /\ e - s < now /\ (e - x) % s = 0
        BY <2>1, NextDate
    <2> QED
        BY <2>2 DEF x, s
<1>3. NewExpiry(r) \in r.expiry..(now + r.reset) /\ NewExpiry(r) >= now
    BY <1>2 DEF NewExpiry
<1> QED
    BY <1>1, <1>3

\* A delayed start rewrites the expiry in all the copies, and nothing else.
LEMMA AdjustSays ==
    ASSUME NEW d \in DbType, NEW last \in Inbounds, now \in Nat, NEW f, f = adjustTraffics(d, last)
    PROVE  /\ f \in DbType /\ f.row.enable = d.row.enable /\ f.row.used = d.row.used
           /\ Whole(d) => Whole(f) /\ f.record.enable = d.record.enable
<1>1. CASE d.row.expiry < 0
    <2> DEFINE expiry == now - d.row.expiry
               settings == [i \in Inbounds |-> [d.settings[i] EXCEPT !.expiry = expiry]]
               row == [d.row EXCEPT !.expiry = expiry]
    <2>1. expiry \in Int
        BY DEF DbType, RowType
    <2>2. f = [settings |-> settings, record |-> settings[last], row |-> row]
        BY <1>1 DEF adjustTraffics, SyncInbounds, DbType
    <2> HIDE DEF expiry
    <2>3. /\ \A i \in Inbounds : /\ settings[i] \in PlanType
                                 /\ settings[i].enable = d.settings[i].enable
                                 /\ settings[i].total = d.settings[i].total
                                 /\ settings[i].reset = d.settings[i].reset
                                 /\ settings[i].expiry = expiry
          /\ settings \in [Inbounds -> PlanType]
        BY <2>1 DEF DbType, PlanType
    <2>4. /\ row \in RowType /\ row.enable = d.row.enable /\ row.used = d.row.used
          /\ row.total = d.row.total /\ row.reset = d.row.reset /\ row.expiry = expiry
        BY <2>1 DEF DbType, RowType
    <2> HIDE DEF settings, row
    <2>5. f \in DbType
        BY <2>2, <2>3, <2>4 DEF DbType
    <2>6. Whole(d) => Whole(f) /\ f.record.enable = d.record.enable
        BY <2>2, <2>3, <2>4 DEF Whole, Limits
    <2> QED
        BY <2>2, <2>4, <2>5, <2>6
<1>2. CASE ~(d.row.expiry < 0)
    BY <1>2 DEF adjustTraffics
<1> QED
    BY <1>1, <1>2

\* Accounting adds to the usage of the row.
LEMMA AccountSays ==
    ASSUME NEW d \in DbType, NEW n \in Nat, d.row.used + n <= MaxUsed, NEW last \in Inbounds,
           now \in Nat, NEW f, f = addClientTraffic(d, n, last)
    PROVE  /\ f \in DbType /\ f.row.enable = d.row.enable
           /\ Whole(d) => Whole(f) /\ f.record.enable = d.record.enable
<1> DEFINE g == adjustTraffics(d, last)
<1>1. /\ g \in DbType /\ g.row.enable = d.row.enable /\ g.row.used = d.row.used
      /\ Whole(d) => Whole(g) /\ g.record.enable = d.record.enable
    BY AdjustSays
<1>2. f = [g EXCEPT !.row.used = @ + n]
    BY DEF addClientTraffic
<1> HIDE DEF g
<1>3. /\ f.settings = g.settings /\ f.record = g.record /\ f.row.enable = g.row.enable
      /\ Limits(f.row) = Limits(g.row)
    BY <1>1, <1>2 DEF DbType, RowType, Limits
<1>4. f \in DbType
    <2>1. g.row.used + n \in 0..MaxUsed
        BY <1>1, BoundsAssumption DEF DbType, RowType
    <2> QED
        BY <1>1, <1>2, <2>1 DEF DbType, RowType
<1> QED
    BY <1>1, <1>3, <1>4 DEF Whole

\* A renewal never switches a client off; what it switches on it switches on in
\* the row, the record when the inbound it enables is the last, and that inbound.
LEMMA RenewSays ==
    ASSUME NEW d \in DbType, NEW first \in Inbounds, NEW last \in Inbounds, now \in Nat,
           NEW f, f = autoRenewClients(d, first, last)
    PROVE  /\ f \in DbType /\ (d.row.enable => f.row.enable)
           /\ Whole(d) /\ d.row.enable = f.row.enable =>
                Whole(f) /\ f.record.enable = d.record.enable
           /\ Whole(d) /\ ~d.row.enable /\ f.row.enable /\ Inbounds = {first} =>
                Whole(f) /\ f.record.enable
<1>1. CASE Renewable(d.row)
    <2> DEFINE expiry == NewExpiry(d.row)
               settings == [i \in Inbounds |->
                      [d.settings[i] EXCEPT !.expiry = expiry,
                          !.enable = @ \/ (~d.row.enable /\ i = first)]]
               row == [d.row EXCEPT !.enable = TRUE, !.expiry = expiry, !.used = 0]
    <2>1. expiry \in Int
        BY <1>1, NewExpirySays DEF DbType
    <2>2. f = [settings |-> settings, record |-> settings[last], row |-> row]
        <3>1. f = SyncInbounds(
               [d EXCEPT !.settings = settings, !.row.enable = TRUE,
                         !.row.expiry = expiry, !.row.used = 0], last)
            BY <1>1 DEF autoRenewClients
        <3> HIDE DEF settings, expiry
        <3> QED
            BY <3>1 DEF SyncInbounds, DbType
    <2> HIDE DEF expiry
    <2>3. ASSUME NEW i \in Inbounds
          PROVE  /\ settings[i] \in PlanType
                 /\ settings[i].enable = (d.settings[i].enable \/ (~d.row.enable /\ i = first))
                 /\ settings[i].total = d.settings[i].total
                 /\ settings[i].reset = d.settings[i].reset
                 /\ settings[i].expiry = expiry
        <3> DEFINE on == d.settings[i].enable \/ (~d.row.enable /\ i = first)
        <3>1. settings[i] = [d.settings[i] EXCEPT !.expiry = expiry, !.enable = on]
            OBVIOUS
        <3>2. d.settings[i] \in PlanType /\ on \in BOOLEAN
            BY DEF DbType
        <3> HIDE DEF settings, on
        <3>3. /\ settings[i] \in PlanType /\ settings[i].enable = on
              /\ settings[i].total = d.settings[i].total
              /\ settings[i].reset = d.settings[i].reset
              /\ settings[i].expiry = expiry
            BY <2>1, <3>1, <3>2 DEF PlanType
        <3> QED
            BY <3>3 DEF on
    <2>4. settings \in [Inbounds -> PlanType]
        BY <2>3
    <2>5. /\ row \in RowType /\ row.enable = TRUE
          /\ row.total = d.row.total /\ row.reset = d.row.reset /\ row.expiry = expiry
        <3>1. 0 \in 0..MaxUsed /\ d.row \in RowType
            BY BoundsAssumption DEF DbType
        <3> QED
            BY <2>1, <3>1 DEF RowType
    <2> HIDE DEF settings, row
    <2>6. f \in DbType
        BY <2>2, <2>3, <2>4, <2>5 DEF DbType
    <2>7. f.settings = settings /\ f.record = settings[last] /\ f.row = row
        BY <2>2
    <2>8. Whole(d) /\ d.row.enable = f.row.enable => Whole(f) /\ f.record.enable = d.record.enable
        <3> SUFFICES ASSUME Whole(d), d.row.enable = f.row.enable
                     PROVE  Whole(f) /\ f.record.enable = d.record.enable
            OBVIOUS
        <3>1. d.row.enable
            BY <2>5, <2>7
        <3>2. \A i \in Inbounds : settings[i].enable = d.settings[i].enable
            <4>1. \A i \in Inbounds : d.settings[i].enable \in BOOLEAN
                BY DEF DbType, PlanType
            <4> QED
                BY <2>3, <3>1, <4>1
        <3>3. /\ \A i \in Inbounds : /\ Limits(settings[i]) = Limits(row)
                                     /\ settings[i].enable = d.record.enable
            BY <2>3, <2>5, <3>2 DEF Whole, Limits
        <3> QED
            BY <2>5, <2>7, <3>3 DEF Whole
    <2>9. Whole(d) /\ ~d.row.enable /\ f.row.enable /\ Inbounds = {first} =>
            Whole(f) /\ f.record.enable
        <3> SUFFICES ASSUME Whole(d), ~d.row.enable, Inbounds = {first}
                     PROVE  Whole(f) /\ f.record.enable
            OBVIOUS
        <3>1. last = first /\ settings[first].enable = TRUE
            BY <2>3
        <3>2. Limits(settings[first]) = Limits(row)
            BY <2>3, <2>5 DEF Whole, Limits
        <3> QED
            BY <2>5, <2>7, <3>1, <3>2 DEF Whole
    <2> QED
        BY <2>5, <2>6, <2>7, <2>8, <2>9
<1>2. CASE ~Renewable(d.row)
    BY <1>2 DEF autoRenewClients
<1> QED
    BY <1>1, <1>2

\* Enforcement leaves the client alone or switches it off in all the copies.
LEMMA DisableSays ==
    ASSUME NEW d \in DbType, NEW f, f = disableInvalidClients(d)
    PROVE  /\ f \in DbType
           /\ f = d \/ (d.row.enable /\ ~f.row.enable /\ ~f.record.enable)
           /\ Whole(d) => Whole(f)
<1>1. CASE d.row.enable /\ Depleted(d.row)
    <2> DEFINE settings == [i \in Inbounds |-> [d.settings[i] EXCEPT !.enable = FALSE]]
               row == [d.row EXCEPT !.enable = FALSE]
               record == [d.record EXCEPT !.enable = FALSE]
    <2>1. f = [settings |-> settings, record |-> record, row |-> row]
        BY <1>1 DEF disableInvalidClients, markClientsDisabledInSettings, DbType
    <2>2. /\ \A i \in Inbounds : /\ settings[i] \in PlanType
                                 /\ settings[i].enable = FALSE
                                 /\ Limits(settings[i]) = Limits(d.settings[i])
          /\ settings \in [Inbounds -> PlanType]
        BY DEF DbType, PlanType, Limits
    <2>3. row \in RowType /\ row.enable = FALSE /\ Limits(row) = Limits(d.row)
        BY DEF DbType, RowType, Limits
    <2>4. record \in PlanType /\ record.enable = FALSE /\ Limits(record) = Limits(d.record)
        BY DEF DbType, PlanType, Limits
    <2> HIDE DEF settings, row, record
    <2>5. f \in DbType
        BY <2>1, <2>2, <2>3, <2>4 DEF DbType
    <2>6. Whole(d) => Whole(f)
        <3>1. f.settings = settings /\ f.record = record /\ f.row = row
            BY <2>1
        <3>2. ASSUME Whole(d)
              PROVE  /\ \A i \in Inbounds : Limits(settings[i]) = Limits(row)
                     /\ Limits(record) = Limits(row)
            BY <2>2, <2>3, <2>4, <3>2 DEF Whole
        <3> QED
            BY <2>2, <2>4, <3>1, <3>2 DEF Whole
    <2> QED
        BY <1>1, <2>1, <2>3, <2>4, <2>5, <2>6
<1>2. CASE ~(d.row.enable /\ Depleted(d.row))
    BY <1>2 DEF disableInvalidClients
<1> QED
    BY <1>1, <1>2

-----------------------------------------------------------------------------
(* One run of the poll *)

CauseType == {"none", "rollback", "renew", "edit", "skip", "unread", "oldConfig"}

LEMMA BlameSays ==
    ASSUME NEW c \in CauseType \ {"none"}, cause \in CauseType, Blame(c)
    PROVE  cause' \in CauseType /\ cause' # "none"
    BY DEF Blame, CauseType

LEMMA FailsSays ==
    ASSUME TypeOK, NEW n \in Nat, Fails(n)
    PROVE  fails' \in 0..MaxFails
    BY BoundsAssumption DEF TypeOK, Fails

\* A run that made d1, d2 and d3 of the copies and whose API calls failed for bad.
Polled(first, d1, d2, d3, bad, keep, heard) ==
    LET add == IF d2.row.enable /\ ~d1.row.enable THEN {first} ELSE {}
        del == IF d2.row.enable /\ ~d3.row.enable THEN Inbounds ELSE {}
        oneOnly == add # {} /\ Inbounds # add
    IN  /\ Fails(IF bad # {} \/ ~keep THEN 1 ELSE 0)
        /\ db' = IF keep THEN d3 ELSE db
        /\ served' = (served \cup (add \ bad)) \ (del \ bad)
        /\ heard => need' = (need \/ (add \cap (bad \cup served)) \cup (del \cap bad) # {})
        /\ heard => forced' \in {forced, forced \/ del # {}}
        /\ IF ~keep /\ add \cup del # {} THEN Blame("rollback")
           ELSE IF oneOnly THEN Blame("renew")
           ELSE IF edit.step # "idle" /\ add \cup del # {} THEN Blame("edit")
           ELSE UNCHANGED cause
        /\ torn' = (torn \/ oneOnly \/ (edit.step # "idle" /\ d3 # db))

\* A poll keeps the types.  While an edit is under way it changes nothing, or the
\* copies count as torn; otherwise the copies stay whole.  If the core followed
\* the database it follows it still, or the caller hears that it must restart.
LEMMA PollSays ==
    ASSUME TypeOK, NEW reported \in BOOLEAN, NEW n \in Nat, db.row.used + n <= MaxUsed,
           NEW heard \in BOOLEAN, addTrafficLocked(reported, n, heard)
    PROVE  /\ db' \in DbType /\ served' \subseteq Inbounds /\ fails' \in 0..MaxFails
           /\ cause' \in CauseType /\ torn' \in BOOLEAN
           /\ heard => need' \in BOOLEAN /\ forced' \in BOOLEAN
           /\ heard => (need => need') /\ (forced => forced')
           /\ torn => torn'
           /\ cause' = "none" => cause = "none"
           /\ ~torn' /\ edit.step # "idle" => db' = db
           /\ ~torn' /\ edit.step # "idle" /\ cause' = "none" => served' = served
           /\ ~torn' /\ edit.step = "idle" /\ Whole(db) => Whole(db')
           /\ ~torn' /\ edit.step = "idle" /\ Whole(db) /\ cause' = "none"
                /\ served = GetXrayConfig(db) /\ heard /\ ~need' => served' = GetXrayConfig(db')
<1>1. PICK o \in {o \in Inbounds \X Inbounds : o[1] = o[2] => Inbounds = {o[1]}} :
        \E d1 \in {IF reported THEN addClientTraffic(db, n, o[2]) ELSE db} :
        \E d2 \in {autoRenewClients(d1, o[1], o[2])} :
        \E d3 \in {disableInvalidClients(d2)} :
        \E bad \in IF d3 # db THEN SUBSET Inbounds ELSE {{}},
           keep \in IF d3 # db THEN BOOLEAN ELSE {TRUE} :
            Polled(o[1], d1, d2, d3, bad, keep, heard)
    BY Zenon DEF addTrafficLocked, Polled
<1> DEFINE d1 == IF reported THEN addClientTraffic(db, n, o[2]) ELSE db
           d2 == autoRenewClients(d1, o[1], o[2])
           d3 == disableInvalidClients(d2)
           add == IF d2.row.enable /\ ~d1.row.enable THEN {o[1]} ELSE {}
           del == IF d2.row.enable /\ ~d3.row.enable THEN Inbounds ELSE {}
           oneOnly == add # {} /\ Inbounds # add
<1>2. PICK bad \in (IF d3 # db THEN SUBSET Inbounds ELSE {{}}),
           keep \in (IF d3 # db THEN BOOLEAN ELSE {TRUE}) :
        Polled(o[1], d1, d2, d3, bad, keep, heard)
    BY <1>1, Zenon
<1>3. /\ db \in DbType /\ now \in Nat /\ served \subseteq Inbounds /\ cause \in CauseType
      /\ torn \in BOOLEAN /\ need \in BOOLEAN /\ forced \in BOOLEAN
    BY BoundsAssumption DEF TypeOK, DbType, CauseType
<1>4. o[1] \in Inbounds /\ o[2] \in Inbounds
    OBVIOUS
<1>5. /\ d1 \in DbType /\ d1.row.enable = db.row.enable
      /\ Whole(db) => Whole(d1) /\ d1.record.enable = db.record.enable
    <2>1. CASE reported
        <3>1. d1 = addClientTraffic(db, n, o[2])
            BY <2>1
        <3> HIDE DEF d1
        <3> QED
            BY <1>3, <1>4, <3>1, AccountSays
    <2>2. CASE ~reported
        BY <1>3, <2>2
    <2> QED
        BY <2>1, <2>2
<1> HIDE DEF d1
<1>6. /\ d2 \in DbType /\ (d1.row.enable => d2.row.enable)
      /\ Whole(d1) /\ d1.row.enable = d2.row.enable =>
            Whole(d2) /\ d2.record.enable = d1.record.enable
      /\ Whole(d1) /\ ~d1.row.enable /\ d2.row.enable /\ Inbounds = {o[1]} =>
            Whole(d2) /\ d2.record.enable
    <2>1. /\ d1 \in DbType /\ now \in Nat /\ o[1] \in Inbounds /\ o[2] \in Inbounds
        BY <1>3, <1>4, <1>5
    <2> QED
        BY <2>1, RenewSays
<1> HIDE DEF d2
<1>7. /\ d3 \in DbType
      /\ d3 = d2 \/ (d2.row.enable /\ ~d3.row.enable /\ ~d3.record.enable)
      /\ Whole(d2) => Whole(d3)
    BY <1>6, DisableSays
<1> HIDE DEF d3
<1>8. /\ \A d \in DbType : d.row.enable \in BOOLEAN /\ d.record.enable \in BOOLEAN
      /\ bad \subseteq Inbounds /\ keep \in BOOLEAN
      /\ d3 = db => bad = {} /\ keep
    BY DEF DbType, RowType, PlanType
<1>9. add \subseteq Inbounds /\ del \subseteq Inbounds
    BY <1>4
<1>10. /\ Fails(IF bad # {} \/ ~keep THEN 1 ELSE 0)
       /\ db' = IF keep THEN d3 ELSE db
       /\ served' = (served \cup (add \ bad)) \ (del \ bad)
       /\ heard => need' = (need \/ (add \cap (bad \cup served)) \cup (del \cap bad) # {})
       /\ heard => forced' \in {forced, forced \/ del # {}}
       /\ IF ~keep /\ add \cup del # {} THEN Blame("rollback")
          ELSE IF oneOnly THEN Blame("renew")
          ELSE IF edit.step # "idle" /\ add \cup del # {} THEN Blame("edit")
          ELSE UNCHANGED cause
       /\ torn' = (torn \/ oneOnly \/ (edit.step # "idle" /\ d3 # db))
    BY <1>2, Zenon DEF Polled
<1>11. /\ cause' \in CauseType /\ (cause' = "none" => cause = "none")
       /\ cause' = "none" => /\ ~(~keep /\ add \cup del # {})
                             /\ ~oneOnly
                             /\ ~(edit.step # "idle" /\ add \cup del # {})
    <2>1. {"rollback", "renew", "edit"} \subseteq CauseType \ {"none"}
        BY DEF CauseType
    <2> HIDE DEF add, del, oneOnly
    <2>2. \/ Blame("rollback") \/ Blame("renew") \/ Blame("edit")
          \/ /\ cause' = cause
             /\ ~(~keep /\ add \cup del # {}) /\ ~oneOnly
             /\ ~(edit.step # "idle" /\ add \cup del # {})
        BY <1>10
    <2> QED
        BY <1>3, <2>1, <2>2, BlameSays
<1>12. /\ torn' \in BOOLEAN /\ (torn => torn')
       /\ ~torn' => ~oneOnly /\ (edit.step # "idle" => d3 = db)
    <2> HIDE DEF oneOnly
    <2> QED
        BY <1>10
<1>13. heard => /\ need' \in BOOLEAN /\ (need => need') /\ (forced => forced')
                /\ forced' \in BOOLEAN
                /\ ~need' => add \cap (bad \cup served) = {} /\ del \cap bad = {}
    <2> HIDE DEF add, del
    <2> QED
        BY <1>10, <1>3
<1>14. db' \in DbType /\ served' \subseteq Inbounds /\ fails' \in 0..MaxFails
    <2>1. fails' \in 0..MaxFails
        BY <1>10, FailsSays
    <2> HIDE DEF add, del
    <2> QED
        BY <1>10, <1>3, <1>7, <1>9, <2>1
<1>15. ~torn' /\ edit.step # "idle" => db' = db
    BY <1>10, <1>12
<1>16. ~torn' /\ edit.step # "idle" /\ cause' = "none" => served' = served
    <2> HIDE DEF add, del
    <2> QED
        BY <1>10, <1>11
<1>17. ASSUME Whole(db), ~oneOnly
       PROVE  /\ Whole(d3)
              /\ add = {} => \/ d3 = d2 /\ GetXrayConfig(d3) = GetXrayConfig(db) /\ del = {}
                             \/ GetXrayConfig(d3) = {} /\ del = Inbounds
              /\ add # {} => \/ GetXrayConfig(d3) = Inbounds /\ del = {}
                             \/ GetXrayConfig(d3) = {} /\ del = Inbounds
    <2>1. CASE d2.row.enable /\ ~d1.row.enable
        <3>1. add # {} /\ Inbounds = {o[1]}
            BY <1>17, <2>1
        <3>2. Whole(d3) /\ Whole(d2) /\ d2.record.enable
            BY <1>5, <1>6, <1>7, <1>17, <2>1, <3>1
        <3>3. CASE d3 = d2
            <4>1. del = {} /\ GetXrayConfig(d2) = Inbounds
                BY <2>1, <3>2, <3>3 DEF GetXrayConfig
            <4> HIDE DEF add, del
            <4> QED
                BY <3>1, <3>2, <3>3, <4>1
        <3>4. CASE ~d3.row.enable
            BY <2>1, <3>1, <3>2, <3>4 DEF GetXrayConfig
        <3> QED
            BY <1>7, <3>3, <3>4
    <2>2. CASE ~(d2.row.enable /\ ~d1.row.enable)
        <3>1. d1.row.enable = d2.row.enable
            BY <1>5, <1>6, <1>8, <2>2
        <3>2. Whole(d3) /\ d2.record.enable = db.record.enable /\ d2.row.enable = db.row.enable
            BY <1>5, <1>6, <1>7, <1>17, <3>1
        <3>3. add = {}
            BY <2>2
        <3>4. CASE d3 = d2
            <4>1. del = {}
                BY <3>4
            <4>2. GetXrayConfig(d2) = GetXrayConfig(db)
                BY <3>2 DEF GetXrayConfig
            <4> HIDE DEF add, del
            <4> QED
                BY <3>2, <3>3, <3>4, <4>1, <4>2
        <3>5. CASE d2.row.enable /\ ~d3.row.enable
            BY <3>2, <3>3, <3>5 DEF GetXrayConfig
        <3> QED
            BY <1>7, <3>4, <3>5
    <2> QED
        BY <2>1, <2>2
<1>18. ~torn' /\ edit.step = "idle" /\ Whole(db) => Whole(db')
    BY <1>10, <1>12, <1>17
<1>19. ASSUME ~torn', Whole(db), cause' = "none", served = GetXrayConfig(db), heard, ~need'
       PROVE  served' = GetXrayConfig(db')
    <2>1. add \cap (bad \cup served) = {} /\ del \cap bad = {}
        BY <1>13, <1>19
    <2>2. (keep \/ add \cup del = {}) /\ ~oneOnly
        BY <1>11, <1>19
    <2>3. /\ add = {} => \/ GetXrayConfig(d3) = GetXrayConfig(db) /\ del = {}
                         \/ GetXrayConfig(d3) = {} /\ del = Inbounds
          /\ add # {} => /\ add = Inbounds
                         /\ \/ GetXrayConfig(d3) = Inbounds /\ del = {}
                            \/ GetXrayConfig(d3) = {} /\ del = Inbounds
        BY <1>17, <1>19, <2>2
    <2>4. /\ served' = (served \cup (add \ bad)) \ (del \ bad)
          /\ db' = IF keep THEN d3 ELSE db
        BY <1>10
    <2> HIDE DEF add, del, oneOnly
    <2>5. CASE add = {} /\ del = {}
        <3>1. served' = served
            BY <2>4, <2>5
        <3>2. GetXrayConfig(d3) = GetXrayConfig(db)
            BY <2>3, <2>5, InboundsAssumption
        <3> QED
            BY <1>19, <2>4, <3>1, <3>2
    <2>6. CASE add = {} /\ del # {}
        <3>1. del = Inbounds /\ GetXrayConfig(d3) = {} /\ keep
            BY <2>2, <2>3, <2>6
        <3>2. served' = {}
            BY <1>3, <1>8, <2>1, <2>4, <2>6, <3>1
        <3> QED
            BY <2>4, <3>1, <3>2
    <2>7. CASE add # {}
        <3>1. keep /\ add = Inbounds /\ bad = {}
            BY <1>8, <2>1, <2>2, <2>3, <2>7
        <3> QED
            BY <1>3, <2>3, <2>4, <2>7, <3>1
    <2> QED
        BY <2>5, <2>6, <2>7
<1> QED
    BY <1>11, <1>12, <1>13, <1>14, <1>15, <1>16, <1>18, <1>19
-----------------------------------------------------------------------------
(* The copies, wherever a step leaves them *)

\* What the copies of the plan say of the switch is a truth value.
LEMMA SwitchIsBoolean ==
    ASSUME NEW d \in DbType
    PROVE  /\ d.record.enable \in BOOLEAN /\ d.row.enable \in BOOLEAN
           /\ \A i \in Inbounds : d.settings[i].enable \in BOOLEAN
    BY DEF DbType, PlanType, RowType

\* Enabling the row and clearing its usage, as both kinds of reset do, keeps the
\* agreement of the copies and what the core should serve.
LEMMA ResetRowSays ==
    ASSUME NEW d \in DbType, NEW f,
           f = [d EXCEPT !.row = [d.row EXCEPT !.enable = TRUE, !.used = 0]]
    PROVE  /\ f \in DbType /\ f.settings = d.settings
           /\ Whole(d) => Whole(f) /\ GetXrayConfig(f) = GetXrayConfig(d)
           /\ \A p, todo : Written(d, p, todo) => Written(f, p, todo)
<1> DEFINE row == [d.row EXCEPT !.enable = TRUE, !.used = 0]
<1>1. row \in RowType /\ row.enable = TRUE /\ Limits(row) = Limits(d.row)
    <2>1. 0 \in 0..MaxUsed /\ d.row \in RowType
        BY BoundsAssumption DEF DbType
    <2> QED
        BY <2>1 DEF RowType, Limits
<1>2. f = [settings |-> d.settings, record |-> d.record, row |-> row]
    BY DEF DbType
<1> HIDE DEF row
<1>3. f.settings = d.settings /\ f.record = d.record /\ f.row = row
    BY <1>2
<1>4. f \in DbType
    BY <1>1, <1>2 DEF DbType
<1>5. Whole(d) => Whole(f)
    BY <1>1, <1>3 DEF Whole
<1>6. Whole(d) => GetXrayConfig(f) = GetXrayConfig(d)
    <2>1. CASE d.record.enable
        BY <1>1, <1>3, <2>1 DEF Whole, GetXrayConfig
    <2>2. CASE ~d.record.enable
        BY <1>3, <2>2 DEF GetXrayConfig
    <2> QED
        BY <2>1, <2>2
<1>7. ASSUME NEW p, NEW todo, Written(d, p, todo)
      PROVE  Written(f, p, todo)
    BY <1>1, <1>3, <1>7 DEF Written
<1> QED
    BY <1>3, <1>4, <1>5, <1>6, <1>7

\* An edit that has reached every inbound leaves the copies agreeing.
LEMMA WrittenIsWhole ==
    ASSUME NEW d \in DbType, NEW p, Written(d, p, {})
    PROVE  Whole(d)
    BY DEF Written, Whole

-----------------------------------------------------------------------------
(* The invariant holds at first and every step keeps it *)

LEMMA InitIInv == Init => IInv
<1> SUFFICES ASSUME Init PROVE IInv
    OBVIOUS
<1>1. PICK p \in Plans :
        /\ db = [settings |-> [i \in Inbounds |-> p], record |-> p, row |-> WithUsage(p, 0)]
        /\ served = IF p.enable THEN Inbounds ELSE {}
        /\ config = served
    BY DEF Init
<1>2. AnyPlan \in PlanType /\ AnyInbound \in Inbounds /\ p \in PlanType
    BY InboundsAssumption, PlansAssumption DEF AnyPlan, AnyInbound
<1>3. \A q \in PlanType : WithUsage(q, 0) \in RowType
    BY BoundsAssumption DEF WithUsage, PlanType, RowType
<1>4. TypeOK
    <2>1. db \in [settings : [Inbounds -> PlanType], record : PlanType, row : RowType]
        BY <1>1, <1>2, <1>3
    <2>2. served \subseteq Inbounds /\ config \subseteq Inbounds
        BY <1>1
    <2>3. /\ restart \in [step : {"idle", "read", "start"}, force : BOOLEAN, config : SUBSET Inbounds]
          /\ edit \in [step : {"idle", "next", "commit"}, to : PlanType, todo : SUBSET Inbounds,
                       at : Inbounds, old : BOOLEAN, need : BOOLEAN]
          /\ other \in [step : {"idle", "commit"}, at : Inbounds, seen : PlanType]
          /\ reset \in [step : {"idle", "next", "save"}, todo : SUBSET Inbounds, row : RowType,
                        need : BOOLEAN]
        BY <1>2, <1>3 DEF Init, NoRestart, NoEdit, NoOther, NoReset
    <2>4. now \in 1..MaxNow /\ edits \in 0..MaxEdits /\ fails \in 0..MaxFails
        BY BoundsAssumption DEF Init
    <2> QED
        BY <2>1, <2>2, <2>3, <2>4 DEF Init, TypeOK
<1>5. OpInv
    BY DEF Init, OpInv, NoEdit, NoReset
<1>6. Whole(db) /\ served = GetXrayConfig(db)
    BY <1>1 DEF Whole, Limits, WithUsage, GetXrayConfig
<1>7. edit.step = "idle"
    BY DEF Init, NoEdit
<1> QED
    BY <1>4, <1>5, <1>6, <1>7 DEF IInv, CopyInv, CoreInv, Unwritten

\* The traffic job: it hears what the poll did.
LEMMA JobStep ==
    ASSUME IInv, XrayTrafficJob
    PROVE  IInv'
<1>1. PICK n \in 0..1, reported \in BOOLEAN :
        db.row.used + n <= MaxUsed /\ addTrafficLocked(reported, n, TRUE)
    BY DEF XrayTrafficJob
<1>2. UNCHANGED <<config, restart, edit, other, reset, now, edits>>
    BY DEF XrayTrafficJob
<1>3. TypeOK /\ n \in Nat
    BY DEF IInv
<1>4. /\ db' \in DbType /\ served' \subseteq Inbounds /\ fails' \in 0..MaxFails
      /\ cause' \in CauseType /\ torn' \in BOOLEAN
      /\ need' \in BOOLEAN /\ forced' \in BOOLEAN
      /\ (need => need') /\ (forced => forced')
      /\ torn => torn'
      /\ cause' = "none" => cause = "none"
      /\ ~torn' /\ edit.step # "idle" => db' = db
      /\ ~torn' /\ edit.step # "idle" /\ cause' = "none" => served' = served
      /\ ~torn' /\ edit.step = "idle" /\ Whole(db) => Whole(db')
      /\ ~torn' /\ edit.step = "idle" /\ Whole(db) /\ cause' = "none"
           /\ served = GetXrayConfig(db) /\ ~need' => served' = GetXrayConfig(db')
    BY <1>1, <1>3, PollSays
<1>5. TypeOK'
    BY <1>2, <1>3, <1>4 DEF TypeOK, DbType, CauseType
<1>6. OpInv'
    BY <1>2 DEF IInv, OpInv
<1>7. Unwritten' <=> Unwritten
    BY <1>2 DEF Unwritten
<1>8. CopyInv'
    <2>1. CASE edit.step = "idle"
        BY <1>2, <1>4, <2>1 DEF IInv, CopyInv, Unwritten
    <2>2. CASE edit.step # "idle"
        BY <1>2, <1>4, <1>7, <2>2 DEF IInv, CopyInv
    <2> QED
        BY <2>1, <2>2
<1>9. CoreInv'
    <2> SUFFICES ASSUME cause' = "none", ~torn', ~Pending'
                 PROVE  CoreInv'
        BY DEF CoreInv
    <2>1. ~Pending /\ ~need'
        BY <1>2, <1>4 DEF Pending
    <2>2. CASE edit.step = "idle"
        <3>1. Whole(db) /\ served = GetXrayConfig(db)
            BY <1>4, <2>1, <2>2 DEF IInv, CopyInv, CoreInv, Unwritten
        <3>2. served' = GetXrayConfig(db')
            BY <1>4, <2>1, <2>2, <3>1
        <3> QED
            BY <1>2, <2>2, <3>2 DEF CoreInv, Unwritten
    <2>3. CASE edit.step # "idle"
        BY <1>2, <1>4, <1>7, <2>1, <2>3 DEF IInv, CoreInv
    <2> QED
        BY <2>2, <2>3
<1> QED
    BY <1>5, <1>6, <1>8, <1>9 DEF IInv

\* A restart begins with a poll of its own, whose answer it drops.
LEMMA RestartBeginsStep ==
    ASSUME IInv, RestartBegins
    PROVE  IInv'
<1>1. addTrafficLocked(FALSE, 0, FALSE) /\ UNCHANGED <<config, edit, other, reset, now, edits>>
    BY DEF RestartBegins
<1>2. TypeOK /\ 0 \in Nat /\ FALSE \in BOOLEAN /\ db.row.used + 0 <= MaxUsed
    BY BoundsAssumption DEF IInv, TypeOK, RowType
<1>3. /\ db' \in DbType /\ served' \subseteq Inbounds /\ fails' \in 0..MaxFails
      /\ cause' \in CauseType /\ torn' \in BOOLEAN
      /\ torn => torn'
      /\ ~torn' /\ edit.step # "idle" => db' = db
      /\ ~torn' /\ edit.step = "idle" /\ Whole(db) => Whole(db')
    BY <1>1, <1>2, PollSays
<1>4. need' \in BOOLEAN /\ forced' \in BOOLEAN
    BY DEF RestartBegins, IInv, TypeOK
<1>5. /\ restart' \in [step : {"idle", "read", "start"}, force : BOOLEAN, config : SUBSET Inbounds]
      /\ restart'.step = "read"
    <2> DEFINE force == forced /\ ~forced'
    <2>1. restart' = [restart EXCEPT !.step = "read", !.force = force] /\ force \in BOOLEAN
        BY DEF RestartBegins
    <2>2. restart \in [step : {"idle", "read", "start"}, force : BOOLEAN, config : SUBSET Inbounds]
        BY DEF IInv, TypeOK
    <2> HIDE DEF force
    <2> QED
        BY <2>1, <2>2
<1>6. TypeOK'
    BY <1>1, <1>2, <1>3, <1>4, <1>5 DEF TypeOK, DbType, CauseType
<1>7. OpInv'
    BY <1>1 DEF IInv, OpInv
<1>8. CopyInv'
    <2>1. CASE edit.step = "idle"
        BY <1>1, <1>3, <2>1 DEF IInv, CopyInv, Unwritten
    <2>2. CASE edit.step # "idle"
        BY <1>1, <1>3, <2>2 DEF IInv, CopyInv, Unwritten
    <2> QED
        BY <2>1, <2>2
<1>9. CoreInv'
    BY <1>5 DEF CoreInv, Pending
<1> QED
    BY <1>6, <1>7, <1>8, <1>9 DEF IInv

\* The rest of a restart: the core is left alone because it has what the database
\* says, or is started with that; anything else is a recorded cause.
LEMMA RestartStep ==
    ASSUME IInv, RestartProceeds \/ UserRestarts
    PROVE  IInv'
<1>1. UNCHANGED <<db, edit, other, reset, now, torn>>
    BY DEF RestartProceeds, RestartReads, RestartCannotRead, RestartSkips, RestartStarts,
           UserRestarts
<1>2. TypeOK /\ db \in DbType /\ edit.to.enable \in BOOLEAN
    BY DEF IInv, TypeOK, DbType, PlanType
<1>3. TypeOK'
    <2>1. CASE RestartReads
        BY <1>1, <1>2, <2>1 DEF RestartReads, TypeOK, GetXrayConfig
    <2>2. CASE RestartCannotRead
        <3>1. fails' \in 0..MaxFails
            BY <1>2, <2>2, FailsSays DEF RestartCannotRead
        <3>2. {"unread"} \subseteq CauseType \ {"none"} /\ cause \in CauseType
            BY <1>2 DEF CauseType, TypeOK
        <3>3. cause' \in CauseType
            BY <2>2, <3>2, BlameSays DEF RestartCannotRead
        <3>4. need' \in BOOLEAN
            BY <1>2, <2>2 DEF RestartCannotRead, TypeOK
        <3> QED
            BY <1>1, <1>2, <2>2, <3>1, <3>3, <3>4
               DEF RestartCannotRead, TypeOK, NoRestart, CauseType
    <2>3. CASE RestartSkips
        <3>1. cause' \in CauseType
            BY <1>2, <2>3 DEF RestartSkips, Blame, CauseType, TypeOK
        <3> QED
            BY <1>1, <1>2, <2>3, <3>1 DEF RestartSkips, TypeOK, NoRestart, CauseType
    <2>4. CASE RestartStarts
        <3>1. cause' \in CauseType
            BY <1>2, <2>4 DEF RestartStarts, Blame, CauseType, TypeOK
        <3> QED
            BY <1>1, <1>2, <2>4, <3>1 DEF RestartStarts, TypeOK, NoRestart, CauseType
    <2>5. CASE UserRestarts
        <3>1. edits' \in 0..MaxEdits
            BY <1>2, <2>5, BoundsAssumption DEF UserRestarts, TypeOK
        <3> QED
            BY <1>1, <1>2, <2>5, <3>1 DEF UserRestarts, TypeOK
    <2> QED
        BY <2>1, <2>2, <2>3, <2>4, <2>5 DEF RestartProceeds
<1>4. OpInv' /\ CopyInv'
    BY <1>1 DEF IInv, OpInv, CopyInv, Unwritten
<1>5. CoreInv'
    <2> SUFFICES ASSUME cause' = "none", ~torn', ~Pending'
                 PROVE  CoreInv'
        BY DEF CoreInv
    <2>1. served' = GetXrayConfig(db)
        <3>1. CASE RestartReads
            BY <3>1, <1>2 DEF RestartReads, Pending, TypeOK
        <3>2. CASE RestartCannotRead
            BY <3>2 DEF RestartCannotRead, Blame
        <3>3. CASE RestartSkips
            BY <3>3 DEF RestartSkips, Blame
        <3>4. CASE RestartStarts
            BY <3>4 DEF RestartStarts, Blame
        <3>5. CASE UserRestarts
            BY <3>5 DEF UserRestarts, Pending
        <3> QED
            BY <3>1, <3>2, <3>3, <3>4, <3>5 DEF RestartProceeds
    <2>2. ~torn /\ db' = db /\ edit' = edit
        BY <1>1
    <2>3. served' = GetXrayConfig(db')
        BY <2>1, <2>2 DEF GetXrayConfig
    <2>4. CASE Unwritten
        BY <2>2, <2>3, <2>4 DEF CoreInv, Unwritten
    <2>5. CASE ~Unwritten
        <3>1. Written(db, edit.to, edit.todo)
            BY <2>2, <2>5 DEF IInv, CopyInv
        <3>2. /\ \A i \in Inbounds \ edit.todo : i \in served' <=> edit.to.enable
              /\ \A i \in edit.todo : i \in served' /\ ~edit.to.enable => db.settings[i].enable
            <4>1. CASE edit.to.enable
                BY <2>1, <3>1, <4>1 DEF Written, GetXrayConfig
            <4>2. CASE ~edit.to.enable
                BY <2>1, <3>1, <4>2 DEF Written, GetXrayConfig
            <4> QED
                BY <4>1, <4>2
        <3> QED
            BY <2>2, <2>5, <3>2 DEF CoreInv, Unwritten
    <2> QED
        BY <2>4, <2>5
<1> QED
    BY <1>3, <1>4, <1>5 DEF IInv

\* One more edit, reset or change of another client stays within the bound.
LEMMA EditsCount ==
    ASSUME TypeOK, edits < MaxEdits, edits' = edits + 1
    PROVE  edits' \in 0..MaxEdits
    BY BoundsAssumption DEF TypeOK

\* The steps of an edit that write nothing: its start, and the reading of what an
\* inbound has.
LEMMA EditReadsStep ==
    ASSUME IInv, UpdateReads \/ \E p \in Plans : Update(p)
    PROVE  IInv'
<1>1. UNCHANGED <<db, apiVars, other, reset, now, fails, cause, torn>>
    BY DEF UpdateReads, Update
<1>2. TypeOK
    BY DEF IInv
<1>3. CASE UpdateReads
    <2>1. PICK i \in edit.todo :
            edit' = [edit EXCEPT !.step = "commit", !.at = i, !.old = db.settings[i].enable]
        BY <1>3 DEF UpdateReads
    <2>2. i \in Inbounds /\ db.settings[i].enable \in BOOLEAN /\ edit.step = "next"
        BY <1>2, <1>3 DEF TypeOK, PlanType, UpdateReads
    <2>3. /\ edit' \in [step : {"idle", "next", "commit"}, to : PlanType, todo : SUBSET Inbounds,
                        at : Inbounds, old : BOOLEAN, need : BOOLEAN]
          /\ edit'.step = "commit" /\ edit'.to = edit.to /\ edit'.todo = edit.todo
          /\ edit'.at = i /\ edit'.old = db.settings[i].enable /\ edit'.need = edit.need
        <3> DEFINE old == db.settings[i].enable
        <3>1. edit \in [step : {"idle", "next", "commit"}, to : PlanType, todo : SUBSET Inbounds,
                        at : Inbounds, old : BOOLEAN, need : BOOLEAN]
            BY <1>2 DEF TypeOK
        <3>2. edit' = [edit EXCEPT !.step = "commit", !.at = i, !.old = old] /\ old \in BOOLEAN
            BY <2>1, <2>2
        <3> HIDE DEF old
        <3>3. /\ edit' \in [step : {"idle", "next", "commit"}, to : PlanType, todo : SUBSET Inbounds,
                            at : Inbounds, old : BOOLEAN, need : BOOLEAN]
              /\ edit'.step = "commit" /\ edit'.to = edit.to /\ edit'.todo = edit.todo
              /\ edit'.at = i /\ edit'.old = old /\ edit'.need = edit.need
            BY <2>2, <3>1, <3>2
        <3> QED
            BY <3>3 DEF old
    <2>4. edits' = edits
        BY <1>3 DEF UpdateReads
    <2>5. TypeOK'
        BY <1>1, <1>2, <2>3, <2>4 DEF TypeOK, apiVars
    <2>6. OpInv'
        BY <1>1, <2>3 DEF IInv, OpInv
    <2>7. (Unwritten' <=> Unwritten) /\ (Pending' <=> Pending)
        BY <1>1, <2>2, <2>3 DEF Unwritten, Pending, apiVars
    <2>8. CopyInv'
        BY <1>1, <2>3, <2>7 DEF IInv, CopyInv
    <2>9. CoreInv'
        BY <1>1, <2>3, <2>7 DEF IInv, CoreInv, apiVars
    <2> QED
        BY <2>5, <2>6, <2>8, <2>9 DEF IInv
<1>4. ASSUME NEW p \in Plans, Update(p)
      PROVE  IInv'
    <2>1. /\ edit' \in [step : {"idle", "next", "commit"}, to : PlanType, todo : SUBSET Inbounds,
                        at : Inbounds, old : BOOLEAN, need : BOOLEAN]
          /\ edit.step = "idle" /\ edit'.step = "next" /\ edit'.todo = Inbounds /\ ~edit'.need
        BY <1>2, <1>4, PlansAssumption DEF Update, TypeOK
    <2>2. edits' \in 0..MaxEdits
        BY <1>2, <1>4, EditsCount DEF Update
    <2>3. TypeOK'
        BY <1>1, <1>2, <2>1, <2>2 DEF TypeOK, apiVars
    <2>4. OpInv'
        BY <1>1, <2>1 DEF IInv, OpInv
    <2>5. Unwritten' /\ Unwritten
        BY <2>1 DEF Unwritten
    <2>6. ~edit.need
        BY <2>1 DEF IInv, OpInv
    <2>7. Pending' <=> Pending
        BY <1>1, <2>1, <2>6 DEF Pending, apiVars
    <2>8. CopyInv'
        BY <1>1, <2>1, <2>5 DEF IInv, CopyInv
    <2>9. CoreInv'
        BY <1>1, <2>5, <2>7 DEF IInv, CoreInv, apiVars, GetXrayConfig
    <2> QED
        BY <2>3, <2>4, <2>8, <2>9 DEF IInv
<1> QED
    BY <1>3, <1>4

\* An edit that fails leaves a cause, and torn copies unless it had written none;
\* one that returns has made the copies agree.
LEMMA EditEndsStep ==
    ASSUME IInv, UpdateFails \/ UpdateReturns
    PROVE  IInv'
<1>1. /\ UNCHANGED <<db, config, forced, restart, other, reset, now, edits>>
      /\ edit' = NoEdit
    BY DEF UpdateFails, UpdateReturns
<1>2. TypeOK /\ db \in DbType
    BY DEF IInv, TypeOK, DbType
<1>3. NoEdit \in [step : {"idle", "next", "commit"}, to : PlanType, todo : SUBSET Inbounds,
                  at : Inbounds, old : BOOLEAN, need : BOOLEAN]
    BY InboundsAssumption, PlansAssumption DEF NoEdit, AnyInbound, AnyPlan
<1>4. edit'.step = "idle" /\ ~edit'.need
    BY <1>1 DEF NoEdit
<1>5. OpInv'
    BY <1>1, <1>4 DEF IInv, OpInv
<1>6. Unwritten'
    BY <1>4 DEF Unwritten
<1>7. CASE UpdateFails
    <2>1. fails' \in 0..MaxFails
        BY <1>2, <1>7, FailsSays DEF UpdateFails
    <2>2. {"rollback"} \subseteq CauseType \ {"none"} /\ cause \in CauseType
        BY <1>2 DEF CauseType, TypeOK
    <2>3. cause' \in CauseType /\ cause' # "none"
        BY <1>7, <2>2, BlameSays DEF UpdateFails
    <2>4. served' \subseteq Inbounds
        BY <1>2, <1>7 DEF UpdateFails, AddUser, RemoveUser, TypeOK
    <2>5. torn' \in BOOLEAN /\ (~torn' => ~torn /\ Unwritten)
        BY <1>2, <1>7 DEF UpdateFails, TypeOK, Unwritten
    <2>6. need' = need
        BY <1>7 DEF UpdateFails
    <2>7. TypeOK'
        BY <1>1, <1>2, <1>3, <2>1, <2>3, <2>4, <2>5, <2>6 DEF TypeOK, CauseType
    <2>8. CopyInv'
        BY <1>1, <1>4, <1>6, <2>5 DEF IInv, CopyInv
    <2>9. CoreInv'
        BY <2>3 DEF CoreInv
    <2> QED
        BY <1>5, <2>7, <2>8, <2>9 DEF IInv
<1>8. CASE UpdateReturns
    <2>1. UNCHANGED <<served, fails, cause, torn>> /\ need' = (need \/ edit.need)
        BY <1>8 DEF UpdateReturns
    <2>2. ~Unwritten /\ edit.todo = {} /\ edit.step = "next"
        BY <1>8, InboundsAssumption DEF UpdateReturns, Unwritten
    <2>3. need' \in BOOLEAN /\ (~need' => ~need /\ ~edit.need)
        BY <1>2, <2>1 DEF TypeOK
    <2>4. TypeOK'
        BY <1>1, <1>2, <1>3, <2>1, <2>3 DEF TypeOK
    <2>5. ~torn => Written(db, edit.to, {}) /\ Whole(db)
        BY <1>2, <2>2, WrittenIsWhole DEF IInv, CopyInv
    <2>6. CopyInv'
        BY <1>1, <1>4, <1>6, <2>1, <2>5 DEF CopyInv
    <2>7. CoreInv'
        <3> SUFFICES ASSUME cause' = "none", ~torn', ~Pending'
                     PROVE  served' = GetXrayConfig(db')
            BY <1>6 DEF CoreInv
        <3>1. cause = "none" /\ ~torn /\ ~Pending
            BY <1>1, <2>1, <2>3 DEF Pending
        <3>2. \A i \in Inbounds : i \in served <=> edit.to.enable
            BY <2>2, <3>1 DEF IInv, CoreInv
        <3>3. Written(db, edit.to, {})
            BY <2>5, <3>1
        <3>4. served \subseteq Inbounds
            BY <1>2 DEF TypeOK
        <3>5. served = GetXrayConfig(db)
            <4>1. CASE edit.to.enable
                BY <3>2, <3>3, <3>4, <4>1 DEF Written, GetXrayConfig
            <4>2. CASE ~edit.to.enable
                BY <3>2, <3>3, <3>4, <4>2 DEF Written, GetXrayConfig
            <4> QED
                BY <4>1, <4>2
        <3> QED
            BY <1>1, <2>1, <3>5 DEF GetXrayConfig
    <2> QED
        BY <1>5, <2>4, <2>6, <2>7 DEF IInv
<1> QED
    BY <1>7, <1>8

\* An edit writes one inbound, the record and the row, and tells the core.
LEMMA EditWritesStep ==
    ASSUME IInv, UpdateInboundClient
    PROVE  IInv'
<1>1. PICK bad \in SUBSET {"remove", "add"} :
        /\ Fails(IF bad = {} THEN 0 ELSE 1)
        /\ served' = AddUser(bad)
        /\ edit' = [edit EXCEPT !.step = "next", !.todo = @ \ {edit.at},
                                !.at = AnyInbound, !.old = FALSE, !.need = @ \/ UserNeedsRestart(bad)]
    BY DEF UpdateInboundClient
<1>2. /\ UNCHANGED <<config, need, forced, restart, other, reset, now, edits, cause, torn>>
      /\ edit.step = "commit"
    BY DEF UpdateInboundClient
<1>3. /\ TypeOK /\ db \in DbType /\ edit.to \in PlanType /\ edit.to.enable \in BOOLEAN
      /\ edit.at \in Inbounds /\ edit.at \in edit.todo /\ edit.todo \subseteq Inbounds
      /\ edit.old \in BOOLEAN /\ edit.need \in BOOLEAN /\ served \subseteq Inbounds
    BY <1>2 DEF IInv, OpInv, TypeOK, DbType, PlanType
<1> DEFINE settings == [db.settings EXCEPT ![edit.at] = edit.to]
           row == WithUsage(edit.to, db.row.used)
<1>4. db' = [settings |-> settings, record |-> edit.to, row |-> row]
    BY <1>3 DEF UpdateInboundClient, DbType
<1>5. /\ settings \in [Inbounds -> PlanType]
      /\ settings[edit.at] = edit.to
      /\ \A i \in Inbounds \ {edit.at} : settings[i] = db.settings[i]
    BY <1>3 DEF DbType
<1>6. row \in RowType /\ row.enable = edit.to.enable /\ Limits(row) = Limits(edit.to)
    BY <1>3 DEF WithUsage, DbType, RowType, PlanType, Limits
<1> HIDE DEF settings, row
<1>7. db' \in DbType /\ db'.settings = settings /\ db'.record = edit.to /\ db'.row = row
    BY <1>3, <1>4, <1>5, <1>6 DEF DbType
<1>8. UserNeedsRestart(bad) \in BOOLEAN /\ AnyInbound \in Inbounds
    BY InboundsAssumption DEF UserNeedsRestart, AnyInbound
<1>9. /\ edit' \in [step : {"idle", "next", "commit"}, to : PlanType, todo : SUBSET Inbounds,
                    at : Inbounds, old : BOOLEAN, need : BOOLEAN]
      /\ edit'.step = "next" /\ edit'.to = edit.to /\ edit'.todo = edit.todo \ {edit.at}
      /\ ~edit'.need => ~edit.need /\ ~UserNeedsRestart(bad)
    <2> DEFINE needs == edit.need \/ UserNeedsRestart(bad)
               rest == edit.todo \ {edit.at}
    <2>1. edit \in [step : {"idle", "next", "commit"}, to : PlanType, todo : SUBSET Inbounds,
                    at : Inbounds, old : BOOLEAN, need : BOOLEAN]
        BY <1>3 DEF TypeOK
    <2>2. edit' = [edit EXCEPT !.step = "next", !.todo = rest, !.at = AnyInbound,
                               !.old = FALSE, !.need = needs]
        BY <1>1
    <2>3. needs \in BOOLEAN /\ rest \subseteq Inbounds
        BY <1>3, <1>8
    <2> HIDE DEF needs, rest
    <2>4. /\ edit' \in [step : {"idle", "next", "commit"}, to : PlanType, todo : SUBSET Inbounds,
                        at : Inbounds, old : BOOLEAN, need : BOOLEAN]
          /\ edit'.step = "next" /\ edit'.to = edit.to /\ edit'.todo = rest
          /\ edit'.need = needs
        BY <1>8, <2>1, <2>2, <2>3
    <2> QED
        BY <2>4 DEF needs, rest
<1>10. TypeOK'
    <2>1. served' \subseteq Inbounds
        BY <1>1, <1>3 DEF AddUser, RemoveUser
    <2>2. fails' \in 0..MaxFails
        BY <1>1, <1>3, FailsSays
    <2> QED
        BY <1>2, <1>3, <1>7, <1>9, <2>1, <2>2 DEF TypeOK, DbType
<1>11. OpInv'
    BY <1>2, <1>9 DEF IInv, OpInv
<1>12. ~Unwritten'
    BY <1>3, <1>9 DEF Unwritten
<1>13. CopyInv'
    <2> SUFFICES ASSUME ~torn'
                 PROVE  Written(db', edit.to, edit.todo \ {edit.at})
        BY <1>9, <1>12 DEF CopyInv
    <2>1. ~Unwritten => Written(db, edit.to, edit.todo)
        BY <1>2 DEF IInv, CopyInv
    <2>2. ASSUME NEW i \in Inbounds, i # edit.at, i \notin edit.todo
          PROVE  /\ Limits(settings[i]) = Limits(edit.to)
                 /\ settings[i].enable = edit.to.enable
        BY <1>2, <1>5, <2>1, <2>2 DEF Unwritten, Written
    <2>3. \A i \in Inbounds \ (edit.todo \ {edit.at}) :
            /\ Limits(settings[i]) = Limits(edit.to)
            /\ settings[i].enable = edit.to.enable
        BY <1>5, <2>2
    <2> QED
        BY <1>6, <1>7, <2>3 DEF Written
<1>14. CoreInv'
    <2> SUFFICES ASSUME cause' = "none", ~torn', ~Pending'
                 PROVE  /\ \A i \in Inbounds \ (edit.todo \ {edit.at}) : i \in served' <=> edit.to.enable
                        /\ \A i \in edit.todo \ {edit.at} :
                            i \in served' /\ ~edit.to.enable => settings[i].enable
        BY <1>7, <1>9, <1>12 DEF CoreInv
    <2>1. cause = "none" /\ ~torn /\ ~Pending /\ ~UserNeedsRestart(bad)
        BY <1>2, <1>9 DEF Pending
    <2>2. edit.old = db.settings[edit.at].enable
        BY <1>2, <2>1 DEF IInv, CopyInv
    <2>3. /\ Unwritten => Whole(db) /\ served = GetXrayConfig(db)
          /\ ~Unwritten =>
                /\ \A i \in Inbounds \ edit.todo : i \in served <=> edit.to.enable
                /\ \A i \in edit.todo : i \in served /\ ~edit.to.enable => db.settings[i].enable
        BY <2>1 DEF IInv, CopyInv, CoreInv
    <2>4. \A i \in edit.todo : i \in served /\ ~edit.to.enable => db.settings[i].enable
        <3>1. CASE Unwritten
            <4>1. served # {} => db.record.enable
                BY <2>3, <3>1 DEF GetXrayConfig
            <4> QED
                BY <1>3, <2>3, <3>1, <4>1 DEF Whole
        <3>2. CASE ~Unwritten
            BY <2>3, <3>2
        <3> QED
            BY <3>1, <3>2
    <2>5. \A i \in Inbounds \ {edit.at} : i \in served' <=> i \in served
        BY <1>1 DEF AddUser, RemoveUser
    <2>6. edit.at \in served' <=> edit.to.enable
        <3>1. CASE edit.to.enable
            BY <1>1, <2>1, <3>1 DEF UserNeedsRestart, AddUser
        <3>2. CASE ~edit.to.enable /\ edit.old
            BY <1>1, <2>1, <3>2 DEF UserNeedsRestart, AddUser, RemoveUser
        <3>3. CASE ~edit.to.enable /\ ~edit.old
            BY <1>1, <1>3, <2>2, <2>4, <3>3 DEF AddUser, RemoveUser
        <3> QED
            BY <3>1, <3>2, <3>3
    <2>7. \A i \in Inbounds \ edit.todo : i # edit.at => (i \in served <=> edit.to.enable)
        BY <1>2, <2>3 DEF Unwritten
    <2> QED
        BY <1>3, <1>5, <2>4, <2>5, <2>6, <2>7
<1> QED
    BY <1>10, <1>11, <1>13, <1>14 DEF IInv

\* A change of another client writes back what it read of this one: nothing new,
\* or the copies count as torn.
LEMMA OtherStep ==
    ASSUME IInv, OtherReads \/ OtherCommits
    PROVE  IInv'
<1>1. UNCHANGED <<apiVars, edit, reset, now, fails, cause>>
    BY DEF OtherReads, OtherCommits
<1>2. TypeOK /\ db \in DbType
    BY DEF IInv, TypeOK, DbType
<1>3. TypeOK' /\ torn' \in BOOLEAN /\ (~torn' => ~torn /\ db' = db)
    <2>1. CASE OtherReads
        <3>1. PICK i \in Inbounds : other' = [step |-> "commit", at |-> i, seen |-> db.settings[i]]
            BY <2>1 DEF OtherReads
        <3>2. edits' \in 0..MaxEdits
            BY <1>2, <2>1, EditsCount DEF OtherReads
        <3>3. db' = db /\ torn' = torn /\ torn \in BOOLEAN
            BY <1>2, <2>1 DEF OtherReads, TypeOK
        <3> QED
            BY <1>1, <1>2, <3>1, <3>2, <3>3 DEF TypeOK, apiVars
    <2>2. CASE OtherCommits
        <3> DEFINE settings == [db.settings EXCEPT ![other.at] = other.seen]
        <3>1. /\ db' = [settings |-> settings, record |-> other.seen, row |-> db.row]
              /\ torn' = (torn \/ db.settings[other.at] # other.seen \/ db.record # other.seen)
              /\ other' = NoOther /\ edits' = edits
            BY <1>2, <2>2 DEF OtherCommits, DbType
        <3>2. settings \in [Inbounds -> PlanType] /\ other.seen \in PlanType
            BY <1>2 DEF TypeOK
        <3>3. db.settings[other.at] = other.seen => settings = db.settings
            BY <1>2 DEF TypeOK
        <3>4. NoOther \in [step : {"idle", "commit"}, at : Inbounds, seen : PlanType]
            BY InboundsAssumption, PlansAssumption DEF NoOther, AnyInbound, AnyPlan
        <3> HIDE DEF settings
        <3>5. db' \in [settings : [Inbounds -> PlanType], record : PlanType, row : RowType]
            BY <1>2, <3>1, <3>2 DEF DbType
        <3>6. torn' \in BOOLEAN /\ (~torn' => ~torn /\ db' = db)
            <4>1. db = [settings |-> db.settings, record |-> db.record, row |-> db.row]
                BY <1>2 DEF DbType
            <4> QED
                BY <1>2, <3>1, <3>3, <4>1 DEF TypeOK
        <3> QED
            BY <1>1, <1>2, <3>1, <3>4, <3>5, <3>6 DEF TypeOK, apiVars
    <2> QED
        BY <2>1, <2>2
<1>4. OpInv'
    BY <1>1 DEF IInv, OpInv
<1>5. CopyInv'
    BY <1>1, <1>3 DEF IInv, CopyInv, Unwritten
<1>6. CoreInv'
    BY <1>1, <1>3 DEF IInv, CoreInv, Unwritten, Pending, apiVars, GetXrayConfig
<1> QED
    BY <1>3, <1>4, <1>5, <1>6 DEF IInv

ResetType == [step : {"idle", "next", "save"}, todo : SUBSET Inbounds, row : RowType,
              need : BOOLEAN]

\* A reset reads the row; while the copies agree it finds no user to add, except in
\* an inbound where an edit will find the client enabled.
LEMMA ResetReadsStep ==
    ASSUME IInv, ResetReads
    PROVE  IInv'
<1>1. PICK i \in reset.todo, ok \in BOOLEAN :
        LET adds == ~db.row.enable /\ db.settings[i].enable
        IN  /\ Fails(IF adds /\ ~ok THEN 1 ELSE 0)
            /\ served' = served \cup (IF adds /\ ok THEN {i} ELSE {})
            /\ reset' = [reset EXCEPT !.step = "save", !.todo = @ \ {i}, !.row = db.row,
                                      !.need = @ \/ (adds /\ (~ok \/ i \in served))]
    BY DEF ResetReads
<1>2. UNCHANGED <<db, config, need, forced, restart, edit, other, now, edits, cause, torn>>
    BY DEF ResetReads
<1> DEFINE adds == ~db.row.enable /\ db.settings[i].enable
           needs == reset.need \/ (adds /\ (~ok \/ i \in served))
           rest == reset.todo \ {i}
<1>3. /\ TypeOK /\ db \in DbType /\ reset \in ResetType /\ i \in Inbounds
      /\ served \subseteq Inbounds /\ edit.to.enable \in BOOLEAN
    BY DEF IInv, TypeOK, DbType, ResetType, PlanType
<1>4. /\ Fails(IF adds /\ ~ok THEN 1 ELSE 0)
      /\ served' = served \cup (IF adds /\ ok THEN {i} ELSE {})
      /\ reset' = [reset EXCEPT !.step = "save", !.todo = rest, !.row = db.row, !.need = needs]
    BY <1>1
<1>5. /\ needs \in BOOLEAN /\ (~needs => ~reset.need) /\ rest \subseteq Inbounds
      /\ db.row \in RowType
    BY <1>3, SwitchIsBoolean DEF ResetType, DbType
<1>6. adds = (~db.row.enable /\ db.settings[i].enable)
    OBVIOUS
<1> HIDE DEF adds, needs, rest
<1>7. reset' \in ResetType /\ reset'.step = "save" /\ reset'.need = needs
    BY <1>3, <1>4, <1>5 DEF ResetType
<1>8. TypeOK'
    <2>1. fails' \in 0..MaxFails /\ served' \subseteq Inbounds
        BY <1>3, <1>4, FailsSays
    <2> QED
        BY <1>2, <1>3, <1>7, <2>1 DEF TypeOK, ResetType
<1>9. OpInv'
    BY <1>2, <1>7 DEF IInv, OpInv
<1>10. CopyInv'
    BY <1>2 DEF IInv, CopyInv, Unwritten
<1>11. CoreInv'
    <2> SUFFICES ASSUME cause' = "none", ~torn', ~Pending'
                 PROVE  CoreInv'
        BY DEF CoreInv
    <2>1. cause = "none" /\ ~torn /\ ~Pending
        BY <1>2, <1>5, <1>7 DEF Pending
    <2>2. CASE Unwritten
        <3>1. Whole(db) /\ served = GetXrayConfig(db)
            BY <2>1, <2>2 DEF IInv, CopyInv, CoreInv
        <3>2. ~adds
            BY <1>3, <1>6, <3>1 DEF Whole
        <3> QED
            BY <1>2, <1>4, <2>2, <3>1, <3>2 DEF CoreInv, Unwritten, GetXrayConfig
    <2>3. CASE ~Unwritten
        <3>1. /\ Written(db, edit.to, edit.todo)
              /\ \A j \in Inbounds \ edit.todo : j \in served <=> edit.to.enable
              /\ \A j \in edit.todo : j \in served /\ ~edit.to.enable => db.settings[j].enable
            BY <2>1, <2>3 DEF IInv, CopyInv, CoreInv
        <3>2. adds => i \in edit.todo
            BY <1>3, <1>6, <3>1 DEF Written
        <3>3. /\ \A j \in Inbounds \ edit.todo : j \in served' <=> edit.to.enable
              /\ \A j \in edit.todo : j \in served' /\ ~edit.to.enable => db.settings[j].enable
            BY <1>4, <1>6, <3>1, <3>2
        <3> QED
            BY <1>2, <2>3, <3>3 DEF CoreInv, Unwritten
    <2> QED
        BY <2>2, <2>3
<1> QED
    BY <1>8, <1>9, <1>10, <1>11 DEF IInv

\* Both kinds of reset enable the row and clear its usage; if another write came
\* between the reading and the saving of the row, the copies count as torn.
LEMMA ResetWritesStep ==
    ASSUME IInv, ResetSaves \/ BulkResetTraffic
    PROVE  IInv'
<1>1. UNCHANGED <<served, config, need, forced, restart, edit, other, now, fails, cause>>
    BY DEF ResetSaves, BulkResetTraffic, apiVars
<1>2. TypeOK /\ db \in DbType /\ reset \in ResetType
    BY DEF IInv, TypeOK, DbType, ResetType
<1> DEFINE after == [db EXCEPT !.row = [db.row EXCEPT !.enable = TRUE, !.used = 0]]
<1>3. /\ after \in DbType /\ after.settings = db.settings
      /\ Whole(db) => Whole(after) /\ GetXrayConfig(after) = GetXrayConfig(db)
      /\ \A p, todo : Written(db, p, todo) => Written(after, p, todo)
    BY <1>2, ResetRowSays
<1>4. /\ db' \in DbType /\ torn' \in BOOLEAN /\ (~torn' => ~torn /\ db' = after)
      /\ reset' \in ResetType /\ reset'.need = reset.need
      /\ reset'.step = "idle" => reset.step = "idle"
      /\ edits' \in 0..MaxEdits
    <2>1. CASE ResetSaves
        <3> DEFINE row == [reset.row EXCEPT !.enable = TRUE, !.used = 0]
        <3>1. row \in RowType
            <4>1. 0 \in 0..MaxUsed /\ reset.row \in RowType
                BY <1>2, BoundsAssumption DEF ResetType
            <4> QED
                BY <4>1 DEF RowType
        <3>2. db' = [db EXCEPT !.row = row] /\ torn' = (torn \/ db.row # reset.row)
            BY <2>1 DEF ResetSaves
        <3>3. db.row = reset.row => db' = after
            BY <3>2
        <3> HIDE DEF row, after
        <3>4. db' \in DbType
            BY <1>2, <3>1, <3>2 DEF DbType
        <3>5. NoReset.row \in RowType
            BY BoundsAssumption, PlansAssumption
               DEF NoReset, WithUsage, AnyPlan, PlanType, RowType
        <3>6. reset' = [reset EXCEPT !.step = "next", !.row = NoReset.row]
            BY <2>1 DEF ResetSaves
        <3>7. reset' \in ResetType /\ reset'.need = reset.need /\ reset'.step = "next"
            BY <1>2, <3>5, <3>6 DEF ResetType
        <3>8. edits' \in 0..MaxEdits
            BY <1>2, <2>1 DEF ResetSaves, TypeOK
        <3> QED
            BY <1>2, <3>2, <3>3, <3>4, <3>7, <3>8 DEF TypeOK
    <2>2. CASE BulkResetTraffic
        <3>1. db' = after
            BY <1>2, <2>2 DEF BulkResetTraffic, DbType, RowType
        <3>2. torn' = (torn \/ edit.step = "commit") /\ reset' = reset
            BY <2>2 DEF BulkResetTraffic
        <3>3. edits' \in 0..MaxEdits
            BY <1>2, <2>2, EditsCount DEF BulkResetTraffic
        <3> HIDE DEF after
        <3> QED
            BY <1>2, <1>3, <3>1, <3>2, <3>3 DEF TypeOK
    <2> QED
        BY <2>1, <2>2
<1> HIDE DEF after
<1>5. TypeOK'
    BY <1>1, <1>2, <1>4 DEF TypeOK, DbType, ResetType
<1>6. OpInv'
    BY <1>1, <1>4 DEF IInv, OpInv
<1>7. (Unwritten' <=> Unwritten) /\ (Pending' <=> Pending)
    BY <1>1, <1>4 DEF Unwritten, Pending
<1>8. CopyInv'
    BY <1>1, <1>3, <1>4, <1>7 DEF IInv, CopyInv
<1>9. CoreInv'
    <2> SUFFICES ASSUME cause' = "none", ~torn', ~Pending'
                 PROVE  CoreInv'
        BY DEF CoreInv
    <2>1. cause = "none" /\ ~torn /\ ~Pending /\ db' = after
        BY <1>1, <1>4, <1>7
    <2>2. CASE Unwritten
        <3>1. Whole(db) /\ served = GetXrayConfig(db)
            BY <2>1, <2>2 DEF IInv, CopyInv, CoreInv
        <3>2. served' = GetXrayConfig(after)
            BY <1>1, <1>3, <3>1
        <3>3. GetXrayConfig(db') = GetXrayConfig(after)
            BY <2>1
        <3> QED
            BY <1>7, <2>2, <3>2, <3>3 DEF CoreInv
    <2>3. CASE ~Unwritten
        BY <1>1, <1>3, <1>7, <2>1, <2>3 DEF IInv, CoreInv
    <2> QED
        BY <2>2, <2>3
<1> QED
    BY <1>5, <1>6, <1>8, <1>9 DEF IInv

\* The start and the end of a reset, and the clock.
LEMMA ResetFrameStep ==
    ASSUME IInv, ResetTrafficByEmail \/ ResetReturns \/ Tick \/ UNCHANGED vars
    PROVE  IInv'
<1>1. UNCHANGED <<db, served, config, forced, restart, edit, other, fails, cause, torn>>
    BY DEF ResetTrafficByEmail, ResetReturns, Tick, vars, apiVars
<1>2. TypeOK /\ reset \in ResetType
    BY DEF IInv, TypeOK, ResetType
<1>3. /\ reset' \in ResetType /\ (reset'.step = "idle" => ~reset'.need)
      /\ need' \in BOOLEAN /\ (~need' /\ ~reset'.need => ~need /\ ~reset.need)
      /\ now' \in 1..MaxNow /\ edits' \in 0..MaxEdits
    <2>1. CASE ResetTrafficByEmail
        <3>1. /\ need' = need /\ now' = now /\ ~reset.need
              /\ reset' = [reset EXCEPT !.step = "next", !.todo = Inbounds, !.need = FALSE]
            BY <2>1 DEF ResetTrafficByEmail, apiVars, IInv, OpInv
        <3>2. edits' \in 0..MaxEdits
            BY <1>2, <2>1, EditsCount DEF ResetTrafficByEmail
        <3>3. reset' \in ResetType /\ reset'.step = "next"
            BY <1>2, <3>1 DEF ResetType
        <3> QED
            BY <1>2, <3>1, <3>2, <3>3 DEF TypeOK
    <2>2. CASE ResetReturns
        <3>1. reset' = NoReset /\ need' = (need \/ reset.need) /\ now' = now /\ edits' = edits
            BY <2>2 DEF ResetReturns
        <3>2. NoReset \in ResetType /\ ~NoReset.need
            BY BoundsAssumption, PlansAssumption
               DEF NoReset, WithUsage, AnyPlan, PlanType, RowType, ResetType
        <3> QED
            BY <1>2, <3>1, <3>2 DEF TypeOK, ResetType
    <2>3. CASE Tick
        <3>1. now' \in 1..MaxNow
            BY <1>2, <2>3, BoundsAssumption DEF Tick, TypeOK
        <3> QED
            BY <1>2, <2>3, <3>1 DEF Tick, TypeOK, apiVars, IInv, OpInv
    <2>4. CASE UNCHANGED vars
        BY <1>2, <2>4 DEF vars, TypeOK, IInv, OpInv
    <2> QED
        BY <2>1, <2>2, <2>3, <2>4
<1>4. TypeOK'
    BY <1>1, <1>2, <1>3 DEF TypeOK, ResetType
<1>5. OpInv'
    BY <1>1, <1>3 DEF IInv, OpInv
<1>6. ~Pending' => ~Pending
    BY <1>1, <1>3 DEF Pending
<1>7. CopyInv'
    BY <1>1 DEF IInv, CopyInv, Unwritten
<1>8. CoreInv'
    BY <1>1, <1>6 DEF IInv, CoreInv, Unwritten, GetXrayConfig
<1> QED
    BY <1>4, <1>5, <1>7, <1>8 DEF IInv

-----------------------------------------------------------------------------
(* The theorems *)

\* The inductive invariant holds in every reachable state.
THEOREM Invariance == Spec => []IInv
<1>1. Init => IInv
    BY InitIInv
<1>2. ASSUME IInv, [Next]_vars
      PROVE  IInv'
    BY <1>2, JobStep, RestartBeginsStep, RestartStep, EditReadsStep, EditWritesStep,
       EditEndsStep, OtherStep, ResetReadsStep, ResetWritesStep, ResetFrameStep
       DEF Next, UpdateProceeds, ResetProceeds
<1> QED
    BY <1>1, <1>2, PTL DEF Spec

\* Every variable keeps its type, for any plans: also for a plan whose renewal date
\* the loop of autoRenewClients computes.
THEOREM TypeCorrect == Spec => []TypeOK
<1>1. IInv => TypeOK
    BY DEF IInv
<1> QED
    BY <1>1, Invariance, PTL

\* The three copies of a client's plan agree on its limits, whatever polls, edits,
\* resets, restarts and failures came before, unless a write was lost.
THEOREM CopiesAgree == Spec => []PlansAgree
<1>1. IInv => PlansAgree
    BY DEF IInv, CopyInv, Unwritten, Whole, Limits, PlansAgree
<1> QED
    BY <1>1, Invariance, PTL

\* When nothing is under way and no restart is due, the core serves the client in
\* exactly the inbounds the database says, unless a recorded race came before.
THEOREM CoreMatches == Spec => []CoreFollowsDatabase
<1>1. ASSUME IInv, Quiet, ~need, ~forced, cause = "none", ~torn
      PROVE  served = GetXrayConfig(db)
    <2>1. ~Pending /\ Unwritten
        BY <1>1 DEF IInv, OpInv, Quiet, Pending, Unwritten
    <2> QED
        BY <1>1, <2>1 DEF IInv, CoreInv
<1>2. IInv => CoreFollowsDatabase
    BY <1>1 DEF CoreFollowsDatabase
<1> QED
    BY <1>2, Invariance, PTL

=============================================================================
